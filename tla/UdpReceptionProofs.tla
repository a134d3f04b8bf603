------------------------- MODULE UdpReceptionProofs -------------------------
(***************************************************************************)
(* What a UDP link outputs, for every number of scans, every division of a *)
(* scan into packets, and every loss, copy and disorder.                   *)
(***************************************************************************)
EXTENDS UdpReception, FiniteSetTheorems, SequenceTheorems, WellFoundedInduction, TLAPS

-----------------------------------------------------------------------------
(* The points of a scan                                                    *)

\* The first packet that is not after an earlier one would have a predecessor
\* that is.
LEMMA PointsIncrease ==
  \A m, n \in 0..PacketsPerScan : m < n => PointsUpTo[m] < PointsUpTo[n]
<1> SUFFICES ASSUME NEW m \in 0..PacketsPerScan
             PROVE  \A n \in 0..PacketsPerScan : m < n => PointsUpTo[m] < PointsUpTo[n]
  OBVIOUS
<1> DEFINE Bad == {n \in 0..PacketsPerScan : m < n /\ ~(PointsUpTo[m] < PointsUpTo[n])}
<1>1. SUFFICES ASSUME Bad # {} PROVE FALSE
  OBVIOUS
<1>2. Bad \subseteq Nat
  BY UdpAssumption
<1>3. PICK n \in Bad : \A k \in Bad : ~(<<k, n>> \in OpToRel(<, Nat))
  BY <1>1, <1>2, NatLessThanWellFounded, WFMin, Zenon
<1>4. \A k \in Bad : ~(k < n)
  BY <1>2, <1>3 DEF OpToRel
<1>5. n \in Packets /\ n - 1 \in 0..PacketsPerScan /\ PointsUpTo[n - 1] < PointsUpTo[n]
  BY UdpAssumption DEF Packets
<1>6. n - 1 \notin Bad /\ m < n
  BY <1>4, <1>5, UdpAssumption
<1>7. m = n - 1 \/ PointsUpTo[m] < PointsUpTo[n - 1]
  BY <1>5, <1>6, UdpAssumption
<1> QED
  BY <1>5, <1>7, UdpAssumption

LEMMA PointsFacts ==
  /\ PointsUpTo \in [0..PacketsPerScan -> Nat] /\ PacketsPerScan \in Nat \ {0}
  /\ PointsOfScan \in Nat \ {0}
  /\ \A n \in Packets : /\ n \in 0..PacketsPerScan /\ n - 1 \in 0..PacketsPerScan
                        /\ PointsUpTo[n - 1] < PointsUpTo[n] /\ PointsUpTo[n] <= PointsOfScan
                        /\ PointsUpTo[n] = PointsOfScan => n = PacketsPerScan
<1>1. PointsUpTo[0] < PointsOfScan
  BY PointsIncrease, UdpAssumption DEF PointsOfScan
<1> QED
  BY <1>1, PointsIncrease, UdpAssumption DEF PointsOfScan, Packets

-----------------------------------------------------------------------------
(* Packets                                                                 *)

LEMMA HeaderFacts ==
  ASSUME NEW h \in Headers
  PROVE  /\ h.scan \in 0..(Scans - 1) /\ h.packetNumber \in Packets
         /\ h = Header(h.scan, h.packetNumber)
         /\ h.points = PointsUpTo[h.packetNumber] - PointsUpTo[h.packetNumber - 1]
         /\ h.points \in Nat \ {0} /\ h.numPointsScan = PointsOfScan
<1>1. PICK s \in 0..(Scans - 1), n \in Packets : h = Header(s, n)
  BY DEF Headers
<1> QED
  BY <1>1, PointsFacts DEF Header

\* Two scans with one number are a turn of the counter apart.
LEMMA SameNumber ==
  ASSUME NEW g \in Headers, NEW h \in Headers, scanNumber(g) = scanNumber(h), g.scan < h.scan
  PROVE  g.scan + 2 ^ ScanNumberBits <= h.scan
<1> DEFINE m == 2 ^ ScanNumberBits
           a == g.scan
           b == h.scan
<1>1. a \in Nat /\ b \in Nat /\ a < b
  BY HeaderFacts
<1>2. m \in Nat \ {0}
  <2>1. 2 ^ ScanNumberBits \in Int /\ 2 ^ ScanNumberBits > 0
    BY ScanNumberAssumption
  <2> QED
    BY <2>1
<1>3. a % m = b % m
  BY DEF scanNumber
<1> SUFFICES a + m <= b
  OBVIOUS
<1> HIDE DEF m, a, b
<1>4. /\ a \div m \in Nat /\ b \div m \in Nat /\ a % m \in 0..(m - 1)
      /\ a = (a \div m) * m + (a % m) /\ b = (b \div m) * m + (b % m)
  BY <1>1, <1>2
<1> DEFINE x == a \div m
           y == b \div m
           r == a % m
<1>5. /\ x \in Nat /\ y \in Nat /\ r \in 0..(m - 1)
      /\ a = x * m + r /\ b = y * m + r
  BY <1>3, <1>4
<1> HIDE DEF x, y, r
<1>6. ASSUME NEW u \in Nat, NEW v \in Nat, u < v
      PROVE  u * m + m <= v * m
  <2>1. v - u - 1 \in Nat /\ v = u + 1 + (v - u - 1)
    BY <1>6
  <2>2. \A d \in Nat : (u + 1 + d) * m = u * m + m + d * m /\ d * m \in Nat
    BY <1>2
  <2>3. (v - u - 1) * m \in Nat /\ v * m = u * m + m + (v - u - 1) * m
    BY <2>1, <2>2
  <2>4. u * m \in Nat /\ v * m \in Nat
    BY <1>2
  <2> HIDE <2>1, <2>2
  <2> QED
    BY <1>2, <2>3, <2>4
<1>7. x * m \in Nat /\ y * m \in Nat
  BY <1>2, <1>5
<1>8. x < y
  <2>1. y < x => y * m + m <= x * m
    BY <1>5, <1>6
  <2>2. x = y => a = b
    BY <1>5
  <2> QED
    BY <1>1, <1>2, <1>5, <1>7, <2>1, <2>2
<1>9. x * m + m <= y * m
  BY <1>5, <1>6, <1>8
<1> QED
  BY <1>2, <1>5, <1>7, <1>9

LEMMA OneHeader ==
  ASSUME NEW s \in 0..(Scans - 1), NEW n \in Packets
  PROVE  /\ Header(s, n) \in Headers
         /\ Header(s, n).scan = s /\ Header(s, n).packetNumber = n
         /\ Header(s, n).points = PointsUpTo[n] - PointsUpTo[n - 1]
  BY DEF Header, Headers

-----------------------------------------------------------------------------
(* The factory                                                             *)

Factories == [packets : Seq(Headers), points : 0..(PointsOfScan - 1)]

\* An empty factory counts no points.
Counted == IsEmpty(scanFactory) => scanFactory.points = 0

\* What the factory is when a packet has been added to it.
Extended(h) == Added(Prepared(scanFactory, h), h)

LEMMA ExtendedFacts ==
  ASSUME scanFactory \in Factories, Counted, NEW h \in Headers
  PROVE  LET f == Extended(h)
             n == Len(f.packets) - 1
         IN  /\ f.packets \in Seq(Headers) /\ n \in Nat /\ DOMAIN f.packets = 1..(n + 1)
             /\ f.packets[n + 1] = h /\ f = [packets |-> f.packets, points |-> f.points]
             /\ f.points \in Nat
             /\ IsComplete(f) <=> f.points >= PointsOfScan
             /\ \/ n = 0 /\ f.points = h.points
                \/ /\ n = Len(scanFactory.packets) /\ n > 0 /\ h.packetNumber # 1
                   /\ f.points = scanFactory.points + h.points
                   /\ scanNumber(scanFactory.packets[n]) = scanNumber(h)
                   /\ \A i \in 1..n : f.packets[i] = scanFactory.packets[i]
             /\ \/ IsEmpty(scanFactory) \/ h.packetNumber = 1
                \/ LastHeader(scanFactory).scan # h.scan
                \/ n = Len(scanFactory.packets)
<1> DEFINE f == Extended(h)
           p == Prepared(scanFactory, h)
           q == scanFactory.packets
<1>1. /\ q \in Seq(Headers) /\ scanFactory = [packets |-> q, points |-> scanFactory.points]
      /\ scanFactory.points \in Nat /\ h.points \in Nat /\ Len(q) \in Nat
      /\ q # <<>> => Len(q) > 0 /\ q[Len(q)] \in Headers
  BY PointsFacts, HeaderFacts, LenProperties, EmptySeq, ElementOfSeq DEF Factories
<1>2. \/ p = EmptyFactory
         /\ ~IsEmpty(scanFactory) /\ (IsDifferentScan(scanFactory, h) \/ IsNewScan(h))
      \/ p = scanFactory /\ ~IsEmpty(scanFactory)
         /\ ~IsDifferentScan(scanFactory, h) /\ ~IsNewScan(h)
      \/ p = EmptyFactory /\ p = scanFactory /\ IsEmpty(scanFactory)
  <2>1. IsEmpty(scanFactory) => scanFactory = EmptyFactory
    BY <1>1 DEF Counted, IsEmpty, EmptyFactory
  <2> QED
    BY <2>1 DEF Prepared, Clear
<1>3. /\ p.packets \in Seq(Headers) /\ p.points \in Nat
      /\ p = EmptyFactory => p.packets = <<>> /\ p.points = 0
  <2>1. EmptyFactory.packets = <<>> /\ EmptyFactory.points = 0 /\ <<>> \in Seq(Headers)
    BY EmptySeq DEF EmptyFactory
  <2>2. p = EmptyFactory \/ p = scanFactory
    BY <1>2
  <2>3. q \in Seq(Headers) /\ scanFactory.points \in Nat
    BY <1>1
  <2> HIDE DEF p
  <2>4. CASE p = EmptyFactory
    <3>1. 0 \in Nat
      OBVIOUS
    <3> QED
      BY ONLY <2>1, <2>4, <3>1, Zenon
  <2>5. CASE p = scanFactory
    BY ONLY <2>1, <2>3, <2>5
  <2> QED
    BY <2>2, <2>4, <2>5
<1>4. f = [packets |-> Append(p.packets, h), points |-> p.points + h.points]
  BY DEF Extended, Added
<1>5. /\ Append(p.packets, h) \in Seq(Headers)
      /\ Len(Append(p.packets, h)) = Len(p.packets) + 1 /\ Len(p.packets) \in Nat
      /\ Append(p.packets, h)[Len(p.packets) + 1] = h
      /\ \A i \in 1..Len(p.packets) : Append(p.packets, h)[i] = p.packets[i]
      /\ DOMAIN Append(p.packets, h) = 1..(Len(p.packets) + 1)
      /\ Append(p.packets, h) # <<>>
  BY <1>3, AppendProperties, LenProperties
<1> HIDE DEF p
<1> DEFINE n == Len(f.packets) - 1
<1>6. /\ f.packets = Append(p.packets, h) /\ f.points = p.points + h.points
      /\ n = Len(p.packets)
  BY <1>4, <1>5
<1> HIDE DEF f
<1>7. /\ f.packets \in Seq(Headers) /\ n \in Nat /\ DOMAIN f.packets = 1..(n + 1)
      /\ f.packets[n + 1] = h /\ f = [packets |-> f.packets, points |-> f.points]
      /\ f.points \in Nat
  BY <1>1, <1>3, <1>4, <1>5, <1>6
<1>8. IsComplete(f) <=> f.points >= PointsOfScan
  BY <1>5, <1>6, HeaderFacts DEF IsComplete, IsEmpty, LastHeader
<1>9. CASE p = EmptyFactory
  <2>1. n = 0 /\ f.points = h.points
    BY <1>1, <1>3, <1>6, <1>9, EmptySeq
  <2>2. \/ IsEmpty(scanFactory) \/ h.packetNumber = 1
        \/ LastHeader(scanFactory).scan # h.scan
        \/ n = Len(scanFactory.packets)
    BY <1>1, <1>2, <1>9
       DEF IsEmpty, IsNewScan, IsDifferentScan, LastHeader, EmptyFactory, scanNumber
  <2> QED
    BY <1>7, <1>8, <2>1, <2>2 DEF f
<1>10. CASE p = scanFactory /\ ~IsEmpty(scanFactory)
            /\ ~IsDifferentScan(scanFactory, h) /\ ~IsNewScan(h)
  <2>1. /\ n = Len(q) /\ n > 0 /\ h.packetNumber # 1 /\ f.points = scanFactory.points + h.points
        /\ \A i \in 1..n : f.packets[i] = q[i]
    BY <1>1, <1>5, <1>6, <1>10 DEF IsEmpty, IsNewScan
  <2>2. scanNumber(q[n]) = scanNumber(h)
    BY <1>1, <1>10, <2>1 DEF IsEmpty, IsDifferentScan, LastHeader
  <2> QED
    BY <1>7, <1>8, <2>1, <2>2 DEF f
<1> QED
  BY <1>2, <1>9, <1>10

-----------------------------------------------------------------------------
(* The sort                                                                *)

Before(q, k) == {j \in DOMAIN q : \/ q[j].packetNumber < q[k].packetNumber
                                  \/ q[j].packetNumber = q[k].packetNumber /\ j <= k}

\* Each packet has one place, and each place one packet.
LEMMA PlaceFacts ==
  ASSUME NEW q \in Seq(Headers)
  PROVE  /\ \A k \in DOMAIN q : Place(q, k) \in DOMAIN q
         /\ \A i, k \in DOMAIN q :
              /\ Place(q, i) = Place(q, k) => i = k
              /\ Place(q, i) < Place(q, k) => q[i].packetNumber <= q[k].packetNumber
         /\ \A i \in DOMAIN q : \E k \in DOMAIN q : Place(q, k) = i
<1> DEFINE n == Len(q)
<1>1. n \in Nat /\ DOMAIN q = 1..n /\ \A k \in 1..n : q[k].packetNumber \in Nat
  <2>1. \A k \in 1..n : q[k].packetNumber \in Packets
    BY LenProperties, ElementOfSeq, HeaderFacts
  <2> QED
    BY <2>1, LenProperties DEF Packets
<1> HIDE DEF n
<1>2. IsFiniteSet(1..n) /\ Cardinality(1..n) = n
  BY <1>1, FS_Interval
<1>3. \A k \in 1..n : /\ Place(q, k) = Cardinality(Before(q, k)) /\ IsFiniteSet(Before(q, k))
                      /\ Before(q, k) \in SUBSET (1..n) /\ k \in Before(q, k)
  BY <1>1, <1>2, FS_Subset DEF Place, Before
<1>4. \A k \in 1..n : Place(q, k) \in 1..n
  <2> TAKE k \in 1..n
  <2>1. Cardinality(Before(q, k)) <= n /\ Cardinality(Before(q, k)) \in Nat
    BY <1>2, <1>3, FS_Subset, FS_CardinalityType
  <2>2. Cardinality(Before(q, k)) # 0
    BY <1>3, FS_EmptySet
  <2> QED
    BY <1>1, <1>3, <2>1, <2>2
<1>5. ASSUME NEW i \in 1..n, NEW k \in 1..n, i \in Before(q, k), i # k
      PROVE  Place(q, i) < Place(q, k)
  <2>1. Before(q, i) \in SUBSET Before(q, k) /\ k \notin Before(q, i)
    BY <1>1, <1>5 DEF Before
  <2>2. /\ Cardinality(Before(q, i)) <= Cardinality(Before(q, k))
        /\ Cardinality(Before(q, i)) # Cardinality(Before(q, k))
    BY <1>3, <2>1, FS_Subset
  <2> QED
    BY <1>1, <1>3, <1>4, <2>2
<1>6. \A i, k \in 1..n : i = k \/ i \in Before(q, k) \/ k \in Before(q, i)
  BY <1>1 DEF Before
<1>7. \A i, k \in 1..n : Place(q, i) = Place(q, k) => i = k
  BY <1>4, <1>5, <1>6
<1>8. \A i, k \in 1..n : Place(q, i) < Place(q, k) => q[i].packetNumber <= q[k].packetNumber
  <2> TAKE i \in 1..n, k \in 1..n
  <2>1. Place(q, i) < Place(q, k) => i \in Before(q, k)
    BY <1>4, <1>5, <1>6
  <2> QED
    BY <1>1, <2>1 DEF Before
<1>9. \A i \in 1..n : \E k \in 1..n : Place(q, k) = i
  <2> DEFINE place == [k \in 1..n |-> Place(q, k)]
  <2>1. place \in Injection(1..n, 1..n)
    BY <1>4, <1>7 DEF Injection, IsInjective
  <2>2. place \in Surjection(1..n, 1..n)
    BY <1>2, <2>1, FS_Injection
  <2> QED
    BY <2>2 DEF Surjection
<1> QED
  BY <1>1, <1>4, <1>7, <1>8, <1>9

\* The sorted sequence holds each element of the sequence once, by increasing
\* number; it is the sequence itself if that was in order.
LEMMA AssembledFacts ==
  ASSUME NEW f, f.packets \in Seq(Headers)
  PROVE  LET q == f.packets
             r == Assembled(f)
         IN  /\ r \in Seq(Headers) /\ DOMAIN r = DOMAIN q
             /\ \A i \in DOMAIN r : \E k \in DOMAIN q : Place(q, k) = i /\ r[i] = q[k]
             /\ \A k \in DOMAIN q : \E i \in DOMAIN r : Place(q, k) = i /\ r[i] = q[k]
             /\ \A i, k \in DOMAIN r : i < k => r[i].packetNumber <= r[k].packetNumber
<1> DEFINE q == f.packets
           r == Assembled(f)
           At(i) == CHOOSE k \in DOMAIN q : Place(q, k) = i
<1>1. \A i \in DOMAIN q : At(i) \in DOMAIN q /\ Place(q, At(i)) = i
  BY PlaceFacts
<1>2. r = [i \in DOMAIN q |-> q[At(i)]]
  BY DEF Assembled
<1> HIDE DEF At, r
<1>3. DOMAIN r = DOMAIN q /\ \A i \in DOMAIN q : r[i] = q[At(i)]
  BY <1>2
<1>4. r \in Seq(Headers)
  <2>1. /\ Len(q) \in Nat /\ DOMAIN q = 1..Len(q) /\ \A i \in 1..Len(q) : q[i] \in Headers
    BY LenProperties, ElementOfSeq
  <2>2. r \in [1..Len(q) -> Headers]
    BY <1>1, <1>2, <2>1
  <2> QED
    BY <2>1, <2>2
<1>5. \A k \in DOMAIN q : Place(q, k) \in DOMAIN q /\ At(Place(q, k)) = k
  BY <1>1, PlaceFacts
<1>6. \A i, k \in DOMAIN q : i < k => r[i].packetNumber <= r[k].packetNumber
  <2> TAKE i \in DOMAIN q, k \in DOMAIN q
  <2> HAVE i < k
  <2>1. At(i) \in DOMAIN q /\ At(k) \in DOMAIN q /\ Place(q, At(i)) < Place(q, At(k))
    BY <1>1
  <2>2. q[At(i)].packetNumber <= q[At(k)].packetNumber
    BY <2>1, PlaceFacts
  <2> QED
    BY <1>3, <2>2
<1> QED
  BY <1>1, <1>3, <1>4, <1>5, <1>6 DEF r

\* A sequence that was in order stays as it is.
LEMMA SortedStays ==
  ASSUME NEW f, f.packets \in Seq(Headers),
         \A i \in DOMAIN f.packets : f.packets[i].packetNumber = i
  PROVE  Assembled(f) = f.packets
<1> DEFINE q == f.packets
           r == Assembled(f)
<1>1. Len(q) \in Nat /\ DOMAIN q = 1..Len(q)
  BY LenProperties
<1>2. \A k \in DOMAIN q : Place(q, k) = k
  <2> TAKE k \in DOMAIN q
  <2>1. {j \in DOMAIN q : \/ q[j].packetNumber < q[k].packetNumber
                          \/ q[j].packetNumber = q[k].packetNumber /\ j <= k} = 1..k
    <3> DEFINE number(j) == q[j].packetNumber
    <3>1. \A j \in 1..Len(q) : number(j) = j
      BY <1>1
    <3> HIDE DEF number
    <3>2. {j \in 1..Len(q) : number(j) < number(k) \/ (number(j) = number(k) /\ j <= k)} = 1..k
      BY <1>1, <3>1
    <3> QED
      BY <1>1, <3>2 DEF number
  <2> QED
    <3>1. Cardinality(1..k) = k
      BY <1>1, FS_Interval
    <3> QED
      BY ONLY <2>1, <3>1 DEF Place
<1>3. /\ r \in Seq(Headers) /\ DOMAIN r = DOMAIN q
      /\ \A i \in DOMAIN q : r[i] = q[i]
  BY <1>2, AssembledFacts
<1>4. Len(r) = Len(q)
  BY <1>1, <1>3, LenProperties
<1> QED
  BY <1>1, <1>3, <1>4, SeqEqual

-----------------------------------------------------------------------------
(* Types                                                                   *)

Sent(h) == \/ h.scan < next.scan
           \/ h.scan = next.scan /\ h.packetNumber < next.packet

\* A packet that has no copy is on its way once at most, and not before it is
\* sent.
NetworkInv ==
  \A h \in Headers : /\ network[h] <= IF h \in duplicated THEN 2 ELSE 1
                     /\ (network[h] > 0 \/ h \in duplicated) => Sent(h)

Base == TypeOK /\ Counted /\ NetworkInv

\* What a datagram changes.
LEMMA ReceptionFacts ==
  ASSUME Base, NEW h \in Headers, onBytesReceived(h)
  PROVE  LET f == Extended(h)
         IN  /\ scanFactory \in Factories
             /\ f.packets \in Seq(Headers)
             /\ \/ /\ f.points >= PointsOfScan /\ scanFactory' = EmptyFactory
                   /\ outputs' = Append(outputs, Assembled(f)) /\ Assembled(f) \in Seq(Headers)
                \/ /\ f.points < PointsOfScan /\ scanFactory' = f /\ f \in Factories
                   /\ ~IsEmpty(f) /\ outputs' = outputs
<1> DEFINE f == Extended(h)
<1>1. scanFactory \in Factories
  BY DEF Base, TypeOK, Factories
<1>2. /\ f.packets \in Seq(Headers) /\ Len(f.packets) - 1 \in Nat
      /\ f = [packets |-> f.packets, points |-> f.points] /\ f.points \in Nat
      /\ IsComplete(f) <=> f.points >= PointsOfScan
  BY <1>1, ExtendedFacts DEF Base
<1>3. /\ scanFactory' = IF IsComplete(f) THEN EmptyFactory ELSE f
      /\ outputs' = IF IsComplete(f) THEN Append(outputs, Assembled(f)) ELSE outputs
  BY DEF onBytesReceived, Extended, Clear
<1>4. Assembled(f) \in Seq(Headers)
  BY <1>2, AssembledFacts
<1> HIDE DEF f
<1>5. f.packets # <<>>
  BY <1>2, EmptySeq
<1>6. f.points < PointsOfScan => f \in Factories
  BY <1>2, PointsFacts DEF Factories
<1> QED
  BY <1>1, <1>2, <1>3, <1>4, <1>5, <1>6, PointsFacts DEF f, IsEmpty

LEMMA SendFacts ==
  ASSUME Base, Send
  PROVE  /\ next' \in [scan : 0..Scans, packet : Packets]
         /\ \E h \in Headers :
              /\ network' = [network EXCEPT ![h] = @ + 1]
              /\ ~Sent(h) /\ Sent(h)'
              /\ \A g \in Headers : g # h => (Sent(g)' <=> Sent(g))
<1>1. /\ next \in [scan : 0..Scans, packet : Packets] /\ next.scan \in 0..(Scans - 1)
      /\ next.packet \in Packets /\ Scans \in Nat /\ PacketsPerScan \in Nat \ {0}
  BY UdpAssumption DEF Base, TypeOK, Send
<1>2. PICK h \in Headers : /\ h = Header(next.scan, next.packet)
                           /\ h.scan = next.scan /\ h.packetNumber = next.packet
  BY <1>1, OneHeader
<1>3. \/ /\ next.packet = PacketsPerScan
         /\ next'.scan = next.scan + 1 /\ next'.packet = 1
      \/ /\ next.packet # PacketsPerScan
         /\ next'.scan = next.scan /\ next'.packet = next.packet + 1
  BY <1>1 DEF Send
<1>4. next' \in [scan : 0..Scans, packet : Packets]
  BY <1>1 DEF Send, Packets
<1>5. ~Sent(h)
  BY <1>1, <1>2 DEF Sent, Packets
<1>6. Sent(h)'
  BY <1>1, <1>2, <1>3 DEF Sent, Packets
<1>7. ASSUME NEW g \in Headers, g # h
      PROVE  Sent(g)' <=> Sent(g)
  <2>1. /\ g.scan \in 0..(Scans - 1) /\ g.packetNumber \in Packets
        /\ ~(g.scan = next.scan /\ g.packetNumber = next.packet)
    BY <1>2, <1>7, HeaderFacts
  <2> QED
    BY <1>1, <1>3, <2>1 DEF Sent, Packets
<1> QED
  BY <1>2, <1>4, <1>5, <1>6, <1>7 DEF Send

LEMMA BaseHolds == Spec => []Base
<1>1. Init => Base
  <2> SUFFICES ASSUME Init PROVE Base
    OBVIOUS
  <2>1. /\ next \in [scan : 0..Scans, packet : Packets] /\ scanFactory \in Factories
        /\ 0 \in 0..MaxLost /\ <<>> \in Seq(Headers) /\ <<>> \in Seq(Seq(Headers))
    BY PointsFacts, UdpAssumption, EmptySeq DEF Init, Packets, Factories, EmptyFactory
  <2>2. Counted /\ NetworkInv
    BY DEF Init, Counted, NetworkInv, EmptyFactory
  <2>3. network \in [Headers -> 0..2] /\ duplicated \subseteq Headers
    BY DEF Init
  <2> QED
    BY <2>1, <2>2, <2>3 DEF Init, Base, TypeOK, Factories
<1>2. Base /\ [Next]_vars => Base'
  <2> SUFFICES ASSUME Base, [Next]_vars PROVE Base'
    OBVIOUS
  <2>1. TypeOK /\ Counted /\ NetworkInv
    BY DEF Base
  <2> DEFINE Networks == [Headers -> 0..2]
  <2>0. /\ network \in Networks
        /\ \A h \in Headers : network[h] \in 0..2
        /\ \A h \in Headers : network[h] > 0 =>
             /\ [network EXCEPT ![h] = @ - 1] \in Networks
             /\ \A g \in Headers : [network EXCEPT ![h] = @ - 1][g] <= network[g]
    <3>1. network \in Networks
      BY <2>1 DEF TypeOK
    <3> QED
      BY <3>1
  <2>2. CASE Send
    <3>1. PICK h \in Headers :
            /\ network' = [network EXCEPT ![h] = @ + 1]
            /\ ~Sent(h) /\ Sent(h)'
            /\ \A g \in Headers : g # h => (Sent(g)' <=> Sent(g))
      BY <2>2, SendFacts
    <3>2. network[h] = 0 /\ h \notin duplicated
      BY <2>1, <2>0, <3>1 DEF NetworkInv
    <3>3. network' \in [Headers -> 0..2]
      BY <2>1, <3>1, <3>2 DEF TypeOK
    <3>4. duplicated' = duplicated
      BY <2>2 DEF Send
    <3>5. NetworkInv'
      BY <2>1, <3>1, <3>2, <3>4 DEF NetworkInv, TypeOK
    <3>6. next' \in [scan : 0..Scans, packet : Packets]
      BY <2>2, SendFacts
    <3> QED
      BY <2>1, <2>2, <3>3, <3>5, <3>6 DEF Base, TypeOK, Counted, Send
  <2>3. ASSUME NEW h \in Headers, Lose(h)
        PROVE  Base'
    <3>1. network[h] \in 1..2 /\ network' = [network EXCEPT ![h] = @ - 1] /\ lost' \in 0..MaxLost
      BY <2>1, <2>3, UdpAssumption DEF Lose, TypeOK
    <3>2. network' \in [Headers -> 0..2] /\ \A g \in Headers : network'[g] <= network[g]
      BY <2>0, <3>1
    <3>3. NetworkInv'
      BY <2>1, <2>3, <3>2 DEF NetworkInv, TypeOK, Lose, Sent
    <3> QED
      BY <2>1, <2>3, <3>1, <3>2, <3>3 DEF Base, TypeOK, Counted, Lose
  <2>4. ASSUME NEW h \in Headers, Duplicate(h)
        PROVE  Base'
    <3>1. network[h] = 1 /\ network' = [network EXCEPT ![h] = @ + 1] /\ Sent(h)
      BY <2>1, <2>4 DEF Duplicate, TypeOK, NetworkInv
    <3>2. network' \in [Headers -> 0..2]
      BY <2>1, <3>1 DEF TypeOK
    <3>3. NetworkInv'
      BY <2>1, <2>4, <3>1 DEF NetworkInv, TypeOK, Duplicate, Sent
    <3> QED
      BY <2>1, <2>4, <3>2, <3>3 DEF Base, TypeOK, Counted, Duplicate
  <2>5. ASSUME NEW h \in Headers, onBytesReceived(h)
        PROVE  Base'
    <3>1. network[h] \in 1..2 /\ network' = [network EXCEPT ![h] = @ - 1]
      BY <2>1, <2>5 DEF onBytesReceived, TypeOK
    <3>2. network' \in [Headers -> 0..2] /\ \A g \in Headers : network'[g] <= network[g]
      BY <2>0, <3>1
    <3>3. NetworkInv'
      BY <2>1, <2>5, <3>2 DEF NetworkInv, TypeOK, onBytesReceived, Sent
    <3>4. EmptyFactory \in Factories
      BY EmptySeq, PointsFacts DEF EmptyFactory, Factories
    <3>5. scanFactory' \in Factories /\ Counted'
      BY <2>5, <3>4, ReceptionFacts DEF Counted, IsEmpty, EmptyFactory
    <3>6. outputs' \in Seq(Seq(Headers))
      <4>1. outputs \in Seq(Seq(Headers))
        BY <2>1 DEF TypeOK
      <4>2. outputs' = outputs \/ \E q \in Seq(Headers) : outputs' = Append(outputs, q)
        BY <2>5, ReceptionFacts
      <4> QED
        <5> DEFINE S == Seq(Headers)
        <5> HIDE DEF S
        <5>1. outputs \in Seq(S) /\ (outputs' = outputs \/ \E q \in S : outputs' = Append(outputs, q))
          BY <4>1, <4>2 DEF S
        <5>2. outputs' \in Seq(S)
          BY ONLY <5>1, AppendProperties
        <5> QED
          BY <5>2 DEF S
    <3>7. inOrder' \in Seq(Headers)
      BY <2>1, <2>5 DEF TypeOK, onBytesReceived
    <3> QED
      BY <2>1, <2>5, <3>2, <3>3, <3>5, <3>6, <3>7 DEF Base, TypeOK, Factories, onBytesReceived
  <2>6. CASE UNCHANGED vars
    BY <2>1, <2>6 DEF vars, Base, TypeOK, Counted, NetworkInv, Sent
  <2> QED
    BY <2>2, <2>3, <2>4, <2>5, <2>6 DEF Next
<1> QED
  BY <1>1, <1>2, PTL DEF Spec

\* Every variable of a UDP reception has its type: the factory counts fewer
\* points than a scan has, and a packet is on its way twice at most.
THEOREM TypeCorrect == Spec => []TypeOK
  BY BaseHolds, PTL DEF Base

-----------------------------------------------------------------------------
(* A scan that arrives in order                                            *)

\* The packets that came in order are what the factory holds, until they are a
\* scan, and then the last output.
OrderInv ==
  LET k == Len(inOrder)
  IN  /\ k <= PacketsPerScan
      /\ \A i \in 1..k : inOrder[i].packetNumber = i
      /\ k \in 1..(PacketsPerScan - 1)
           => scanFactory.packets = inOrder /\ scanFactory.points = PointsUpTo[k]
      /\ k = PacketsPerScan => outputs # <<>> /\ Last(outputs) = inOrder

\* The next packet in order is added to those that came in order.
LEMMA OrderGrows ==
  ASSUME Base, OrderInv, NEW h \in Headers, onBytesReceived(h), inOrder' # <<>>
  PROVE  LET k == h.packetNumber
             f == Extended(h)
         IN  /\ Len(inOrder') = k /\ \A i \in 1..k : inOrder'[i].packetNumber = i
             /\ f.packets = inOrder' /\ f.points = PointsUpTo[k]
<1> DEFINE k == h.packetNumber
           f == Extended(h)
           n == Len(f.packets) - 1
<1>1. /\ scanFactory \in Factories /\ Counted /\ inOrder \in Seq(Headers)
  BY ReceptionFacts DEF Base, TypeOK
<1>2. /\ k \in Packets /\ k \in Nat \ {0} /\ h.points = PointsUpTo[k] - PointsUpTo[k - 1]
      /\ PointsUpTo[k] \in Nat /\ PointsUpTo[k - 1] \in Nat /\ PointsUpTo[0] = 0
  BY HeaderFacts, PointsFacts, UdpAssumption DEF Packets
<1>3. /\ f.packets \in Seq(Headers) /\ n \in Nat /\ Len(f.packets) = n + 1
      /\ f.packets[n + 1] = h
      /\ \/ n = 0 /\ f.points = h.points
         \/ /\ n = Len(scanFactory.packets) /\ n > 0 /\ k # 1
            /\ f.points = scanFactory.points + h.points
            /\ \A i \in 1..n : f.packets[i] = scanFactory.packets[i]
      /\ \/ IsEmpty(scanFactory) \/ k = 1 \/ LastHeader(scanFactory).scan # h.scan
         \/ n = Len(scanFactory.packets)
  BY <1>1, ExtendedFacts, LenProperties
<1> HIDE DEF f
<1>4. CASE k = 1
  <2>1. inOrder' = <<h>> /\ n = 0 /\ f.points = PointsUpTo[k]
    <3>1. inOrder' = <<h>>
      BY <1>4 DEF onBytesReceived
    <3>2. n = 0 /\ f.points = h.points
      BY <1>3, <1>4
    <3>3. h.points = PointsUpTo[k]
      BY <1>2, <1>4
    <3> QED
      BY <3>1, <3>2, <3>3
  <2>2. /\ <<h>> \in Seq(Headers) /\ Len(<<h>>) = 1 /\ <<h>>[1] = h
    OBVIOUS
  <2>3. f.packets = <<h>>
    BY <1>3, <2>1, <2>2, SeqEqual
  <2> QED
    BY <1>4, <2>1, <2>2, <2>3 DEF f
<1>5. CASE k # 1
  <2> DEFINE m == Len(inOrder)
  <2>1. /\ inOrder # <<>> /\ Last(inOrder).scan = h.scan /\ Last(inOrder).packetNumber + 1 = k
        /\ inOrder' = Append(inOrder, h)
    BY <1>5 DEF onBytesReceived, Follows
  <2>2. m \in Nat \ {0} /\ inOrder[m].packetNumber = m /\ inOrder[m].scan = h.scan /\ k = m + 1
    <3>1. m \in Nat \ {0}
      BY <1>1, <2>1, EmptySeq
    <3>2. m \in 1..m /\ inOrder[m] = Last(inOrder)
      BY <3>1 DEF Last
    <3>3. inOrder[m].packetNumber = m
      BY <3>2 DEF OrderInv
    <3> QED
      BY <2>1, <3>1, <3>2, <3>3
  <2>3. scanFactory.packets = inOrder /\ scanFactory.points = PointsUpTo[m]
    BY <1>2, <2>2, UdpAssumption DEF OrderInv, Packets
  <2>4. n = m /\ \A i \in 1..m : f.packets[i] = inOrder[i]
    BY <1>3, <1>5, <2>1, <2>2, <2>3 DEF IsEmpty, LastHeader
  <2>5. f.points = PointsUpTo[k]
    BY <1>2, <1>3, <2>2, <2>3, <2>4
  <2>6. /\ inOrder' \in Seq(Headers) /\ Len(inOrder') = m + 1 /\ inOrder'[m + 1] = h
        /\ \A i \in 1..m : inOrder'[i] = inOrder[i]
    BY <1>1, <2>1, AppendProperties
  <2>7. f.packets = inOrder'
    <3>1. Len(f.packets) = Len(inOrder')
      BY <1>3, <2>4, <2>6
    <3>2. \A i \in 1..Len(f.packets) : f.packets[i] = inOrder'[i]
      BY <1>3, <2>2, <2>4, <2>6
    <3> QED
      BY <1>3, <2>6, <3>1, <3>2, SeqEqual
  <2>8. \A i \in 1..k : inOrder'[i].packetNumber = i
    BY <2>2, <2>6 DEF OrderInv
  <2> QED
    BY <2>2, <2>5, <2>6, <2>7, <2>8 DEF f
<1> QED
  BY <1>4, <1>5

LEMMA OrderInvHolds == Spec => []OrderInv
<1>1. Init => OrderInv
  BY PointsFacts DEF Init, OrderInv
<1>2. Base /\ OrderInv /\ [Next]_vars => OrderInv'
  <2> SUFFICES ASSUME Base, OrderInv, [Next]_vars PROVE OrderInv'
    OBVIOUS
  <2>1. ASSUME NEW h \in Headers, onBytesReceived(h)
        PROVE  OrderInv'
    <3> DEFINE k == h.packetNumber
               f == Extended(h)
    <3>1. CASE inOrder' = <<>>
      BY <3>1, PointsFacts DEF OrderInv
    <3>2. CASE inOrder' # <<>>
      <4>1. /\ Len(inOrder') = k /\ \A i \in 1..k : inOrder'[i].packetNumber = i
            /\ f.packets = inOrder' /\ f.points = PointsUpTo[k]
        BY <2>1, <3>2, OrderGrows
      <4>2. k \in Packets /\ k \in 1..PacketsPerScan /\ PacketsPerScan \in Nat
        BY HeaderFacts, UdpAssumption DEF Packets
      <4>3. CASE k # PacketsPerScan
        <5>1. PointsUpTo[k] < PointsOfScan
          BY <4>2, <4>3, PointsFacts
        <5>2. scanFactory' = f
          BY <2>1, <4>1, <4>2, <5>1, PointsFacts, ReceptionFacts
        <5> QED
          BY <4>1, <4>2, <4>3, <5>2 DEF OrderInv
      <4>4. CASE k = PacketsPerScan
        <5>1. PointsUpTo[k] = PointsOfScan
          BY <4>4 DEF PointsOfScan
        <5>2. /\ f.packets \in Seq(Headers)
              /\ outputs' = Append(outputs, Assembled(f)) /\ Assembled(f) \in Seq(Headers)
          BY <2>1, <4>1, <4>2, <5>1, PointsFacts, ReceptionFacts
        <5>3. Assembled(f) = inOrder'
          BY <4>1, <5>2, SortedStays, LenProperties
        <5>4. outputs \in Seq(Seq(Headers))
          BY DEF Base, TypeOK
        <5>5. outputs' # <<>> /\ Last(outputs') = inOrder'
          BY <5>2, <5>3, <5>4, AppendProperties DEF Last
        <5> QED
          BY <4>1, <4>2, <4>4, <5>5 DEF OrderInv
      <4> QED
        BY <4>3, <4>4
    <3> QED
      BY <3>1, <3>2
  <2>2. CASE UNCHANGED <<scanFactory, outputs, inOrder>>
    BY <2>2 DEF OrderInv
  <2>3. Send \/ (\E h \in Headers : Lose(h) \/ Duplicate(h)) \/ UNCHANGED vars
          => UNCHANGED <<scanFactory, outputs, inOrder>>
    BY DEF Send, Lose, Duplicate, vars
  <2> QED
    BY <2>1, <2>2, <2>3 DEF Next
<1> QED
  BY <1>1, <1>2, BaseHolds, PTL DEF Spec

\* A scan whose packets arrive one after the other in order is output as it is,
\* whatever was lost, copied or late before it.
THEOREM ScansInOrderAreOutput == Spec => []ScanInOrderIsOutput
<1>1. OrderInv => ScanInOrderIsOutput
  BY DEF OrderInv, ScanInOrderIsOutput
<1> QED
  BY <1>1, OrderInvHolds, PTL

-----------------------------------------------------------------------------
(* What an output is made of                                               *)

PointsOfPacket(n) == (PointsUpTo[n - 1] + 1)..PointsUpTo[n]

\* The points the packets of a sequence hold, each once.
Covered(q) == {p \in 1..PointsOfScan : \E j \in DOMAIN q : p \in PointsOfPacket(q[j].packetNumber)}

SameScan(q) == \A j, k \in DOMAIN q : q[j].scan = q[k].scan
Clean(q) == \A j \in DOMAIN q : q[j] \notin duplicated
NoRepeat(q) == \A j, k \in DOMAIN q : q[j] = q[k] => j = k

\* Packets less than a turn of the counter apart are of one scan; without a copy
\* they are each there once, and their points have been counted.
Gathered(q, points) ==
  \/ Turned(q)
  \/ /\ SameScan(q)
     /\ Clean(q) => NoRepeat(q) /\ points = Cardinality(Covered(q))

\* What the factory holds has been received, and comes again only as a copy.
FactoryInv ==
  LET q == scanFactory.packets
  IN  /\ Gathered(q, scanFactory.points)
      /\ \A j \in DOMAIN q : Sent(q[j]) /\ (q[j] \in duplicated \/ network[q[j]] = 0)

LEMMA PacketFacts ==
  ASSUME NEW n \in Packets
  PROVE  /\ PointsOfPacket(n) \subseteq 1..PointsOfScan /\ PointsUpTo[n] \in PointsOfPacket(n)
         /\ IsFiniteSet(PointsOfPacket(n))
         /\ Cardinality(PointsOfPacket(n)) = PointsUpTo[n] - PointsUpTo[n - 1]
         /\ \A m \in Packets : m # n => PointsOfPacket(m) \cap PointsOfPacket(n) = {}
<1>1. /\ n \in Nat /\ n - 1 \in 0..PacketsPerScan /\ n \in 0..PacketsPerScan
      /\ PointsUpTo[n - 1] \in Nat /\ PointsUpTo[n] \in Nat /\ PointsOfScan \in Nat
      /\ PointsUpTo[n - 1] < PointsUpTo[n] /\ PointsUpTo[n] <= PointsOfScan
  BY PointsFacts DEF Packets
<1>2. PointsOfPacket(n) \subseteq 1..PointsOfScan /\ PointsUpTo[n] \in PointsOfPacket(n)
  BY <1>1 DEF PointsOfPacket
<1>3. /\ IsFiniteSet(PointsOfPacket(n))
      /\ Cardinality(PointsOfPacket(n)) = PointsUpTo[n] - PointsUpTo[n - 1]
  <2> DEFINE a == PointsUpTo[n - 1] + 1
             b == PointsUpTo[n]
  <2>1. a \in Int /\ b \in Int /\ ~(a > b) /\ b - a + 1 = PointsUpTo[n] - PointsUpTo[n - 1]
    BY <1>1
  <2> HIDE DEF a, b
  <2>2. IsFiniteSet(a..b) /\ Cardinality(a..b) = b - a + 1
    BY <2>1, FS_Interval
  <2> QED
    BY <2>1, <2>2 DEF PointsOfPacket, a, b
<1>4. ASSUME NEW m \in Packets, m # n
      PROVE  PointsOfPacket(m) \cap PointsOfPacket(n) = {}
  <2>1. /\ m \in Nat /\ m - 1 \in 0..PacketsPerScan /\ m \in 0..PacketsPerScan
        /\ PointsUpTo[m - 1] \in Nat /\ PointsUpTo[m] \in Nat
    BY PointsFacts DEF Packets
  <2>2. PointsUpTo[m] <= PointsUpTo[n - 1] \/ PointsUpTo[n] <= PointsUpTo[m - 1]
    <3>1. m = n - 1 \/ m < n - 1 \/ n = m - 1 \/ n < m - 1
      BY <1>1, <1>4, <2>1
    <3> QED
      BY <1>1, <2>1, <3>1, PointsIncrease
  <2> QED
    BY <1>1, <2>1, <2>2 DEF PointsOfPacket
<1> QED
  BY <1>2, <1>3, <1>4

LEMMA CoveredFacts ==
  ASSUME NEW q \in Seq(Headers)
  PROVE  /\ Covered(q) \subseteq 1..PointsOfScan /\ IsFiniteSet(Covered(q))
         /\ Cardinality(1..PointsOfScan) = PointsOfScan /\ IsFiniteSet(1..PointsOfScan)
<1>1. Cardinality(1..PointsOfScan) = PointsOfScan /\ IsFiniteSet(1..PointsOfScan)
  <2>1. 1 \in Int /\ PointsOfScan \in Int /\ ~(1 > PointsOfScan)
        /\ PointsOfScan - 1 + 1 = PointsOfScan
    BY PointsFacts
  <2>2. /\ IsFiniteSet(1..PointsOfScan)
        /\ Cardinality(1..PointsOfScan) = PointsOfScan - 1 + 1
    BY <2>1, FS_Interval
  <2> QED
    BY <2>1, <2>2
<1>2. Covered(q) \in SUBSET (1..PointsOfScan)
  BY DEF Covered
<1> QED
  BY <1>1, <1>2, FS_Subset

\* Packets without a copy whose points are as many as a scan has are a scan.
LEMMA EnoughIsAll ==
  ASSUME NEW q \in Seq(Headers), q # <<>>, SameScan(q),
         Cardinality(Covered(q)) >= PointsOfScan
  PROVE  \A n \in Packets : \E j \in DOMAIN q : q[j] = Header(q[1].scan, n)
<1>1. Covered(q) = 1..PointsOfScan
  <2>1. Covered(q) \in SUBSET (1..PointsOfScan)
    BY CoveredFacts
  <2>2. Cardinality(Covered(q)) <= Cardinality(1..PointsOfScan)
    BY <2>1, CoveredFacts, FS_Subset
  <2>3. Cardinality(Covered(q)) \in Nat /\ PointsOfScan \in Nat
    BY CoveredFacts, FS_CardinalityType, PointsFacts
  <2>4. Cardinality(Covered(q)) = Cardinality(1..PointsOfScan)
    BY <2>2, <2>3, CoveredFacts
  <2> QED
    BY <2>1, <2>4, CoveredFacts, FS_Subset
<1>2. 1 \in DOMAIN q /\ \A j \in DOMAIN q : q[j] \in Headers
  <2>1. Len(q) \in Nat \ {0} /\ DOMAIN q = 1..Len(q)
    BY EmptySeq, LenProperties
  <2> QED
    BY <2>1, ElementOfSeq
<1> TAKE n \in Packets
<1>3. PointsUpTo[n] \in Covered(q)
  <2>1. PointsUpTo[n] \in 1..PointsOfScan
    BY PacketFacts
  <2> QED
    BY <1>1, <2>1
<1>4. PICK j \in DOMAIN q : PointsUpTo[n] \in PointsOfPacket(q[j].packetNumber)
  BY <1>3 DEF Covered
<1>5. q[j].packetNumber \in Packets /\ q[j] = Header(q[j].scan, q[j].packetNumber)
  BY <1>2, HeaderFacts
<1>6. q[j].packetNumber = n
  BY <1>4, <1>5, PacketFacts
<1>7. q[j].scan = q[1].scan
  BY <1>2 DEF SameScan
<1> QED
  BY <1>5, <1>6, <1>7

\* So is the sorted sequence, in which each of them is once.
LEMMA WholeWhenEnough ==
  ASSUME NEW f, f.packets \in Seq(Headers), f.packets # <<>>, SameScan(f.packets),
         NoRepeat(f.packets), Cardinality(Covered(f.packets)) >= PointsOfScan
  PROVE  Whole(Assembled(f))
<1> DEFINE q == f.packets
           r == Assembled(f)
<1>1. /\ DOMAIN r = DOMAIN q /\ r \in Seq(Headers)
      /\ \A i \in DOMAIN r : \E k \in DOMAIN q : Place(q, k) = i /\ r[i] = q[k]
      /\ \A k \in DOMAIN q : \E i \in DOMAIN r : Place(q, k) = i /\ r[i] = q[k]
  BY AssembledFacts
<1>2. 1 \in DOMAIN q
  <2>1. Len(q) \in Nat \ {0} /\ DOMAIN q = 1..Len(q)
    BY EmptySeq, LenProperties
  <2> QED
    BY <2>1
<1> HIDE DEF q, r
<1>3. r[1].scan = q[1].scan
  <2>1. PICK k \in DOMAIN q : r[1] = q[k]
    BY <1>1, <1>2
  <2>2. \A i, j \in DOMAIN q : q[i].scan = q[j].scan
    BY DEF SameScan, q
  <2> QED
    BY <1>2, <2>1, <2>2
<1>4. NoRepeat(r)
  BY <1>1 DEF NoRepeat, q
<1>5. ASSUME NEW n \in Packets
      PROVE  Copies(Header(r[1].scan, n), r) = 1
  <2>1. PICK i \in DOMAIN r : r[i] = Header(r[1].scan, n)
    <3>1. PICK k \in DOMAIN q : q[k] = Header(q[1].scan, n)
      BY EnoughIsAll DEF q
    <3> QED
      BY <1>1, <1>3, <3>1
  <2>2. {k \in DOMAIN r : r[k] = Header(r[1].scan, n)} = {i}
    BY <1>4, <2>1 DEF NoRepeat
  <2> QED
    BY <2>2, FS_Singleton DEF Copies
<1> QED
  BY <1>5 DEF Whole, r

\* A packet that is received joins those of its scan.
LEMMA GatheredKept ==
  ASSUME Base, FactoryInv, NEW h \in Headers, network[h] > 0
  PROVE  LET f == Extended(h)
         IN  /\ Gathered(f.packets, f.points)
             /\ \A j \in DOMAIN f.packets :
                  \/ f.packets[j] = h
                  \/ \E k \in DOMAIN scanFactory.packets : f.packets[j] = scanFactory.packets[k]
<1> DEFINE f == Extended(h)
           g == f.packets
           q == scanFactory.packets
           n == Len(g) - 1
<1>1. scanFactory \in Factories /\ Counted /\ q \in Seq(Headers) /\ scanFactory.points \in Nat
  BY PointsFacts DEF Base, TypeOK, Factories
<1>2. /\ g \in Seq(Headers) /\ n \in Nat /\ DOMAIN g = 1..(n + 1) /\ g[n + 1] = h
      /\ \/ n = 0 /\ f.points = h.points
         \/ /\ n = Len(q) /\ n > 0 /\ f.points = scanFactory.points + h.points
            /\ q[n] \in Headers /\ scanNumber(q[n]) = scanNumber(h)
            /\ \A i \in 1..n : g[i] = q[i]
  <2>1. /\ g \in Seq(Headers) /\ n \in Nat /\ DOMAIN g = 1..(n + 1) /\ g[n + 1] = h
        /\ \/ n = 0 /\ f.points = h.points
           \/ /\ n = Len(q) /\ n > 0 /\ f.points = scanFactory.points + h.points
              /\ scanNumber(q[n]) = scanNumber(h) /\ \A i \in 1..n : g[i] = q[i]
    BY <1>1, ExtendedFacts
  <2>2. n = Len(q) /\ n > 0 => q[n] \in Headers
    BY <1>1, <2>1, ElementOfSeq
  <2> HIDE DEF f, n
  <2> QED
    BY <2>1, <2>2
<1>3. h.packetNumber \in Packets /\ h.points = Cardinality(PointsOfPacket(h.packetNumber))
  BY HeaderFacts, PacketFacts
<1> DEFINE mine == PointsOfPacket(h.packetNumber)
<1> HIDE DEF f
<1>4. ASSUME n = 0, f.points = h.points
      PROVE  Gathered(g, f.points)
  <2>1. DOMAIN g = {1} /\ g[1] = h
    BY <1>2, <1>4
  <2>2. Covered(g) = mine
    BY <1>3, <2>1, PacketFacts DEF Covered
  <2> QED
    BY <1>3, <1>4, <2>1, <2>2 DEF Gathered, SameScan, NoRepeat
<1>5. ASSUME n = Len(q), n > 0, f.points = scanFactory.points + h.points,
             q[n].scan = h.scan, \A i \in 1..n : g[i] = q[i], ~Turned(q)
      PROVE  Gathered(g, f.points)
  <2>1. DOMAIN q = 1..n
    BY <1>1, <1>5, LenProperties
  <2>2. SameScan(q) /\ (Clean(q) => NoRepeat(q) /\ scanFactory.points = Cardinality(Covered(q)))
    BY <1>5 DEF FactoryInv, Gathered
  <2>3. \A j \in 1..n : q[j].scan = h.scan
    <3>1. q[n].scan = h.scan /\ n \in DOMAIN q
      BY <1>2, <1>5, <2>1
    <3> QED
      BY <2>1, <2>2, <3>1 DEF SameScan
  <2>4. \A j \in 1..(n + 1) : j = n + 1 \/ j \in 1..n
    BY <1>2
  <2>5. SameScan(g)
    BY <1>2, <1>5, <2>3, <2>4 DEF SameScan
  <2>6. ASSUME Clean(g)
        PROVE  NoRepeat(g) /\ f.points = Cardinality(Covered(g))
    <3>1. Clean(q) /\ h \notin duplicated
      BY <1>2, <1>5, <2>1, <2>6 DEF Clean
    <3>2. \A j \in 1..n : network[q[j]] = 0 /\ q[j] # h
      BY <2>1, <3>1 DEF FactoryInv, Clean
    <3>3. NoRepeat(g)
      BY <1>2, <1>5, <2>1, <2>2, <2>4, <3>1, <3>2 DEF NoRepeat
    <3>4. \A j \in 1..n : q[j].packetNumber \in Packets /\ q[j].packetNumber # h.packetNumber
      <4> TAKE j \in 1..n
      <4>1. q[j] \in Headers
        BY <1>1, <1>5, ElementOfSeq
      <4> QED
        BY <2>3, <3>2, <4>1, HeaderFacts
    <3>5. Covered(g) = Covered(q) \cup mine
      <4>1. \A p : (\E j \in 1..(n + 1) : p \in PointsOfPacket(g[j].packetNumber))
                     <=> (\E j \in 1..n : p \in PointsOfPacket(q[j].packetNumber)) \/ p \in mine
        <5>1. n + 1 \in 1..(n + 1) /\ \A j \in 1..n : j \in 1..(n + 1)
          BY <1>2
        <5>2. g[n + 1] = h /\ \A j \in 1..n : g[j] = q[j]
          BY <1>2, <1>5
        <5> QED
          BY ONLY <2>4, <5>1, <5>2
      <4>2. mine \subseteq 1..PointsOfScan
        BY <1>3, PacketFacts
      <4> QED
        BY <1>2, <2>1, <4>1, <4>2 DEF Covered
    <3>6. Covered(q) \cap mine = {}
      BY <1>3, <2>1, <3>4, PacketFacts DEF Covered
    <3>7. /\ IsFiniteSet(Covered(q)) /\ IsFiniteSet(mine)
          /\ Cardinality(Covered(q)) \in Nat /\ Cardinality(mine) \in Nat
      BY <1>1, <1>3, CoveredFacts, PacketFacts, FS_CardinalityType
    <3>8. Cardinality(Covered(q) \cup mine) = Cardinality(Covered(q)) + Cardinality(mine)
      <4>1. Cardinality(Covered(q) \cup mine)
              = Cardinality(Covered(q)) + Cardinality(mine) - Cardinality(Covered(q) \cap mine)
        BY <3>7, FS_Union
      <4>2. Cardinality(Covered(q) \cap mine) = 0
        BY <3>6, FS_EmptySet
      <4> QED
        BY <3>7, <4>1, <4>2
    <3> QED
      BY <1>3, <1>5, <2>2, <3>1, <3>3, <3>5, <3>8
  <2> QED
    BY <2>5, <2>6 DEF Gathered
<1>6. ASSUME n = Len(q), n > 0, \A i \in 1..n : g[i] = q[i], q[n] \in Headers,
             scanNumber(q[n]) = scanNumber(h), Turned(q) \/ q[n].scan # h.scan
      PROVE  Turned(g)
  <2>1. DOMAIN q = 1..n /\ n \in 1..n /\ DOMAIN g = 1..(n + 1)
    BY <1>1, <1>2, <1>6, LenProperties
  <2>2. CASE Turned(q)
    <3>1. DOMAIN q \subseteq DOMAIN g /\ \A k \in DOMAIN q : g[k] = q[k]
      BY <1>2, <1>6, <2>1
    <3> QED
      BY <2>2, <3>1 DEF Turned
  <2>3. CASE q[n].scan # h.scan
    <3>1. q[n].scan < h.scan \/ h.scan < q[n].scan
      BY <1>6, <2>3, HeaderFacts
    <3>2. \/ q[n].scan + 2 ^ ScanNumberBits <= h.scan
          \/ h.scan + 2 ^ ScanNumberBits <= q[n].scan
      BY <1>6, <3>1, SameNumber
    <3>3. n \in DOMAIN g /\ n + 1 \in DOMAIN g /\ g[n] = q[n] /\ g[n + 1] = h
      BY <1>2, <1>6, <2>1
    <3> QED
      BY <3>2, <3>3 DEF Turned
  <2> QED
    BY <1>6, <2>2, <2>3
<1>7. \A j \in DOMAIN g : g[j] = h \/ \E k \in DOMAIN q : g[j] = q[k]
  <2>1. \A j \in 1..(n + 1) : j = n + 1 \/ j \in 1..n
    BY <1>2
  <2>2. n = Len(q) => DOMAIN q = 1..n
    BY <1>1, LenProperties
  <2>3. \A j \in 1..n : n # 0
    BY <1>2
  <2> QED
    BY <1>2, <2>1, <2>2, <2>3
<1>8. Gathered(g, f.points)
  <2>1. CASE n = 0 /\ f.points = h.points
    BY <1>4, <2>1
  <2>2. CASE /\ n = Len(q) /\ n > 0 /\ f.points = scanFactory.points + h.points
             /\ q[n] \in Headers /\ scanNumber(q[n]) = scanNumber(h)
             /\ \A i \in 1..n : g[i] = q[i]
    <3>1. CASE Turned(q) \/ q[n].scan # h.scan
      BY <1>6, <2>2, <3>1 DEF Gathered
    <3>2. CASE ~Turned(q) /\ q[n].scan = h.scan
      BY <1>5, <2>2, <3>2
    <3> QED
      BY <3>1, <3>2
  <2> QED
    BY <1>2, <2>1, <2>2
<1> QED
  BY <1>7, <1>8 DEF f

LEMMA FactoryInvHolds == Spec => []FactoryInv
<1>1. Init => FactoryInv
  <2> SUFFICES ASSUME Init PROVE FactoryInv
    OBVIOUS
  <2>1. scanFactory.packets = <<>> /\ scanFactory.points = 0 /\ DOMAIN scanFactory.packets = {}
    BY DEF Init, EmptyFactory
  <2>2. Covered(scanFactory.packets) = {}
    BY <2>1 DEF Covered
  <2> QED
    BY <2>1, <2>2, FS_EmptySet DEF FactoryInv, Gathered, SameScan, NoRepeat
<1>2. Base /\ FactoryInv /\ [Next]_vars => FactoryInv'
  <2> SUFFICES ASSUME Base, FactoryInv, [Next]_vars PROVE FactoryInv'
    OBVIOUS
  <2> DEFINE q == scanFactory.packets
  <2>1. /\ network \in [Headers -> 0..2]
        /\ \A j \in DOMAIN q : /\ q[j] \in Headers
                               /\ Sent(q[j]) /\ (q[j] \in duplicated \/ network[q[j]] = 0)
    <3>1. q \in Seq(Headers)
      BY DEF Base, TypeOK
    <3>2. \A j \in DOMAIN q : q[j] \in Headers
      BY <3>1, LenProperties, ElementOfSeq
    <3> QED
      BY <3>2 DEF Base, TypeOK, FactoryInv
  \* The factory is left alone: what it holds has not become free of copies.
  <2>2. ASSUME scanFactory' = scanFactory, duplicated \subseteq duplicated',
               \A j \in DOMAIN q : /\ Sent(q[j])'
                                   /\ q[j] \in duplicated' \/ network'[q[j]] = 0
        PROVE  FactoryInv'
    <3>1. Clean(q)' => Clean(q)
      BY <2>2 DEF Clean
    <3> QED
      BY <2>2, <3>1 DEF FactoryInv, Gathered, SameScan, NoRepeat, Covered, Turned
  <2>3. CASE Send
    <3>1. PICK h \in Headers :
            /\ network' = [network EXCEPT ![h] = @ + 1]
            /\ ~Sent(h) /\ Sent(h)'
            /\ \A g \in Headers : g # h => (Sent(g)' <=> Sent(g))
      BY <2>3, SendFacts
    <3>2. \A g \in Headers : Sent(g) => Sent(g)' /\ network'[g] = network[g]
      BY <2>1, <3>1
    <3>3. scanFactory' = scanFactory
      BY <2>3 DEF Send
    <3>4. \A j \in DOMAIN q : Sent(q[j])' /\ network'[q[j]] = network[q[j]]
      BY <2>1, <3>2, <3>3
    <3> QED
      BY <2>1, <2>2, <2>3, <3>3, <3>4 DEF Send
  <2>4. ASSUME NEW h \in Headers, Lose(h) \/ Duplicate(h)
        PROVE  FactoryInv'
    <3>1. /\ scanFactory' = scanFactory /\ next' = next /\ duplicated \subseteq duplicated'
          /\ \/ network' = [network EXCEPT ![h] = @ - 1]
             \/ network' = [network EXCEPT ![h] = @ + 1] /\ h \in duplicated'
          /\ network[h] > 0
      BY <2>4 DEF Lose, Duplicate
    <3>2. \A j \in DOMAIN q : q[j] \in duplicated' \/ network'[q[j]] = 0
      BY <2>1, <3>1
    <3> QED
      BY <2>1, <2>2, <3>1, <3>2 DEF Sent
  <2>5. ASSUME NEW h \in Headers, onBytesReceived(h)
        PROVE  FactoryInv'
    <3> DEFINE f == Extended(h)
               g == f.packets
    <3>1. /\ network[h] > 0 /\ network' = [network EXCEPT ![h] = @ - 1]
          /\ next' = next /\ duplicated' = duplicated
      BY <2>5 DEF onBytesReceived
    <3>2. scanFactory' = EmptyFactory \/ scanFactory' = f
      BY <2>5, ReceptionFacts
    <3>3. CASE scanFactory' = EmptyFactory
      <4>1. /\ scanFactory'.packets = <<>> /\ scanFactory'.points = 0
            /\ DOMAIN scanFactory'.packets = {}
        BY <3>3 DEF EmptyFactory
      <4>2. Covered(scanFactory'.packets) = {}
        BY <4>1 DEF Covered
      <4> QED
        BY <4>1, <4>2, FS_EmptySet DEF FactoryInv, Gathered, SameScan, NoRepeat, Covered, Turned
    <3>4. CASE scanFactory' = f
      <4>1. Gathered(g, f.points)
        BY <3>1, GatheredKept
      <4>2. /\ Sent(h) /\ (h \in duplicated \/ network'[h] = 0)
            /\ \A k \in Headers : network[k] = 0 => network'[k] = 0
        <5>1. network[h] \in 1..2 /\ (h \in duplicated \/ network[h] = 1) /\ Sent(h)
          BY <2>1, <3>1 DEF Base, NetworkInv
        <5> QED
          BY <2>1, <3>1, <5>1
      <4>3. \A j \in DOMAIN g : Sent(g[j]) /\ (g[j] \in duplicated \/ network'[g[j]] = 0)
        <5> TAKE j \in DOMAIN g
        <5>1. g[j] = h \/ \E k \in DOMAIN q : g[j] = q[k]
          BY <3>1, GatheredKept
        <5> QED
          BY <2>1, <4>2, <5>1
      <4> HIDE DEF f
      <4>4. Gathered(scanFactory.packets, scanFactory.points)'
        BY <3>1, <3>4, <4>1 DEF Gathered, SameScan, Clean, NoRepeat, Covered, Turned
      <4>5. (\A j \in DOMAIN scanFactory.packets :
               /\ Sent(scanFactory.packets[j])
               /\ \/ scanFactory.packets[j] \in duplicated
                  \/ network[scanFactory.packets[j]] = 0)'
        BY <3>1, <3>4, <4>3 DEF Sent
      <4> QED
        BY <4>4, <4>5 DEF FactoryInv
    <3> QED
      BY <3>2, <3>3, <3>4
  <2>6. CASE UNCHANGED vars
    BY <2>1, <2>2, <2>6 DEF vars, Sent
  <2> QED
    BY <2>3, <2>4, <2>5, <2>6 DEF Next
<1> QED
  BY <1>1, <1>2, BaseHolds, PTL DEF Spec

\* Whatever the network loses, copies and reorders, an output is made of packets
\* of one scan by increasing number, and is the whole scan unless one of them
\* has been copied or packets a turn of the scan counter apart have met.
THEOREM OutputsAreOneScan == Spec => []OutputIsOneScan
<1>1. Init => OutputIsOneScan
  BY DEF Init, OutputIsOneScan
<1>2. Base /\ FactoryInv /\ OutputIsOneScan /\ [Next]_vars => OutputIsOneScan'
  <2> SUFFICES ASSUME Base, FactoryInv, OutputIsOneScan, [Next]_vars PROVE OutputIsOneScan'
    OBVIOUS
  <2>1. CASE outputs' = outputs /\ duplicated \subseteq duplicated'
    BY <2>1 DEF OutputIsOneScan, Whole, Copies, Turned
  <2>2. ASSUME NEW h \in Headers, onBytesReceived(h)
        PROVE  OutputIsOneScan'
    <3> DEFINE f == Extended(h)
               q == f.packets
               r == Assembled(f)
    <3>1. network[h] > 0 /\ duplicated' = duplicated
      BY <2>2 DEF onBytesReceived
    <3>2. CASE outputs' = outputs
      BY <2>1, <3>1, <3>2
    <3>3. CASE f.points >= PointsOfScan /\ outputs' = Append(outputs, r)
      <4>1. /\ q \in Seq(Headers) /\ q # <<>> /\ r \in Seq(Headers)
            /\ outputs \in Seq(Seq(Headers))
        <5>1. /\ q \in Seq(Headers) /\ Len(q) - 1 \in Nat
          BY <2>2, ReceptionFacts, ExtendedFacts DEF Base
        <5>2. q # <<>>
          BY <5>1, EmptySeq
        <5> QED
          BY <5>1, <5>2, AssembledFacts DEF Base, TypeOK
      <4>2. Gathered(q, f.points)
        BY <3>1, GatheredKept
      <4>3. /\ DOMAIN r = DOMAIN q
            /\ \A i \in DOMAIN r : \E k \in DOMAIN q : r[i] = q[k]
            /\ \A k \in DOMAIN q : \E i \in DOMAIN r : r[i] = q[k]
            /\ \A i, k \in DOMAIN r : i < k => r[i].packetNumber <= r[k].packetNumber
        BY <4>1, AssembledFacts
      <4>4. Turned(q) \/ Whole(r) \/ \E j \in DOMAIN r : r[j] \in duplicated
        <5>1. CASE Clean(q) /\ ~Turned(q)
          <6>1. NoRepeat(q) /\ SameScan(q) /\ Cardinality(Covered(q)) >= PointsOfScan
            BY <3>3, <4>2, <5>1 DEF Gathered
          <6> QED
            BY <4>1, <6>1, WholeWhenEnough
        <5>2. CASE ~Clean(q)
          BY <4>3, <5>2 DEF Clean
        <5> QED
          BY <5>1, <5>2
      <4>5. ASSUME ~Turned(q) PROVE \A j, k \in DOMAIN r : r[j].scan = r[k].scan
        <5>1. \A j, k \in DOMAIN q : q[j].scan = q[k].scan
          BY <4>2, <4>5 DEF Gathered, SameScan
        <5> TAKE j \in DOMAIN r, k \in DOMAIN r
        <5>2. PICK a \in DOMAIN q : r[j] = q[a]
          BY <4>3
        <5>3. PICK b \in DOMAIN q : r[k] = q[b]
          BY <4>3
        <5>4. q[a].scan = q[b].scan
          BY <5>1
        <5> QED
          BY <5>2, <5>3, <5>4
      <4>t. Turned(q) => Turned(r)
        BY <4>3 DEF Turned
      <4> HIDE DEF r
      <4>6. /\ DOMAIN outputs = 1..Len(outputs) /\ DOMAIN outputs' = 1..(Len(outputs) + 1)
            /\ outputs'[Len(outputs) + 1] = r /\ Len(outputs) \in Nat
            /\ \A i \in 1..Len(outputs) : outputs'[i] = outputs[i]
        BY <3>3, <4>1, AppendProperties, LenProperties
      <4> DEFINE Fine(s) == /\ \A j, k \in DOMAIN s :
                                 j < k => s[j].packetNumber <= s[k].packetNumber
                            /\ \/ Turned(s)
                               \/ /\ \A j, k \in DOMAIN s : s[j].scan = s[k].scan
                                  /\ Whole(s) \/ \E j \in DOMAIN s : s[j] \in duplicated
      <4>7. Fine(r) /\ \A i \in DOMAIN outputs : Fine(outputs[i])
        BY <4>3, <4>4, <4>5, <4>t DEF OutputIsOneScan
      <4> HIDE DEF Fine
      <4>8. \A i \in DOMAIN outputs' : Fine(outputs'[i])
        BY <4>6, <4>7
      <4> QED
        BY <3>1, <4>8 DEF Fine, OutputIsOneScan, Whole, Copies, Turned
    <3> QED
      BY <2>2, <3>2, <3>3, ReceptionFacts
  <2>3. Send \/ (\E h \in Headers : Lose(h) \/ Duplicate(h)) \/ UNCHANGED vars
          => outputs' = outputs /\ duplicated \subseteq duplicated'
    BY DEF Send, Lose, Duplicate, vars
  <2> QED
    BY <2>1, <2>2, <2>3 DEF Next
<1> QED
  BY <1>1, <1>2, BaseHolds, FactoryInvHolds, PTL DEF Spec
=============================================================================
