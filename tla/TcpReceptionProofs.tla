------------------------- MODULE TcpReceptionProofs -------------------------
(***************************************************************************)
(* What a TCP link extracts and outputs, for every number of scans and of  *)
(* packets, every size of the payloads and every size of the reads.        *)
(***************************************************************************)
EXTENDS TcpReception, SequenceTheorems, WellFoundedInduction, TLAPS

-----------------------------------------------------------------------------
(* Positions in the stream                                                 *)

Placed == pointsUpTo \in Layouts

LEMMA LayoutFacts ==
  ASSUME Placed
  PROVE  /\ PacketCount \in Nat /\ PacketsPerScan \in Nat \ {0} /\ Scans \in Nat \ {0}
         /\ HeaderUnits \in Nat \ {0} /\ SearchUnits \in Nat /\ SearchUnits > HeaderUnits
         /\ pointsUpTo \in [0..PacketCount -> Nat] /\ pointsUpTo[0] = 0
         /\ \A i \in Packets : /\ i \in 0..PacketCount /\ i - 1 \in 0..PacketCount
                               /\ pointsUpTo[i - 1] < pointsUpTo[i]
                               /\ HeaderUnits + (pointsUpTo[i] - pointsUpTo[i - 1]) >= SearchUnits
<1>1. PacketCount \in Nat
  BY TcpAssumption DEF PacketCount
<1>2. /\ pointsUpTo \in [0..PacketCount -> Nat] /\ pointsUpTo[0] = 0
      /\ \A i \in Packets : HeaderUnits + (pointsUpTo[i] - pointsUpTo[i - 1]) >= SearchUnits
  BY TcpAssumption DEF Placed
<1>3. \A i \in Packets : i \in 0..PacketCount /\ i - 1 \in 0..PacketCount
  BY <1>1 DEF Packets
<1>4. \A i \in Packets : pointsUpTo[i - 1] < pointsUpTo[i]
  BY <1>2, <1>3, TcpAssumption
<1> QED
  BY <1>1, <1>2, <1>3, <1>4, TcpAssumption

\* The first packet that is not after an earlier one would have a predecessor
\* that is.
LEMMA PointsIncrease ==
  ASSUME Placed
  PROVE  \A m, n \in 0..PacketCount : m < n => pointsUpTo[m] < pointsUpTo[n]
<1> SUFFICES ASSUME NEW m \in 0..PacketCount
             PROVE  \A n \in 0..PacketCount : m < n => pointsUpTo[m] < pointsUpTo[n]
  OBVIOUS
<1> DEFINE Bad == {n \in 0..PacketCount : m < n /\ ~(pointsUpTo[m] < pointsUpTo[n])}
<1>1. SUFFICES ASSUME Bad # {} PROVE FALSE
  OBVIOUS
<1>2. Bad \subseteq Nat
  BY LayoutFacts
<1>3. PICK n \in Bad : \A k \in Bad : ~(<<k, n>> \in OpToRel(<, Nat))
  BY <1>1, <1>2, NatLessThanWellFounded, WFMin, Zenon
<1>4. \A k \in Bad : ~(k < n)
  BY <1>2, <1>3 DEF OpToRel
<1>5. n \in Packets
  BY LayoutFacts DEF Packets
<1>6. n - 1 \in 0..PacketCount /\ pointsUpTo[n - 1] < pointsUpTo[n]
  BY <1>5, LayoutFacts
<1>7. n - 1 \notin Bad /\ m < n
  BY <1>4, <1>6
<1>8. m = n - 1 \/ pointsUpTo[m] < pointsUpTo[n - 1]
  BY <1>6, <1>7, LayoutFacts
<1> QED
  BY <1>6, <1>8, LayoutFacts

\* Packets follow one another, each longer than what is searched for a header.
LEMMA Positions ==
  ASSUME Placed
  PROVE  /\ \A i \in 0..PacketCount : End(i) \in Nat
         /\ \A i, j \in 0..PacketCount : i < j => End(i) < End(j)
         /\ \A i \in Packets : /\ Start(i) \in Nat /\ End(i) \in Nat
                               /\ Start(i) + SearchUnits <= End(i)
                               /\ End(i) <= StreamEnd
         /\ StreamEnd \in Nat
         /\ End(0) = 0
<1> USE LayoutFacts
<1>1. \A i \in 0..PacketCount : i * HeaderUnits \in Nat /\ pointsUpTo[i] \in Nat
  OBVIOUS
<1>2. \A i \in 0..PacketCount : End(i) \in Nat
  BY <1>1 DEF End
<1>3. \A i, j \in 0..PacketCount : i < j => End(i) < End(j)
  <2> TAKE i \in 0..PacketCount, j \in 0..PacketCount
  <2> HAVE i < j
  <2>1. pointsUpTo[i] < pointsUpTo[j]
    BY PointsIncrease
  <2>2. i * HeaderUnits <= j * HeaderUnits
    <3>1. j - i \in Nat /\ j = i + (j - i)
      OBVIOUS
    <3>2. \A d \in Nat : (i + d) * HeaderUnits = i * HeaderUnits + d * HeaderUnits
      OBVIOUS
    <3>3. (j - i) * HeaderUnits \in Nat
      BY <3>1
    <3>4. j * HeaderUnits = i * HeaderUnits + (j - i) * HeaderUnits
      BY <3>1, <3>2
    <3>5. i * HeaderUnits \in Nat
      BY <1>1
    <3> QED
      BY ONLY <3>3, <3>4, <3>5
  <2>3. /\ End(i) = i * HeaderUnits + pointsUpTo[i] /\ End(j) = j * HeaderUnits + pointsUpTo[j]
        /\ i * HeaderUnits \in Nat /\ j * HeaderUnits \in Nat
        /\ pointsUpTo[i] \in Nat /\ pointsUpTo[j] \in Nat
    BY <1>1 DEF End
  <2> QED
    BY ONLY <2>1, <2>2, <2>3
<1>4. \A i \in Packets : Start(i) \in Nat /\ Start(i) + SearchUnits <= End(i)
  <2> TAKE i \in Packets
  <2>1. Start(i) \in Nat
    BY <1>2 DEF Start
  <2>2. i * HeaderUnits = (i - 1) * HeaderUnits + HeaderUnits
    BY DEF Packets
  <2>3. Start(i) = (i - 1) * HeaderUnits + pointsUpTo[i - 1]
    BY DEF Start, End
  <2>4. End(i) = i * HeaderUnits + pointsUpTo[i]
    BY DEF End
  <2>5. /\ (i - 1) * HeaderUnits \in Nat /\ i * HeaderUnits \in Nat
        /\ pointsUpTo[i - 1] \in Nat /\ pointsUpTo[i] \in Nat
    BY <1>1
  <2>6. HeaderUnits + (pointsUpTo[i] - pointsUpTo[i - 1]) >= SearchUnits
    OBVIOUS
  <2>7. HeaderUnits \in Nat /\ SearchUnits \in Nat
    OBVIOUS
  <2> QED
    BY ONLY <2>1, <2>2, <2>3, <2>4, <2>5, <2>6, <2>7
<1>5. \A i \in Packets : End(i) <= End(PacketCount)
  <2> TAKE i \in Packets
  <2>1. i < PacketCount \/ i = PacketCount
    BY DEF Packets
  <2>2. i \in 0..PacketCount /\ PacketCount \in 0..PacketCount
    OBVIOUS
  <2>3. End(i) \in Nat /\ (i < PacketCount => End(i) < End(PacketCount)) /\ End(PacketCount) \in Nat
    BY <1>2, <1>3, <2>2
  <2>4. CASE i = PacketCount
    BY ONLY <2>3, <2>4
  <2>5. CASE i < PacketCount
    BY ONLY <2>3, <2>5
  <2> QED
    BY <2>1, <2>4, <2>5
<1>6. End(0) = 0
  BY DEF End
<1> QED
  BY <1>2, <1>3, <1>4, <1>5, <1>6 DEF StreamEnd

\* Positions order packets as their indices do.
LEMMA Order ==
  ASSUME Placed, NEW i \in Packets, NEW j \in Packets
  PROVE  /\ i < j => End(i) <= Start(j) /\ Start(i) < Start(j) /\ End(i) < End(j)
         /\ Start(i) < Start(j) => i < j
         /\ Start(i) < End(j) => i <= j
         /\ End(i) < End(j) => i < j
<1>1. i \in Nat /\ j \in Nat
  BY DEF Packets
<1>2. /\ i - 1 \in 0..PacketCount /\ j - 1 \in 0..PacketCount
      /\ i \in 0..PacketCount /\ j \in 0..PacketCount
  BY LayoutFacts
<1>3. /\ i - 1 < j - 1 => Start(i) < Start(j)
      /\ j - 1 < i - 1 => Start(j) < Start(i)
      /\ i < j => End(i) < End(j)
      /\ j < i => End(j) < End(i)
      /\ i < j - 1 => End(i) < Start(j)
      /\ i = j - 1 => End(i) = Start(j)
      /\ j < i - 1 => End(j) < Start(i)
      /\ j = i - 1 => End(j) = Start(i)
  BY <1>2, Positions DEF Start
<1>4. Start(i) \in Nat /\ Start(j) \in Nat /\ End(i) \in Nat /\ End(j) \in Nat
  BY Positions
<1>5. i = j => Start(i) = Start(j) /\ End(i) = End(j)
  OBVIOUS
<1>6. CASE i < j
  <2>1. i - 1 < j - 1 /\ (i < j - 1 \/ i = j - 1)
    BY <1>1, <1>6
  <2>2. Start(i) < Start(j) /\ End(i) < End(j) /\ End(i) <= Start(j)
    BY <1>3, <1>4, <1>6, <2>1
  <2> QED
    BY <1>1, <1>4, <1>6, <2>2
<1>7. CASE j < i
  <2>1. j - 1 < i - 1 /\ (j < i - 1 \/ j = i - 1)
    BY <1>1, <1>7
  <2>2. Start(j) < Start(i) /\ End(j) < End(i) /\ End(j) <= Start(i)
    BY <1>3, <1>4, <1>7, <2>1
  <2> QED
    BY <1>1, <1>4, <1>7, <2>2
<1>8. CASE i = j
  BY <1>1, <1>4, <1>8
<1> QED
  BY <1>1, <1>6, <1>7, <1>8

-----------------------------------------------------------------------------
(* Scans                                                                   *)

ScanNumbers == 0..(Scans - 1)
FirstOf(s) == s * PacketsPerScan + 1
LastOf(s) == (s + 1) * PacketsPerScan

LEMMA Division ==
  ASSUME NEW p \in Nat \ {0}, NEW a \in Nat
  PROVE  /\ a \div p \in Nat /\ a % p \in 0..(p - 1)
         /\ a = (a \div p) * p + (a % p)
<1>1. a \div p \in Nat
  OBVIOUS
<1>2. a % p \in 0..(p - 1)
  OBVIOUS
<1>3. a = (a \div p) * p + (a % p)
  OBVIOUS
<1> QED
  BY <1>1, <1>2, <1>3

LEMMA Quotient ==
  ASSUME NEW p \in Nat \ {0}, NEW a \in Nat, NEW q \in Nat, NEW r \in 0..(p - 1),
         a = q * p + r
  PROVE  a \div p = q /\ a % p = r
<1> DEFINE x == a \div p
           y == a % p
<1>1. x \in Nat /\ y \in 0..(p - 1) /\ a = x * p + y
  BY Division
<1> HIDE DEF x, y
<1>2. ASSUME NEW u \in Nat, NEW v \in Nat, u < v
      PROVE  u * p + p <= v * p
  <2>1. v - u - 1 \in Nat /\ v = u + 1 + (v - u - 1)
    BY <1>2
  <2>2. \A d \in Nat : (u + 1 + d) * p = u * p + p + d * p /\ d * p \in Nat
    OBVIOUS
  <2>3. (v - u - 1) * p \in Nat /\ v * p = u * p + p + (v - u - 1) * p
    BY <2>1, <2>2
  <2>4. u * p \in Nat /\ v * p \in Nat
    OBVIOUS
  <2> HIDE <2>1, <2>2
  <2> QED
    BY <2>3, <2>4
<1>3. q * p \in Nat /\ x * p \in Nat
  BY <1>1
<1>4. ~(x < q) /\ ~(q < x)
  BY <1>1, <1>2, <1>3
<1>5. x = q
  BY <1>1, <1>4
<1> QED
  BY <1>1, <1>3, <1>5 DEF x, y

\* The packets of a scan are those from its first to its last, and its first
\* comes after the last of an earlier scan.
LEMMA ScanFacts ==
  ASSUME Placed
  PROVE  /\ \A s \in ScanNumbers :
              /\ FirstOf(s) \in Packets /\ LastOf(s) \in Packets
              /\ LastOf(s) = FirstOf(s) + PacketsPerScan - 1
              /\ \A n \in 1..PacketsPerScan :
                   /\ FirstOf(s) + n - 1 \in Packets
                   /\ ScanOf(FirstOf(s) + n - 1) = s
                   /\ (FirstOf(s) + n - 2) % PacketsPerScan = n - 1
         /\ \A s, t \in ScanNumbers : s < t => LastOf(s) < FirstOf(t)
         /\ \A i \in Packets :
              /\ ScanOf(i) \in ScanNumbers
              /\ i \in FirstOf(ScanOf(i))..LastOf(ScanOf(i))
              /\ ((i - 1) % PacketsPerScan) = i - FirstOf(ScanOf(i))
<1> DEFINE p == PacketsPerScan
<1>0. p \in Nat \ {0} /\ Scans \in Nat \ {0} /\ PacketCount = Scans * p /\ PacketCount \in Nat
  BY LayoutFacts DEF PacketCount
<1> HIDE DEF p
<1>1. ASSUME NEW s \in Nat, NEW t \in Nat, s < t
      PROVE  /\ s * p \in Nat /\ t * p \in Nat
             /\ (s + 1) * p = s * p + p /\ (s + 1) * p <= t * p
  <2>1. t - s - 1 \in Nat /\ t = s + 1 + (t - s - 1)
    BY <1>1
  <2>2. \A d \in Nat : (s + 1 + d) * p = s * p + p + d * p /\ d * p \in Nat
    BY <1>0
  <2>3. (t - s - 1) * p \in Nat /\ t * p = s * p + p + (t - s - 1) * p
    BY <2>1, <2>2
  <2>4. s * p \in Nat /\ t * p \in Nat /\ (s + 1) * p = s * p + p
    BY <1>0
  <2> QED
    BY ONLY <1>0, <2>3, <2>4
<1>2. ASSUME NEW s \in ScanNumbers
      PROVE  /\ s \in Nat /\ s * p \in Nat /\ (s + 1) * p = s * p + p
             /\ s * p + p <= PacketCount
             /\ FirstOf(s) = s * p + 1 /\ LastOf(s) = s * p + p
  <2>1. s \in Nat /\ s < Scans
    BY <1>0 DEF ScanNumbers
  <2>2. s * p \in Nat /\ (s + 1) * p = s * p + p /\ (s + 1) * p <= Scans * p
    BY <1>0, <1>1, <2>1
  <2> QED
    BY <1>0, <2>1, <2>2 DEF FirstOf, LastOf, p
<1>3. ASSUME NEW s \in ScanNumbers
      PROVE  /\ FirstOf(s) \in Packets /\ LastOf(s) \in Packets
             /\ LastOf(s) = FirstOf(s) + p - 1
             /\ \A n \in 1..p : /\ FirstOf(s) + n - 1 \in Packets
                                /\ ScanOf(FirstOf(s) + n - 1) = s
                                /\ (FirstOf(s) + n - 2) % p = n - 1
  <2>1. FirstOf(s) \in Packets /\ LastOf(s) \in Packets /\ LastOf(s) = FirstOf(s) + p - 1
    BY <1>0, <1>2 DEF Packets
  <2>2. ASSUME NEW n \in 1..p
        PROVE  /\ FirstOf(s) + n - 1 \in Packets
               /\ ScanOf(FirstOf(s) + n - 1) = s
               /\ (FirstOf(s) + n - 2) % p = n - 1
    <3> DEFINE x == FirstOf(s) + n - 1
               y == s * p + (n - 1)
    <3>1. /\ x \in Nat /\ y \in Nat /\ x - 1 = y /\ x = s * p + n
          /\ FirstOf(s) + n - 2 = y
          /\ n - 1 \in 0..(p - 1) /\ x \in 1..PacketCount
      BY <1>0, <1>2
    <3>2. y \div p = s /\ y % p = n - 1
      BY <1>0, <1>2, <3>1, Quotient
    <3> HIDE DEF x, y
    <3>3. ScanOf(x) = (x - 1) \div p
      BY <3>1 DEF ScanOf, p
    <3>4. ScanOf(x) = s
      BY ONLY <3>1, <3>2, <3>3, Zenon
    <3>5. (FirstOf(s) + n - 2) % p = n - 1
      BY ONLY <3>1, <3>2, Zenon
    <3>6. x \in Packets
      BY <3>1 DEF Packets
    <3> QED
      BY <3>4, <3>5, <3>6 DEF x
  <2> QED
    BY <2>1, <2>2
<1>4. ASSUME NEW s \in ScanNumbers, NEW t \in ScanNumbers, s < t
      PROVE  LastOf(s) < FirstOf(t)
  BY <1>0, <1>1, <1>2, <1>4
<1>5. ASSUME NEW i \in Packets
      PROVE  /\ ScanOf(i) \in ScanNumbers
             /\ i \in FirstOf(ScanOf(i))..LastOf(ScanOf(i))
             /\ (i - 1) % p = i - FirstOf(ScanOf(i))
  <2> DEFINE s == ScanOf(i)
             r == (i - 1) % p
  <2>1. i \in Nat /\ i - 1 \in Nat /\ i - 1 < PacketCount
    BY <1>0 DEF Packets
  <2>2. s \in Nat /\ r \in 0..(p - 1) /\ i - 1 = s * p + r
    BY <1>0, <2>1, Division DEF ScanOf, p
  <2> HIDE DEF s, r
  <2>3. s < Scans
    <3>1. CASE Scans < s
      <4>1. (Scans + 1) * p <= s * p /\ (Scans + 1) * p = Scans * p + p /\ s * p \in Nat
        BY <1>0, <1>1, <2>2, <3>1
      <4> QED
        BY <1>0, <2>1, <2>2, <4>1
    <3>2. CASE Scans = s
      BY <1>0, <2>1, <2>2, <3>2
    <3> QED
      BY <1>0, <2>2, <3>1, <3>2
  <2>4. s \in ScanNumbers
    BY <1>0, <2>2, <2>3 DEF ScanNumbers
  <2>5. FirstOf(s) = s * p + 1 /\ LastOf(s) = s * p + p /\ s * p \in Nat
    BY <1>2, <2>4
  <2>6. i \in FirstOf(s)..LastOf(s) /\ r = i - FirstOf(s)
    BY <1>0, <2>1, <2>2, <2>5
  <2> QED
    BY <2>4, <2>6 DEF s, r
<1> QED
  BY <1>3, <1>4, <1>5 DEF p

\* A packet is of the scan between whose first and last packets it is.
LEMMA Within ==
  ASSUME Placed, NEW s \in ScanNumbers, NEW i \in Packets
  PROVE  /\ ScanOf(i) = s <=> i \in FirstOf(s)..LastOf(s)
         /\ ScanOf(i) = s => (i = FirstOf(s) <=> ((i - 1) % PacketsPerScan) + 1 = 1)
<1>1. FirstOf(s) \in Nat /\ LastOf(s) \in Nat /\ i \in Nat /\ PacketsPerScan \in Nat
  <2>1. FirstOf(s) \in Packets /\ LastOf(s) \in Packets
    BY ScanFacts
  <2> QED
    BY <2>1, LayoutFacts DEF Packets
<1>2. i \in FirstOf(s)..LastOf(s) => ScanOf(i) = s
  <2> HAVE i \in FirstOf(s)..LastOf(s)
  <2> DEFINE n == i - FirstOf(s) + 1
  <2>1. n \in 1..PacketsPerScan /\ FirstOf(s) + n - 1 = i
    BY <1>1, ScanFacts
  <2> QED
    BY <2>1, ScanFacts
<1>3. ScanOf(i) = s => i \in FirstOf(s)..LastOf(s) /\ ((i - 1) % PacketsPerScan) = i - FirstOf(s)
  BY ScanFacts
<1> QED
  BY <1>1, <1>2, <1>3

-----------------------------------------------------------------------------
(* Headers and sizes                                                       *)

LEMMA PointsOfScan ==
  ASSUME Placed, NEW s \in ScanNumbers
  PROVE  /\ PointsOf(s) = pointsUpTo[LastOf(s)] - pointsUpTo[FirstOf(s) - 1]
         /\ PointsOf(s) \in Nat
<1>1. FirstOf(s) \in Packets /\ LastOf(s) \in Packets /\ FirstOf(s) - 1 < LastOf(s)
  <2>1. /\ FirstOf(s) \in Packets /\ LastOf(s) \in Packets
        /\ LastOf(s) = FirstOf(s) + PacketsPerScan - 1
    BY ScanFacts
  <2> QED
    BY <2>1, LayoutFacts
<1>2. FirstOf(s) - 1 = s * PacketsPerScan
  <2>1. s * PacketsPerScan \in Int
    BY LayoutFacts DEF ScanNumbers
  <2> QED
    BY <2>1 DEF FirstOf
<1>3. PointsOf(s) = pointsUpTo[LastOf(s)] - pointsUpTo[FirstOf(s) - 1]
  BY <1>2 DEF PointsOf, LastOf
<1>4. pointsUpTo[FirstOf(s) - 1] < pointsUpTo[LastOf(s)]
  <2>1. FirstOf(s) - 1 \in 0..PacketCount /\ LastOf(s) \in 0..PacketCount
    BY <1>1, LayoutFacts
  <2> QED
    BY <1>1, <2>1, PointsIncrease
<1>5. pointsUpTo[FirstOf(s) - 1] \in Nat /\ pointsUpTo[LastOf(s)] \in Nat
  BY <1>1, LayoutFacts
<1> QED
  BY <1>3, <1>4, <1>5

\* A header is as long as its packet.
LEMMA HeaderFacts ==
  ASSUME Placed, NEW i \in Packets
  PROVE  /\ Header(i) \in HeaderType
         /\ Header(i).packet = i /\ i # 0
         /\ Header(i).scan = ScanOf(i)
         /\ Header(i).packetNumber = ((i - 1) % PacketsPerScan) + 1
         /\ Header(i).points = pointsUpTo[i] - pointsUpTo[i - 1]
         /\ Header(i).points \in Nat \ {0}
         /\ Header(i).numPointsScan = PointsOf(ScanOf(i))
         /\ Header(i).header = HeaderUnits /\ Header(i).packetType = "C"
         /\ Header(i).size = HeaderUnits + Header(i).points
         /\ Start(i) + Header(i).size = End(i)
         /\ Header(i).size < CountLimit
<1>1. /\ pointsUpTo[i] - pointsUpTo[i - 1] \in Nat \ {0} /\ i \in Nat /\ i # 0
      /\ HeaderUnits \in Nat
  <2>1. pointsUpTo[i] - pointsUpTo[i - 1] \in Nat \ {0}
    BY LayoutFacts
  <2>2. i \in Nat /\ i # 0
    BY DEF Packets
  <2> QED
    BY <2>1, <2>2, LayoutFacts
<1>2. ScanOf(i) \in ScanNumbers /\ ((i - 1) % PacketsPerScan) \in Nat
  <2>1. PacketsPerScan \in Nat \ {0} /\ i - 1 \in Nat
    BY LayoutFacts DEF Packets
  <2>2. ScanOf(i) \in ScanNumbers
    BY ScanFacts
  <2> QED
    BY <2>1, <2>2
<1>3. ScanOf(i) \in Nat /\ PointsOf(ScanOf(i)) \in Nat
  BY <1>2, PointsOfScan DEF ScanNumbers
<1>4. HeaderUnits + (pointsUpTo[i] - pointsUpTo[i - 1]) < CountLimit
  BY TcpAssumption DEF Placed
<1>5. Start(i) + (HeaderUnits + (pointsUpTo[i] - pointsUpTo[i - 1])) = End(i)
  <2>1. i * HeaderUnits = (i - 1) * HeaderUnits + HeaderUnits /\ (i - 1) * HeaderUnits \in Int
    BY <1>1
  <2>2. pointsUpTo[i] \in Nat /\ pointsUpTo[i - 1] \in Nat
    BY LayoutFacts
  <2> QED
    BY <1>1, <2>1, <2>2 DEF Start, End
<1>6. Header(i) \in HeaderType
  BY <1>1, <1>2, <1>3 DEF Header, HeaderType
<1> QED
  BY <1>1, <1>4, <1>5, <1>6 DEF Header

LEMMA MinMax ==
  \A a, b \in Int : /\ Min({a, b}) = IF a <= b THEN a ELSE b
                    /\ Max({a, b}) = IF a >= b THEN a ELSE b
<1> TAKE a \in Int, b \in Int
<1>1. PICK x \in {a, b} : \A y \in {a, b} : x <= y
  OBVIOUS
<1>2. PICK z \in {a, b} : \A y \in {a, b} : z >= y
  OBVIOUS
<1>3. Min({a, b}) \in {a, b} /\ \A y \in {a, b} : Min({a, b}) <= y
  BY <1>1 DEF Min
<1>4. Max({a, b}) \in {a, b} /\ \A y \in {a, b} : Max({a, b}) >= y
  BY <1>2 DEF Max
<1> QED
  BY <1>3, <1>4

-----------------------------------------------------------------------------
(* Types                                                                   *)

Factories == [packets : Seq(HeaderType), points : Nat]

Straying == /\ strays \in StrayChoices /\ \A p \in DOMAIN strays : p < StreamEnd
            /\ \A i \in Packets : Start(i) \notin DOMAIN strays

Base == /\ TypeOK /\ Placed /\ Straying
        /\ scanFactory \in Factories /\ outputs \in Seq(Seq(HeaderType))

LEMMA BaseFacts ==
  ASSUME Base
  PROVE  /\ Placed /\ received \in Nat /\ begin \in Nat /\ begin <= received
         /\ received <= StreamEnd
         /\ capacity \in Nat /\ want \in Nat /\ 1 <= want /\ want <= capacity
         /\ defaultSize \in Nat /\ 1 <= defaultSize /\ defaultSize <= MaxReceptionSize
         /\ defaultSize <= capacity /\ capacity <= MaxReceptionSize /\ MaxReceptionSize \in Nat
         /\ newSize \in 0..MaxReceptionSize
         /\ SearchUnits \in Nat /\ HeaderUnits \in Nat \ {0} /\ HeaderUnits < SearchUnits
         /\ StreamEnd \in Nat
  BY Positions, TcpAssumption DEF Base, TypeOK

LEMMA BoundedFacts ==
  ASSUME Base, NEW n \in Nat
  PROVE  Bounded(n) \in 0..MaxReceptionSize
<1>1. n \in Int /\ defaultSize \in Int /\ defaultSize \in Nat /\ MaxReceptionSize \in Nat
  BY BaseFacts
<1>2. Max({n, defaultSize}) = IF n >= defaultSize THEN n ELSE defaultSize
  BY <1>1, MinMax, Zenon
<1> DEFINE m == Max({n, defaultSize})
<1>3. m \in Nat /\ m \in Int /\ MaxReceptionSize \in Int
  BY <1>1, <1>2
<1> HIDE DEF m
<1>4. Min({MaxReceptionSize, m}) = IF MaxReceptionSize <= m THEN MaxReceptionSize ELSE m
  BY <1>3, MinMax, Zenon
<1>5. Min({MaxReceptionSize, m}) \in 0..MaxReceptionSize
  BY <1>1, <1>3, <1>4
<1> QED
  BY <1>5, Zenon DEF Bounded, m

LEMMA FinishFacts ==
  ASSUME Base, NEW position, NEW missing \in Nat, Finish(position, missing)
  PROVE  /\ begin' = position /\ pc' = "read"
         /\ want' \in 1..capacity
         /\ missing # 0 => want' <= missing
         /\ capacity' \in capacity..MaxReceptionSize
         /\ UNCHANGED <<inputs, received, newSize, outputs>>
<1>1. want' \in 1..capacity /\ (missing # 0 => want' <= missing)
  BY BaseFacts, MinMax DEF Finish, NextRead
<1>2. capacity' \in capacity..MaxReceptionSize
  BY BaseFacts DEF Finish
<1> QED
  BY <1>1, <1>2 DEF Finish

-----------------------------------------------------------------------------
(* What is found and read                                                  *)

\* The first magic of the buffer is that of a packet, or a stray one, and no
\* packet of the buffer starts before it.
LEMMA FoundFacts ==
  ASSUME Base, HasMagic
  PROVE  /\ pc = "extract" /\ received - begin >= SearchUnits
         /\ Found \in Nat /\ begin <= Found /\ Found < received
         /\ Found \in DOMAIN strays \/ \E i \in Packets : Found = Start(i)
         /\ \A i \in Packets : begin <= Start(i) /\ Start(i) < received => Found <= Start(i)
<1>0. received \in Nat /\ begin \in Nat /\ Placed
  BY BaseFacts
<1>1. Magics \subseteq Nat /\ Magics # {}
  BY <1>0 DEF Magics, HasMagic
<1>2. PICK m \in Magics : \A k \in Magics : ~(<<k, m>> \in OpToRel(<, Nat))
  BY <1>1, NatLessThanWellFounded, WFMin, Zenon
<1>3. \A k \in Magics : m <= k
  <2>1. \A k \in Magics : ~(k < m)
    BY <1>1, <1>2 DEF OpToRel
  <2> QED
    BY <1>1, <2>1
<1>4. Found \in Magics /\ \A k \in Magics : Found <= k
  BY <1>3 DEF Found, Min
<1>5. \A i \in Packets : begin <= Start(i) /\ Start(i) < received => Start(i) \in Magics
  BY <1>0, Positions DEF Magics
<1>6. /\ Found \in Nat /\ begin <= Found /\ Found < received
      /\ Found \in DOMAIN strays \/ \E i \in Packets : Found = Start(i)
  BY <1>0, <1>4 DEF Magics
<1> QED
  BY <1>4, <1>5, <1>6 DEF HasMagic, Available

\* h is read for packet i.
OfPacket(h, i) == h = Header(i) /\ Found = Start(i)

\* What is read as a header is one, of the packet found, or invented.
LEMMA ReadableFacts ==
  ASSUME Base, HasMagic, NEW h \in Readable
  PROVE  /\ h \in HeaderType /\ h.header <= h.size
         /\ \/ h.packet = 0 /\ h \in Inventions
            \/ \E i \in Packets : OfPacket(h, i) /\ h.packet = i
<1>1. CASE h \in Inventions
  BY <1>1, TcpAssumption
<1>2. CASE h \notin Inventions
  <2>1. strays \in StrayChoices
    BY DEF Base, Straying
  <2>2. Found \notin DOMAIN strays /\ h \in {Header(i) : i \in {j \in Packets : Start(j) = Found}}
    BY <1>2, <2>1, TcpAssumption DEF Readable
  <2>3. PICK i \in Packets : Start(i) = Found /\ h = Header(i)
    BY <2>2
  <2>4. /\ h \in HeaderType /\ h.packet = i /\ h.header = HeaderUnits
        /\ h.size = HeaderUnits + h.points /\ h.points \in Nat /\ HeaderUnits \in Nat
    BY <2>3, HeaderFacts, BaseFacts
  <2>5. h.header <= h.size
    BY <2>4
  <2> QED
    BY <2>3, <2>4, <2>5 DEF OfPacket
<1> QED
  BY <1>1, <1>2

\* At the start of a packet its header is read: the search has made sure that
\* all of it is there.
LEMMA AtStart ==
  ASSUME Base, HasMagic, NEW i \in Packets, begin = Start(i)
  PROVE  Found = Start(i) /\ \A h \in Readable : OfPacket(h, i) /\ h.packet = i
<1>1. /\ received - begin >= SearchUnits /\ Found \in Nat /\ begin <= Found
      /\ begin <= Start(i) /\ Start(i) < received => Found <= Start(i)
      /\ received \in Nat /\ begin \in Nat /\ Placed /\ Straying
      /\ SearchUnits \in Nat /\ HeaderUnits \in Nat \ {0} /\ HeaderUnits < SearchUnits
  BY FoundFacts, BaseFacts DEF Base
<1>2. Found = Start(i)
  BY <1>1
<1>3. ~(Found + HeaderUnits > received) /\ Found \notin DOMAIN strays
  BY <1>1, <1>2 DEF Straying
<1>4. ASSUME NEW h \in Readable PROVE OfPacket(h, i) /\ h.packet = i
  <2>1. h \in {Header(k) : k \in {j \in Packets : Start(j) = Found}}
    BY <1>3 DEF Readable
  <2>2. PICK k \in Packets : Start(k) = Found /\ h = Header(k)
    BY <2>1
  <2>3. i \in Nat /\ k \in Nat /\ Start(i) \in Nat
    BY <1>1, Positions DEF Packets
  <2>4. k = i
    BY <1>1, <1>2, <2>2, <2>3, Order
  <2> QED
    BY <1>1, <1>2, <2>2, <2>4, HeaderFacts DEF OfPacket
<1> QED
  BY <1>2, <1>4

\* For a packet, its end tells whether it is whole, and then all its points are
\* read and nothing fails.
LEMMA OfPacketFacts ==
  ASSUME Base, HasMagic, NEW i \in Packets, NEW h, OfPacket(h, i)
  PROVE  /\ IsWhole(h) <=> End(i) <= received
         /\ IsWhole(h) => /\ [h EXCEPT !.points = PointsRead(h)] = Header(i)
                          /\ Found + h.header + PointsRead(h) = End(i)
                          /\ ~MayFail(h)
<1>1. /\ h = Header(i) /\ Found = Start(i) /\ Found \in Nat /\ received \in Nat /\ Placed
      /\ h.header = HeaderUnits /\ HeaderUnits \in Nat \ {0}
      /\ h.points \in Nat /\ h.size = HeaderUnits + h.points /\ h.packetType = "C"
      /\ Start(i) + h.size = End(i) /\ h \in HeaderType
  BY HeaderFacts, FoundFacts, BaseFacts DEF OfPacket
<1>2. IsWhole(h) <=> End(i) <= received
  BY <1>1 DEF IsWhole
<1>3. ASSUME IsWhole(h)
      PROVE  PointsRead(h) = h.points
  <2>1. h.points <= received - Found - h.header /\ received - Found - h.header \in Int
    BY <1>1, <1>3 DEF IsWhole
  <2> QED
    BY <1>1, <2>1, MinMax DEF PointsRead
<1>4. [h EXCEPT !.points = h.points] = h
  BY <1>1 DEF HeaderType
<1>5. Found + h.header + h.points = End(i)
  BY <1>1
<1>6. ASSUME IsWhole(h)
      PROVE  ~MayFail(h)
  BY <1>1, <1>3, <1>6 DEF MayFail
<1>7. ASSUME IsWhole(h)
      PROVE  /\ [h EXCEPT !.points = PointsRead(h)] = Header(i)
             /\ Found + h.header + PointsRead(h) = End(i)
  BY <1>1, <1>3, <1>4, <1>5, <1>7
<1> QED
  BY <1>2, <1>6, <1>7

\* The points read are there.
LEMMA PointsReadFacts ==
  ASSUME Base, HasMagic, NEW h \in Readable, IsWhole(h)
  PROVE  /\ PointsRead(h) \in Nat
         /\ Found + h.header + PointsRead(h) <= received
         /\ Found + h.header + PointsRead(h) \in Nat
         /\ Found <= Found + h.header + PointsRead(h)
         /\ [h EXCEPT !.points = PointsRead(h)] \in HeaderType
<1>1. /\ h \in HeaderType /\ h.header <= h.size /\ Found \in Nat /\ received \in Nat
      /\ h.header \in Nat /\ h.size \in Nat /\ h.points \in Nat
  BY ReadableFacts, FoundFacts, BaseFacts DEF HeaderType
<1> DEFINE rest == received - Found - h.header
<1>2. rest \in Nat /\ Found + h.header + rest = received
  BY <1>1 DEF IsWhole
<1>3. PointsRead(h) = IF h.points <= rest THEN h.points ELSE rest
  BY <1>1, <1>2, MinMax DEF PointsRead
<1> HIDE DEF rest
<1>4. PointsRead(h) \in Nat /\ PointsRead(h) <= rest
  BY <1>1, <1>2, <1>3
<1>5. [h EXCEPT !.points = PointsRead(h)] \in HeaderType
  BY <1>1, <1>4 DEF HeaderType
<1> QED
  BY <1>1, <1>2, <1>4, <1>5

-----------------------------------------------------------------------------
(* The factory                                                             *)

\* What the factory is when the packet of a header has been added to it.
Extended(h) == Added(Prepared(scanFactory, h), h)

LEMMA PreparedFacts ==
  ASSUME Base, NEW h
  PROVE  Prepared(scanFactory, h) = scanFactory \/ Prepared(scanFactory, h) = EmptyFactory
  BY DEF Prepared, Clear

LEMMA ExtendedFacts ==
  ASSUME Base, NEW h \in HeaderType
  PROVE  LET f == Extended(h)
             n == Len(f.packets) - 1
         IN  /\ f.packets \in Seq(HeaderType) /\ n \in Nat /\ DOMAIN f.packets = 1..(n + 1)
             /\ f.packets[n + 1] = h /\ f = [packets |-> f.packets, points |-> f.points]
             /\ f.points \in Nat /\ f \in Factories /\ ~IsEmpty(f)
             /\ \/ n = 0 /\ f.points = h.points
                \/ /\ n = Len(scanFactory.packets) /\ n > 0 /\ h.packetNumber # 1
                   /\ f.points = scanFactory.points + h.points
                   /\ scanNumber(scanFactory.packets[n]) = scanNumber(h)
                   /\ \A k \in 1..n : f.packets[k] = scanFactory.packets[k]
             /\ \/ IsEmpty(scanFactory) \/ h.packetNumber = 1
                \/ LastHeader(scanFactory).scan # h.scan
                \/ n = Len(scanFactory.packets)
<1> DEFINE f == Extended(h)
           p == Prepared(scanFactory, h)
           q == scanFactory.packets
<1>0. h.points \in Nat /\ scanFactory \in Factories
  BY DEF Base, HeaderType
<1>1. /\ q \in Seq(HeaderType) /\ scanFactory = [packets |-> q, points |-> scanFactory.points]
      /\ scanFactory.points \in Nat /\ Len(q) \in Nat
      /\ q # <<>> => Len(q) > 0 /\ q[Len(q)] \in HeaderType
  BY <1>0, LenProperties, EmptySeq, ElementOfSeq DEF Factories
<1>2. \/ p = EmptyFactory
         /\ ~IsEmpty(scanFactory) /\ (IsDifferentScan(scanFactory, h) \/ IsNewScan(h))
      \/ p = scanFactory /\ ~IsEmpty(scanFactory)
         /\ ~IsDifferentScan(scanFactory, h) /\ ~IsNewScan(h)
      \/ p = EmptyFactory /\ p = scanFactory /\ IsEmpty(scanFactory)
  <2>1. IsEmpty(scanFactory) => scanFactory = EmptyFactory
    BY DEF Base, TypeOK
  <2> QED
    BY <2>1 DEF Prepared, Clear
<1>3. /\ p.packets \in Seq(HeaderType) /\ p.points \in Nat
      /\ p = EmptyFactory => p.packets = <<>> /\ p.points = 0
  <2>1. EmptyFactory.packets = <<>> /\ EmptyFactory.points = 0 /\ <<>> \in Seq(HeaderType)
    BY EmptySeq DEF EmptyFactory
  <2>2. p = EmptyFactory \/ p = scanFactory
    BY <1>2
  <2>3. q \in Seq(HeaderType) /\ scanFactory.points \in Nat
    BY <1>1
  <2> HIDE DEF p
  <2>4. CASE p = EmptyFactory
    <3>1. 0 \in Nat
      OBVIOUS
    <3> QED
      BY ONLY <2>1, <2>4, <3>1, Zenon
  <2>5. CASE p = scanFactory
    BY ONLY <2>1, <2>3, <2>5
  <2> QED
    BY <2>2, <2>4, <2>5
<1>4. f = [packets |-> Append(p.packets, h), points |-> p.points + h.points]
  BY DEF Extended, Added
<1>5. /\ Append(p.packets, h) \in Seq(HeaderType)
      /\ Len(Append(p.packets, h)) = Len(p.packets) + 1 /\ Len(p.packets) \in Nat
      /\ Append(p.packets, h)[Len(p.packets) + 1] = h
      /\ \A k \in 1..Len(p.packets) : Append(p.packets, h)[k] = p.packets[k]
      /\ DOMAIN Append(p.packets, h) = 1..(Len(p.packets) + 1)
      /\ Append(p.packets, h) # <<>>
  BY <1>0, <1>3, AppendProperties, LenProperties
<1> HIDE DEF p
<1> DEFINE n == Len(f.packets) - 1
<1>6. /\ f.packets = Append(p.packets, h) /\ f.points = p.points + h.points
      /\ n = Len(p.packets)
  BY <1>4, <1>5
<1> HIDE DEF f
<1>7. /\ f.packets \in Seq(HeaderType) /\ n \in Nat /\ DOMAIN f.packets = 1..(n + 1)
      /\ f.packets[n + 1] = h /\ f = [packets |-> f.packets, points |-> f.points]
      /\ f.points \in Nat
  BY <1>0, <1>3, <1>4, <1>5, <1>6
<1>8. f \in Factories /\ ~IsEmpty(f)
  BY <1>5, <1>6, <1>7 DEF Factories, IsEmpty
<1>9. CASE p = EmptyFactory
  <2>1. n = 0 /\ f.points = h.points
    BY <1>0, <1>3, <1>6, <1>9, EmptySeq
  <2>2. \/ IsEmpty(scanFactory) \/ h.packetNumber = 1
        \/ LastHeader(scanFactory).scan # h.scan
        \/ n = Len(scanFactory.packets)
    BY <1>1, <1>2, <1>9
       DEF IsEmpty, IsNewScan, IsDifferentScan, LastHeader, EmptyFactory, scanNumber
  <2> QED
    BY <1>7, <1>8, <2>1, <2>2 DEF f
<1>10. CASE p = scanFactory /\ ~IsEmpty(scanFactory)
            /\ ~IsDifferentScan(scanFactory, h) /\ ~IsNewScan(h)
  <2>1. /\ n = Len(q) /\ n > 0 /\ h.packetNumber # 1 /\ f.points = scanFactory.points + h.points
        /\ \A k \in 1..n : f.packets[k] = q[k]
    BY <1>1, <1>5, <1>6, <1>10 DEF IsEmpty, IsNewScan
  <2>2. scanNumber(q[n]) = scanNumber(h)
    BY <1>1, <1>10, <2>1 DEF IsEmpty, IsDifferentScan, LastHeader
  <2> QED
    BY <1>7, <1>8, <2>1, <2>2 DEF f
<1> QED
  BY <1>2, <1>9, <1>10

-----------------------------------------------------------------------------
(* Steps                                                                   *)

LEMMA Frame ==
  ASSUME Next
  PROVE  pointsUpTo' = pointsUpTo /\ strays' = strays /\ defaultSize' = defaultSize
  BY DEF Next, Read, NoHeader, PartialPacket, WholePacket, PayloadFails, Finish, inputs

\* Nothing of the stream depends on the step.
LEMMA SameStream ==
  ASSUME Placed, pointsUpTo' = pointsUpTo
  PROVE  /\ Placed' /\ StreamEnd' = StreamEnd
         /\ \A i : End(i)' = End(i) /\ Start(i)' = Start(i) /\ Header(i)' = Header(i)
         /\ \A s : PointsOf(s)' = PointsOf(s)
<1>1. \A s : PointsOf(s)' = PointsOf(s)
  BY DEF PointsOf
<1>2. \A i : End(i)' = End(i)
  BY DEF End
<1>3. \A i : Header(i)' = Header(i)
  BY <1>1 DEF Header
<1>4. \A i : Start(i)' = Start(i)
  BY <1>2 DEF Start
<1> QED
  BY <1>1, <1>2, <1>3, <1>4 DEF Placed, StreamEnd

LEMMA NoHeaderStep ==
  ASSUME Base, NoHeader
  PROVE  /\ pc = "extract" /\ cut' = cut \cup {i \in Packets : Start(i) \in Magics}
         /\ begin' = received /\ pc' = "read" /\ want' \in 1..capacity
         /\ capacity' \in capacity..MaxReceptionSize
         /\ UNCHANGED <<inputs, received, newSize, outputs, scanFactory, extracted, skipped>>
  BY FinishFacts DEF NoHeader

\* The next read is for no more than what is missing, even if the number of
\* missing units is too large to be counted.
LEMMA PartialStep ==
  ASSUME Base, PartialPacket
  PROVE  /\ HasMagic /\ begin' = Found /\ pc' = "read"
         /\ want' \in 1..capacity /\ capacity' \in capacity..MaxReceptionSize
         /\ UNCHANGED <<inputs, received, newSize, outputs, extracted, cut, skipped>>
         /\ \E h \in Readable : /\ ~IsWhole(h) /\ received + want' <= Found + h.size
                                /\ scanFactory' = Prepared(scanFactory, h)
<1>1. PICK h \in Readable : /\ ~IsWhole(h)
                            /\ scanFactory' = Prepared(scanFactory, h)
                            /\ Finish(Found, (Found + h.size - received) % CountLimit)
  BY DEF PartialPacket, PacketStart
<1>2. HasMagic /\ UNCHANGED <<extracted, cut, skipped>>
  BY DEF PartialPacket
<1> DEFINE missing == Found + h.size - received
<1>3. /\ missing \in Nat /\ missing # 0 /\ CountLimit \in Nat /\ CountLimit > MaxReceptionSize
      /\ received \in Nat /\ received + missing = Found + h.size
  <2>1. Found \in Nat /\ h.size \in Nat /\ received \in Nat
    BY <1>2, FoundFacts, ReadableFacts, BaseFacts DEF HeaderType
  <2> QED
    BY <1>1, <2>1, TcpAssumption DEF IsWhole
<1> HIDE DEF missing
<1>4. /\ missing % CountLimit \in Nat /\ missing % CountLimit <= missing
      /\ missing % CountLimit = 0 => CountLimit <= missing
  <2>1. CountLimit \in Nat \ {0}
    BY <1>3, BaseFacts
  <2>2. missing % CountLimit \in 0..(CountLimit - 1)
    BY <1>3, <2>1
  <2>3. missing < CountLimit => missing % CountLimit = missing
    BY <1>3, <2>1
  <2> QED
    BY <1>3, <2>1, <2>2, <2>3
<1>5. Finish(Found, missing % CountLimit)
  BY <1>1 DEF missing
<1>6. /\ begin' = Found /\ pc' = "read" /\ want' \in 1..capacity
      /\ missing % CountLimit # 0 => want' <= missing % CountLimit
      /\ capacity' \in capacity..MaxReceptionSize
      /\ UNCHANGED <<inputs, received, newSize, outputs>>
  BY <1>4, <1>5, FinishFacts
<1>7. want' <= missing
  <2>1. capacity \in Nat /\ capacity <= MaxReceptionSize /\ MaxReceptionSize \in Nat
    BY BaseFacts
  <2> QED
    BY <1>3, <1>4, <1>6, <2>1
<1>8. received + want' <= Found + h.size
  BY <1>3, <1>6, <1>7
<1> QED
  BY <1>1, <1>2, <1>6, <1>8

\* A whole packet: what it is read as, and what becomes of the factory.
Taken(h) ==
  LET g == [h EXCEPT !.points = PointsRead(h)]
      f == Extended(g)
  IN  /\ IsWhole(h) /\ begin' = Found + h.header + PointsRead(h)
      /\ extracted' = extracted \cup ({h.packet} \ {0})
      /\ skipped' = skipped \cup
           {i \in Packets : i # h.packet /\ Start(i) \in Found..(begin' - 1)}
      /\ f.packets[1].numPointsScan \in Nat
      /\ \/ /\ f.points >= f.packets[1].numPointsScan
            /\ scanFactory' = EmptyFactory /\ outputs' = Append(outputs, f.packets)
         \/ /\ f.points < f.packets[1].numPointsScan
            /\ scanFactory' = f /\ outputs' = outputs

LEMMA WholeStep ==
  ASSUME Base, WholePacket
  PROVE  /\ HasMagic /\ pc' = "extract"
         /\ UNCHANGED <<inputs, capacity, received, want, cut>>
         /\ newSize' \in 0..MaxReceptionSize
         /\ \E h \in Readable : Taken(h)
<1>1. HasMagic /\ pc' = "extract" /\ UNCHANGED <<inputs, capacity, received, want, cut>>
  BY DEF WholePacket, HasMagic
<1>2. PICK h \in Readable :
        LET f == Added(Prepared(scanFactory, h), [h EXCEPT !.points = PointsRead(h)])
            position == Found + h.header + PointsRead(h)
        IN  /\ IsWhole(h)
            /\ begin' = position
            /\ extracted' = extracted \cup ({h.packet} \ {0})
            /\ skipped' = skipped \cup
                 {i \in Packets : i # h.packet /\ Start(i) \in Found..(position - 1)}
            /\ scanFactory' = IF IsComplete(f) THEN Clear(f) ELSE f
            /\ outputs' = IF IsComplete(f) THEN Append(outputs, f.packets) ELSE outputs
            /\ newSize' \in IF IsComplete(f) THEN Sizes(f) ELSE {newSize}
  BY DEF WholePacket
<1> DEFINE g == [h EXCEPT !.points = PointsRead(h)]
           f == Extended(g)
<1>3. g \in HeaderType
  BY <1>1, <1>2, PointsReadFacts
<1>4. Prepared(scanFactory, h) = Prepared(scanFactory, g)
  <2>1. h \in HeaderType
    BY <1>1, ReadableFacts
  <2>2. g.scan = h.scan /\ g.packetNumber = h.packetNumber
    BY <2>1 DEF HeaderType
  <2> HIDE DEF g
  <2> QED
    BY <2>2 DEF Prepared, IsDifferentScan, IsNewScan, scanNumber
<1>5. f = Added(Prepared(scanFactory, h), g)
  BY <1>4 DEF Extended
<1> HIDE DEF g
<1>6. /\ f.packets \in Seq(HeaderType) /\ 1 \in DOMAIN f.packets /\ f.points \in Nat
      /\ ~IsEmpty(f) /\ Len(f.packets) \in Nat
  <2>1. /\ f.packets \in Seq(HeaderType) /\ Len(f.packets) - 1 \in Nat
        /\ DOMAIN f.packets = 1..(Len(f.packets) - 1 + 1)
        /\ f.points \in Nat /\ ~IsEmpty(f)
    BY <1>3, ExtendedFacts
  <2> HIDE DEF f
  <2> QED
    BY <2>1, LenProperties
<1> HIDE DEF f
<1>7. f.packets[1].numPointsScan \in Nat
  <2>1. f.packets[1] \in HeaderType
    BY <1>6, ElementOfSeq
  <2> QED
    BY <2>1 DEF HeaderType
<1>8. /\ IsComplete(f) => f.points >= f.packets[1].numPointsScan
      /\ ~IsComplete(f) => f.points < f.packets[1].numPointsScan
  BY <1>6, <1>7 DEF IsComplete
<1>9. /\ scanFactory' = IF IsComplete(f) THEN Clear(f) ELSE f
      /\ outputs' = IF IsComplete(f) THEN Append(outputs, f.packets) ELSE outputs
      /\ newSize' \in IF IsComplete(f) THEN Sizes(f) ELSE {newSize}
  BY <1>2, <1>5 DEF g
<1>10. newSize' \in 0..MaxReceptionSize
  <2>1. Sizes(f) \subseteq 0..MaxReceptionSize
    <3>1. Len(f.packets) * HeaderUnits + f.points \in Nat
      <4>1. Len(f.packets) \in Nat /\ f.points \in Nat /\ HeaderUnits \in Nat
        BY <1>6, BaseFacts
      <4> QED
        BY ONLY <4>1
    <3>2. SizeOf(f) \in 0..MaxReceptionSize
      BY <3>1, BoundedFacts DEF SizeOf
    <3> QED
      BY <3>2, BaseFacts DEF Sizes
  <2>2. newSize \in 0..MaxReceptionSize
    BY BaseFacts
  <2> QED
    BY <1>9, <2>1, <2>2
<1>11. Taken(h)
  BY <1>2, <1>7, <1>8, <1>9 DEF Taken, f, g, Clear
<1> QED
  BY <1>1, <1>10, <1>11

\* A payload of a packet never fails.
LEMMA FailStep ==
  ASSUME Base, PayloadFails
  PROVE  /\ HasMagic /\ pc' = "dead"
         /\ UNCHANGED <<inputs, capacity, received, begin, want, newSize, outputs, extracted,
                        cut, skipped>>
         /\ \E h \in Readable : /\ scanFactory' = Prepared(scanFactory, h)
                                /\ \A i \in Packets : ~OfPacket(h, i)
<1>1. /\ HasMagic /\ pc' = "dead"
      /\ UNCHANGED <<inputs, capacity, received, begin, want, newSize, outputs, extracted,
                     cut, skipped>>
  BY DEF PayloadFails
<1>2. PICK h \in Readable : IsWhole(h) /\ MayFail(h) /\ scanFactory' = Prepared(scanFactory, h)
  BY DEF PayloadFails
<1>3. \A i \in Packets : ~OfPacket(h, i)
  BY <1>1, <1>2, OfPacketFacts
<1> QED
  BY <1>1, <1>2, <1>3

\* The extraction never goes back, and outputs stay.
LEMMA Forward ==
  ASSUME Base, Next
  PROVE  /\ begin' \in Nat /\ begin <= begin'
         /\ pc = "extract" => begin' <= received
         /\ extracted \subseteq extracted' /\ cut \subseteq cut' /\ skipped \subseteq skipped'
         /\ outputs' = outputs \/ \E p \in Seq(HeaderType) : outputs' = Append(outputs, p)
<1>0. begin \in Nat /\ received \in Nat /\ begin <= received
  BY BaseFacts
<1>1. CASE Read
  BY <1>0, <1>1 DEF Read
<1>2. CASE NoHeader
  BY <1>0, <1>2, NoHeaderStep
<1>3. CASE PartialPacket
  BY <1>0, <1>3, PartialStep, FoundFacts
<1>4. CASE WholePacket
  <2>1. HasMagic /\ cut' = cut
    BY <1>4, WholeStep
  <2>2. PICK h \in Readable : Taken(h)
    BY <1>4, WholeStep
  <2>3. /\ Found \in Nat /\ begin <= Found
    BY <2>1, FoundFacts
  <2>4. IsWhole(h) /\ begin' = Found + h.header + PointsRead(h)
        /\ extracted \subseteq extracted' /\ skipped \subseteq skipped'
    BY <2>2 DEF Taken
  <2> DEFINE g == [h EXCEPT !.points = PointsRead(h)]
  <2>5. /\ begin' \in Nat /\ Found <= begin' /\ begin' <= received /\ g \in HeaderType
    BY <2>1, <2>4, PointsReadFacts
  <2>6. Extended(g).packets \in Seq(HeaderType)
    BY <2>5, ExtendedFacts
  <2>7. outputs' = outputs \/ outputs' = Append(outputs, Extended(g).packets)
    BY <2>2 DEF Taken
  <2> QED
    BY <1>0, <2>1, <2>3, <2>4, <2>5, <2>6, <2>7
<1>5. CASE PayloadFails
  BY <1>0, <1>5, FailStep
<1> QED
  BY <1>1, <1>2, <1>3, <1>4, <1>5 DEF Next

-----------------------------------------------------------------------------
LEMMA EmptyTyped == EmptyFactory \in Factories /\ IsEmpty(EmptyFactory)
  BY EmptySeq DEF EmptyFactory, Factories, IsEmpty

\* The factory after a step, by its type and its state.
FactoryTyped == /\ scanFactory \in Factories
                /\ IF IsEmpty(scanFactory) THEN scanFactory = EmptyFactory
                   ELSE scanFactory.points < scanFactory.packets[1].numPointsScan

LEMMA BaseHolds == Spec => []Base
<1>1. Init => Base
  <2> SUFFICES ASSUME Init PROVE Base
    OBVIOUS
  <2>1. Placed
    BY DEF Init, Placed
  <2>2. /\ capacity \in defaultSize..MaxReceptionSize /\ want \in 1..capacity
        /\ MaxReceptionSize \in Nat
    BY TcpAssumption DEF Init
  <2>3. received \in 0..StreamEnd /\ begin \in 0..received
    BY <2>1, Positions DEF Init
  <2>4. FactoryTyped /\ outputs \in Seq(Seq(HeaderType))
    BY EmptyTyped, EmptySeq DEF Init, FactoryTyped
  <2>5. Straying
    BY DEF Init, Straying
  <2> QED
    BY <2>1, <2>2, <2>3, <2>4, <2>5, LayoutFacts DEF Init, Base, TypeOK, FactoryTyped, Straying
<1>2. Base /\ [Next]_vars => Base'
  <2> SUFFICES ASSUME Base, Next PROVE Base'
    <3>1. UNCHANGED vars /\ Base => Base'
      BY DEF vars, Base, Placed, Straying, TypeOK, IsEmpty, StreamEnd, Start, End
    <3> QED
      BY <3>1
  <2>0. /\ Placed /\ FactoryTyped /\ extracted \cup cut \cup skipped \subseteq Packets
        /\ defaultSize \in DefaultSizes /\ outputs \in Seq(Seq(HeaderType)) /\ Straying
    BY DEF Base, TypeOK, FactoryTyped
  <2>1. /\ Placed' /\ StreamEnd' = StreamEnd
        /\ pointsUpTo' \in [0..PacketCount -> Nat]
        /\ defaultSize' = defaultSize /\ defaultSize' \in DefaultSizes
        /\ Straying' /\ strays' \in StrayChoices
    <3>1. /\ Placed' /\ StreamEnd' = StreamEnd /\ strays' = strays /\ defaultSize' = defaultSize
          /\ pointsUpTo' = pointsUpTo /\ \A i : Start(i)' = Start(i)
      BY <2>0, Frame, SameStream
    <3>2. Straying'
      BY <2>0, <3>1 DEF Straying
    <3> QED
      BY <2>0, <3>1, <3>2, LayoutFacts DEF Straying
  <2>2. scanFactory' = scanFactory \/ scanFactory' = EmptyFactory => FactoryTyped'
    <3>1. scanFactory' = scanFactory => FactoryTyped'
      BY <2>0 DEF FactoryTyped, IsEmpty
    <3>2. scanFactory' = EmptyFactory => FactoryTyped'
      BY EmptyTyped DEF FactoryTyped, IsEmpty
    <3> QED
      BY <3>1, <3>2
  <2>3. outputs' \in Seq(Seq(HeaderType))
    <3>1. \A p \in Seq(HeaderType) : Append(outputs, p) \in Seq(Seq(HeaderType))
      BY <2>0, AppendProperties
    <3> QED
      BY <2>0, <3>1, Forward
  <2>4. CASE Read
    <3>1. received' \in 0..StreamEnd' /\ begin' \in 0..received'
      BY <2>1, <2>4, BaseFacts DEF Read
    <3>2. /\ capacity' \in defaultSize'..MaxReceptionSize /\ want' \in 1..capacity'
          /\ newSize' \in 0..MaxReceptionSize
      BY <2>1, <2>4, BaseFacts DEF Read
    <3>3. /\ extracted' \cup cut' \cup skipped' \subseteq Packets /\ pc' = "extract"
          /\ FactoryTyped'
      BY <2>0, <2>2, <2>4 DEF Read
    <3> QED
      BY <2>1, <2>3, <3>1, <3>2, <3>3 DEF Base, TypeOK, FactoryTyped
  <2>5. CASE NoHeader \/ PartialPacket
    <3>1. /\ received' = received /\ pc' = "read" /\ newSize' = newSize /\ pc = "extract"
          /\ want' \in 1..capacity /\ capacity' \in capacity..MaxReceptionSize
          /\ extracted' \cup cut' \cup skipped' \subseteq Packets
      <4>1. CASE NoHeader
        BY <2>0, <4>1, NoHeaderStep
      <4>2. CASE PartialPacket
        BY <2>0, <4>2, PartialStep, FoundFacts
      <4> QED
        BY <2>5, <4>1, <4>2
    <3>2. scanFactory' = scanFactory \/ scanFactory' = EmptyFactory
      BY <2>5, NoHeaderStep, PartialStep, PreparedFacts
    <3>3. received' \in 0..StreamEnd' /\ begin' \in 0..received'
      BY <2>1, <3>1, BaseFacts, Forward
    <3>4. /\ capacity' \in defaultSize'..MaxReceptionSize /\ want' \in 1..capacity'
          /\ newSize' \in 0..MaxReceptionSize
      BY <2>1, <3>1, BaseFacts
    <3> QED
      BY <2>1, <2>2, <2>3, <3>1, <3>2, <3>3, <3>4 DEF Base, TypeOK, FactoryTyped
  <2>6. CASE WholePacket
    <3>1. /\ HasMagic /\ pc' = "extract" /\ newSize' \in 0..MaxReceptionSize
          /\ received' = received /\ capacity' = capacity /\ want' = want /\ cut' = cut
      BY <2>6, WholeStep
    <3>2. PICK h \in Readable : Taken(h)
      BY <2>6, WholeStep
    <3> DEFINE f == Extended([h EXCEPT !.points = PointsRead(h)])
    <3>3. /\ extracted' = extracted \cup ({h.packet} \ {0})
          /\ skipped' \subseteq skipped \cup Packets
          /\ \/ scanFactory' = EmptyFactory
             \/ f.points < f.packets[1].numPointsScan /\ scanFactory' = f
      BY <3>2 DEF Taken
    <3>4. f \in Factories /\ ~IsEmpty(f)
      <4>1. [h EXCEPT !.points = PointsRead(h)] \in HeaderType
        BY <3>1, <3>2, PointsReadFacts DEF Taken
      <4> QED
        BY <4>1, ExtendedFacts
    <3> HIDE DEF f
    <3>5. FactoryTyped'
      BY <2>2, <3>3, <3>4 DEF FactoryTyped, IsEmpty
    <3>6. received' \in 0..StreamEnd' /\ begin' \in 0..received'
      BY <2>1, <3>1, FoundFacts, BaseFacts, Forward
    <3>7. capacity' \in defaultSize'..MaxReceptionSize /\ want' \in 1..capacity'
      BY <2>1, <3>1, BaseFacts
    <3>8. extracted' \cup cut' \cup skipped' \subseteq Packets
      <4>1. h.packet = 0 \/ h.packet \in Packets
        BY <3>1, ReadableFacts
      <4> QED
        BY <2>0, <3>1, <3>3, <4>1
    <3> QED
      BY <2>1, <2>3, <3>1, <3>5, <3>6, <3>7, <3>8 DEF Base, TypeOK, FactoryTyped
  <2>7. CASE PayloadFails
    <3>1. /\ UNCHANGED <<inputs, capacity, received, begin, want, newSize, extracted, cut, skipped>>
          /\ pc' = "dead"
          /\ scanFactory' = scanFactory \/ scanFactory' = EmptyFactory
      BY <2>7, FailStep, PreparedFacts
    <3>2. /\ received' \in 0..StreamEnd' /\ begin' \in 0..received'
          /\ capacity' \in defaultSize'..MaxReceptionSize /\ want' \in 1..capacity'
          /\ newSize' \in 0..MaxReceptionSize
      BY <2>1, <2>7, FailStep, BaseFacts
    <3>3. extracted' \cup cut' \cup skipped' \subseteq Packets /\ pc' = "dead"
      BY <2>0, <2>7, FailStep
    <3> QED
      BY <2>1, <2>2, <2>3, <2>7, <3>2, <3>3, FailStep, PreparedFacts DEF Base, TypeOK, FactoryTyped
  <2> QED
    BY <2>4, <2>5, <2>6, <2>7 DEF Next
<1> QED
  BY <1>1, <1>2, PTL DEF Spec

\* Type correctness: tryExtractingScanFromByteRange and TcpScanFactory keep
\* every variable in its type, the factory never holds as many points as the
\* scan of its first packet, and no size leaves its bounds, whatever a misread
\* header announces.
THEOREM TypeCorrect == Spec => []TypeOK
<1>1. Base => TypeOK
  BY DEF Base
<1> QED
  BY <1>1, BaseHolds, PTL

-----------------------------------------------------------------------------
(* What is lost                                                            *)

\* What lies before the buffer was extracted, cut or skipped, and at the end of
\* a reception no packet that begins in the buffer has been received whole, but
\* behind a stray magic.
LossInv ==
  /\ \A i \in Packets : Start(i) < begin => i \in extracted \cup cut \cup skipped
  /\ pc = "read" => \A i \in Packets : begin <= Start(i) =>
       received < End(i) \/ (begin \in DOMAIN strays /\ begin < Start(i))

\* Until a header is cut, the extraction goes from packet to packet.
CleanInv ==
  cut = {} => /\ skipped = {} /\ pc # "dead"
              /\ begin = StreamEnd \/ \E i \in Packets : begin = Start(i)

\* The end of a packet is the start of the next, or that of the stream.
LEMMA Follower ==
  ASSUME Placed, NEW i \in Packets
  PROVE  End(i) = StreamEnd \/ \E j \in Packets : End(i) = Start(j)
<1>1. CASE i = PacketCount
  BY <1>1 DEF StreamEnd
<1>2. CASE i # PacketCount
  <2> DEFINE j == i + 1
  <2>1. j \in Packets /\ j - 1 = i
    BY <1>2, LayoutFacts DEF Packets
  <2> HIDE DEF j
  <2> QED
    BY <2>1 DEF Start
<1> QED
  BY <1>1, <1>2

\* Before the first cut what is read is the packet at the start of the buffer.
LEMMA CleanFound ==
  ASSUME Base, CleanInv, HasMagic, cut = {}
  PROVE  \E i \in Packets : begin = Start(i) /\ Found = begin
                            /\ \A h \in Readable : OfPacket(h, i) /\ h.packet = i
<1>1. begin # StreamEnd
  BY FoundFacts, BaseFacts
<1>2. PICK i \in Packets : begin = Start(i)
  BY <1>1 DEF CleanInv
<1> QED
  BY <1>2, AtStart

LEMMA LossHolds == Spec => [](LossInv /\ CleanInv)
<1>1. Init => LossInv /\ CleanInv
  <2> SUFFICES ASSUME Init PROVE LossInv /\ CleanInv
    OBVIOUS
  <2>1. /\ \A i \in Packets : Start(i) \in Nat /\ Start(i) + SearchUnits <= End(i) /\ End(i) \in Nat
        /\ SearchUnits \in Nat \ {0} /\ Placed
    BY Positions, TcpAssumption DEF Init, Placed
  <2>2. 1 \in Packets /\ Start(1) = 0
    <3>1. 1 \in Packets
      BY <2>1, LayoutFacts DEF Packets, PacketCount
    <3>2. 1 - 1 = 0
      OBVIOUS
    <3> QED
      BY <2>1, <3>1, <3>2, Positions DEF Start
  <2> QED
    BY <2>1, <2>2 DEF Init, LossInv, CleanInv
<1>2. Base /\ LossInv /\ CleanInv /\ [Next]_vars => LossInv' /\ CleanInv'
  <2> SUFFICES ASSUME Base, LossInv, CleanInv, Next PROVE LossInv' /\ CleanInv'
    <3>1. UNCHANGED vars /\ LossInv /\ CleanInv => LossInv' /\ CleanInv'
      BY DEF vars, LossInv, CleanInv, Start, End, StreamEnd
    <3> QED
      BY <3>1
  <2>0. /\ Placed /\ pointsUpTo' = pointsUpTo /\ strays' = strays
        /\ \A i : End(i)' = End(i) /\ Start(i)' = Start(i)
        /\ StreamEnd' = StreamEnd
        /\ received \in Nat /\ begin \in Nat /\ begin <= received
        /\ HeaderUnits \in Nat \ {0} /\ SearchUnits \in Nat /\ HeaderUnits < SearchUnits
    BY BaseFacts, Frame, SameStream
  <2>p. \A i \in Packets : /\ Start(i) \in Nat /\ End(i) \in Nat
                           /\ Start(i) + SearchUnits <= End(i)
    BY <2>0, Positions
  <2>1. CASE Read
    BY <2>0, <2>1 DEF Read, LossInv, CleanInv
  <2>2. CASE NoHeader
    <3>1. /\ begin' = received /\ received' = received /\ pc' = "read"
          /\ extracted' = extracted /\ skipped' = skipped
          /\ cut' = cut \cup {i \in Packets : Start(i) \in Magics}
      BY <2>2, NoHeaderStep
    <3>2. \A i \in Packets : begin <= Start(i) /\ Start(i) < received => Start(i) \in Magics
      BY <2>0, <2>p DEF Magics
    <3>3. ASSUME NEW i \in Packets, Start(i) < received
          PROVE  i \in extracted' \cup cut' \cup skipped'
      <4>1. Start(i) < begin \/ begin <= Start(i)
        BY <2>0, <2>p
      <4> QED
        BY <3>1, <3>2, <3>3, <4>1 DEF LossInv
    <3>4. ASSUME NEW i \in Packets, received <= Start(i)
          PROVE  received < End(i)
      BY <2>0, <2>p, <3>4
    <3>5. LossInv'
      BY <2>0, <3>1, <3>3, <3>4 DEF LossInv
    <3>6. CleanInv'
      <4> SUFFICES ASSUME cut' = {}
                   PROVE  /\ skipped' = {} /\ pc' # "dead"
                          /\ begin' = StreamEnd \/ \E i \in Packets : begin' = Start(i)
        BY <2>0 DEF CleanInv
      <4>1. cut = {} /\ \A i \in Packets : Start(i) \notin Magics
        BY <3>1
      <4>2. begin = StreamEnd \/ \E i \in Packets : begin = Start(i)
        BY <4>1 DEF CleanInv
      <4>3. CASE begin = StreamEnd
        <5>1. received = StreamEnd
          BY <4>3, BaseFacts
        <5> QED
          BY <3>1, <4>1, <5>1 DEF CleanInv
      <4>4. ASSUME NEW i \in Packets, begin = Start(i)
            PROVE  begin' = begin
        BY <2>0, <3>1, <3>2, <4>1, <4>4
      <4> QED
        BY <3>1, <4>1, <4>2, <4>3, <4>4 DEF CleanInv
    <3> QED
      BY <3>5, <3>6
  <2>3. CASE PartialPacket
    <3>1. /\ HasMagic /\ begin' = Found /\ pc' = "read" /\ received' = received
          /\ extracted' = extracted /\ cut' = cut /\ skipped' = skipped
      BY <2>3, PartialStep
    <3>2. PICK h \in Readable : ~IsWhole(h)
      BY <2>3, PartialStep
    <3>3. /\ Found \in Nat /\ begin <= Found /\ Found < received
          /\ Found \in DOMAIN strays \/ \E i \in Packets : Found = Start(i)
          /\ \A i \in Packets : begin <= Start(i) /\ Start(i) < received => Found <= Start(i)
      BY <3>1, FoundFacts
    <3>4. ASSUME NEW i \in Packets, Start(i) < Found
          PROVE  i \in extracted \cup cut \cup skipped
      <4>1. Start(i) < begin
        BY <2>0, <2>p, <3>3, <3>4
      <4> QED
        BY <4>1 DEF LossInv
    <3>5. ASSUME NEW i \in Packets, Found = Start(i)
          PROVE  received < End(i)
      <4>1. Found \notin DOMAIN strays
        BY <3>5 DEF Base, Straying
      <4>2. CASE Found + HeaderUnits > received
        BY <2>0, <2>p, <3>3, <3>5, <4>2
      <4>3. CASE ~(Found + HeaderUnits > received)
        <5>1. h \in {Header(k) : k \in {j \in Packets : Start(j) = Found}}
          BY <4>1, <4>3 DEF Readable
        <5>2. PICK k \in Packets : Start(k) = Found /\ h = Header(k)
          BY <5>1
        <5>3. received < End(k)
          BY <2>0, <2>p, <3>1, <3>2, <5>2, OfPacketFacts DEF OfPacket
        <5>4. k = i
          BY <2>0, <2>p, <3>5, <5>2, Order DEF Packets
        <5> QED
          BY <5>3, <5>4
      <4> QED
        BY <4>2, <4>3
    <3>8. ASSUME NEW i \in Packets, Found <= Start(i),
                 ~(Found \in DOMAIN strays /\ Found < Start(i))
          PROVE  received < End(i)
      <4>1. CASE Found = Start(i)
        BY <3>5, <4>1
      <4>2. CASE Found # Start(i)
        <5>1. Found < Start(i)
          BY <2>p, <3>3, <3>8, <4>2
        <5>2. PICK k \in Packets : Found = Start(k)
          BY <3>3, <3>8, <5>1
        <5>3. End(k) <= Start(i) /\ received < End(k)
          BY <2>0, <3>5, <5>1, <5>2, Order
        <5> QED
          BY <2>0, <2>p, <5>3
      <4> QED
        BY <4>1, <4>2
    <3>6. LossInv'
      BY <2>0, <3>1, <3>4, <3>8 DEF LossInv
    <3>7. CleanInv'
      BY <2>0, <3>1, CleanFound DEF CleanInv
    <3> QED
      BY <3>6, <3>7
  <2>4. CASE WholePacket
    <3>1. HasMagic /\ cut' = cut /\ pc' = "extract"
      BY <2>4, WholeStep
    <3>2. PICK h \in Readable : Taken(h)
      BY <2>4, WholeStep
    <3>3. /\ IsWhole(h) /\ begin' = Found + h.header + PointsRead(h)
          /\ extracted' = extracted \cup ({h.packet} \ {0})
          /\ skipped' = skipped \cup
               {i \in Packets : i # h.packet /\ Start(i) \in Found..(begin' - 1)}
      BY <3>2 DEF Taken
    <3>4. /\ Found \in Nat /\ begin <= Found /\ Found < received
          /\ \A i \in Packets : begin <= Start(i) /\ Start(i) < received => Found <= Start(i)
      BY <3>1, FoundFacts
    <3>5. begin' \in Nat /\ begin' <= received
      BY <3>1, <3>3, PointsReadFacts
    <3>6. ASSUME NEW i \in Packets, Start(i) < begin'
          PROVE  i \in extracted' \cup cut' \cup skipped'
      <4>1. Start(i) < begin \/ Start(i) \in Found..(begin' - 1)
        BY <2>0, <2>p, <3>4, <3>5, <3>6
      <4>2. i # 0
        BY DEF Packets
      <4> QED
        BY <3>1, <3>3, <4>1, <4>2 DEF LossInv
    <3>7. LossInv'
      BY <2>0, <3>1, <3>6 DEF LossInv
    <3>8. CleanInv'
      <4> SUFFICES ASSUME cut = {}
                   PROVE  /\ skipped' = {} /\ pc' # "dead"
                          /\ begin' = StreamEnd \/ \E i \in Packets : begin' = Start(i)
        BY <2>0, <3>1 DEF CleanInv
      <4>1. PICK i \in Packets : Found = begin /\ OfPacket(h, i) /\ h.packet = i
        BY <3>1, CleanFound
      <4>2. begin' = End(i) /\ Found = Start(i)
        BY <3>1, <3>3, <4>1, OfPacketFacts DEF OfPacket
      <4>3. ASSUME NEW j \in Packets, j # i, Start(j) \in Found..(begin' - 1)
            PROVE  FALSE
        <5>1. Start(i) <= Start(j) /\ Start(j) < End(i) /\ i \in Nat /\ j \in Nat
          BY <2>p, <4>2, <4>3 DEF Packets
        <5> QED
          BY <2>0, <2>p, <4>3, <5>1, Order
      <4>4. skipped' = {}
        BY <3>3, <4>1, <4>3 DEF CleanInv
      <4> QED
        BY <2>0, <3>1, <4>2, <4>4, Follower
    <3> QED
      BY <3>7, <3>8
  <2>5. CASE PayloadFails
    <3>1. /\ HasMagic /\ pc' = "dead" /\ begin' = begin /\ received' = received
          /\ extracted' = extracted /\ cut' = cut /\ skipped' = skipped
      BY <2>5, FailStep
    <3>2. LossInv'
      BY <2>0, <3>1 DEF LossInv
    <3>3. cut # {}
      BY <2>5, <3>1, FailStep, CleanFound
    <3> QED
      BY <3>1, <3>2, <3>3 DEF CleanInv
  <2> QED
    BY <2>1, <2>2, <2>3, <2>4, <2>5 DEF Next
<1> QED
  BY <1>1, <1>2, BaseHolds, PTL DEF Spec

\* However the reads cut the stream, extractScanPacketFromByteRange finds its
\* way back to the next packet: at the end of a reception every packet received
\* whole has been extracted, unless a read cut its header or it is behind the
\* magic of something that was no header, which only a cut makes it look at.
THEOREM LossesAreCuts == Spec => []OnlyCutHeadersAreLost
<1>1. Base /\ LossInv /\ CleanInv => OnlyCutHeadersAreLost
  <2> SUFFICES ASSUME Base, LossInv, CleanInv PROVE OnlyCutHeadersAreLost
    OBVIOUS
  <2>1. ASSUME pc = "read", NEW i \in Packets, End(i) <= received
        PROVE  i \in extracted \cup cut \cup skipped
               \/ (begin \in DOMAIN strays /\ begin < Start(i))
    <3>1. Start(i) \in Nat /\ End(i) \in Nat /\ received \in Nat /\ begin \in Nat
      BY BaseFacts, Positions
    <3>2. CASE begin <= Start(i)
      BY <2>1, <3>1, <3>2 DEF LossInv
    <3>3. CASE ~(begin <= Start(i))
      BY <3>1, <3>3 DEF LossInv
    <3> QED
      BY <3>2, <3>3
  <2>2. cut = {} => skipped = {} /\ begin \notin DOMAIN strays /\ pc # "dead"
    <3>1. StreamEnd \notin DOMAIN strays /\ \A i \in Packets : Start(i) \notin DOMAIN strays
      BY BaseFacts DEF Base, Straying
    <3> QED
      BY <3>1 DEF CleanInv
  <2> QED
    BY <2>1, <2>2 DEF OnlyCutHeadersAreLost
<1> QED
  BY <1>1, BaseHolds, LossHolds, PTL

-----------------------------------------------------------------------------
(* The extraction buffer                                                   *)

\* Between receptions the buffer holds less than a header, or the beginning of
\* what the next read does not go beyond.
AtRest ==
  \/ Available < SearchUnits
  \/ \E i \in Packets : Available + want <= End(i) - Start(i)
  \/ cut # {} /\ \E h \in Inventions : Available + want <= h.size

BufferInv == (pc = "read" => AtRest) /\ BufferBounded

LEMMA BufferHolds == Spec => []BufferInv
<1>1. Init => BufferInv
  <2> SUFFICES ASSUME Init PROVE BufferInv
    OBVIOUS
  <2>1. capacity \in Nat /\ SearchUnits \in Nat \ {0} /\ HeaderUnits \in Nat \ {0}
    BY TcpAssumption DEF Init
  <2>2. Available = 0
    BY DEF Init, Available
  <2> QED
    BY <2>1, <2>2 DEF Init, BufferInv, BufferBounded, AtRest
<1>2. Base /\ CleanInv /\ BufferInv /\ [Next]_vars => BufferInv'
  <2> SUFFICES ASSUME Base, CleanInv, BufferInv, Next PROVE BufferInv'
    <3>1. UNCHANGED vars /\ BufferInv => BufferInv'
      BY DEF vars, BufferInv, BufferBounded, AtRest, Available, Start, End
    <3> QED
      BY <3>1
  <2>0. /\ Placed /\ \A i : End(i)' = End(i) /\ Start(i)' = Start(i)
        /\ received \in Nat /\ begin \in Nat /\ begin <= received
        /\ capacity \in Nat /\ want \in Nat /\ 1 <= want /\ want <= capacity
        /\ SearchUnits \in Nat /\ HeaderUnits \in Nat \ {0} /\ HeaderUnits < SearchUnits
        /\ Available \in Nat
    BY BaseFacts, Frame, SameStream DEF Available
  <2>s. /\ \A i \in Packets : End(i) - Start(i) \in Int
        /\ \A h \in Inventions : h.size \in Nat
    BY <2>0, Positions, TcpAssumption DEF HeaderType
  <2>1. CASE Read
    <3>1. /\ Available' = Available + want /\ capacity' = capacity /\ cut' = cut
          /\ pc' = "extract" /\ AtRest
      BY <2>0, <2>1 DEF Read, BufferInv, Available
    <3>2. CASE Available < SearchUnits
      <4>1. Available' <= SearchUnits - 1 + capacity'
        BY <2>0, <3>1, <3>2
      <4> QED
        BY <3>1, <4>1 DEF BufferInv, BufferBounded
    <3>3. CASE ~(Available < SearchUnits)
      BY <2>0, <3>1, <3>3 DEF BufferInv, BufferBounded, AtRest
    <3> QED
      BY <3>2, <3>3
  <2>2. CASE NoHeader
    <3>1. Available' = 0 /\ capacity' \in Nat /\ pc' = "read"
      <4>1. /\ begin' = received /\ received' = received /\ pc' = "read"
            /\ capacity' \in capacity..MaxReceptionSize
        BY <2>2, NoHeaderStep
      <4>2. MaxReceptionSize \in Nat
        BY TcpAssumption
      <4>3. Available' = 0
        BY <2>0, <4>1 DEF Available
      <4>4. capacity' \in Nat
        BY <2>0, <4>1, <4>2
      <4> QED
        BY <4>1, <4>3, <4>4
    <3>2. /\ Available' < SearchUnits /\ Available' <= SearchUnits - 1 + capacity'
      <4>1. Available' = 0 /\ capacity' \in Nat
        BY <3>1
      <4>2. \A s \in Nat \ {0}, c \in Nat : 0 < s /\ 0 <= s - 1 + c
        OBVIOUS
      <4>3. SearchUnits \in Nat \ {0}
        BY <2>0
      <4>4. 0 < SearchUnits /\ 0 <= SearchUnits - 1 + capacity'
        BY ONLY <4>1, <4>2, <4>3, Zenon
      <4> QED
        BY ONLY <4>1, <4>4, Zenon
    <3> QED
      BY <3>1, <3>2 DEF BufferInv, BufferBounded, AtRest
  <2>3. CASE PartialPacket
    <3>1. /\ HasMagic /\ begin' = Found /\ pc' = "read" /\ received' = received /\ cut' = cut
          /\ want' \in 1..capacity
      BY <2>3, PartialStep
    <3>2. PICK h \in Readable : received + want' <= Found + h.size
      BY <2>3, PartialStep
    <3>3. /\ h \in HeaderType /\ Found \in Nat /\ Found < received /\ h.size \in Nat
          /\ \/ h.packet = 0 /\ h \in Inventions
             \/ \E i \in Packets : OfPacket(h, i) /\ h.packet = i
      BY <3>1, ReadableFacts, FoundFacts DEF HeaderType
    <3>4. Available' + want' <= h.size /\ Available' <= h.size
      BY <2>0, <3>1, <3>2, <3>3 DEF Available
    <3>5. CASE h.packet = 0 /\ h \in Inventions
      <4>1. cut # {}
        <5> SUFFICES ASSUME cut = {} PROVE FALSE
          OBVIOUS
        <5>1. PICK i \in Packets : h.packet = i
          BY <3>1, CleanFound
        <5> QED
          BY <3>5, <5>1 DEF Packets
      <4> QED
        BY <3>1, <3>4, <3>5, <4>1 DEF BufferInv, BufferBounded, AtRest
    <3>6. ASSUME NEW i \in Packets, OfPacket(h, i)
          PROVE  BufferInv'
      <4>1. h.size = End(i) - Start(i)
        <5>1. Start(i) + h.size = End(i) /\ Start(i) \in Nat /\ End(i) \in Nat
          BY <2>0, <3>6, HeaderFacts, Positions DEF OfPacket
        <5> QED
          BY <3>3, <5>1
      <4>2. /\ Available' + want' <= End(i)' - Start(i)' /\ Available' <= End(i)' - Start(i)'
        BY <2>0, <3>4, <4>1
      <4> QED
        BY <4>2 DEF BufferInv, BufferBounded, AtRest
    <3> QED
      BY <3>3, <3>5, <3>6
  <2>4. CASE WholePacket
    <3>1. /\ HasMagic /\ pc' = "extract" /\ received' = received /\ capacity' = capacity
          /\ cut' = cut
      BY <2>4, WholeStep
    <3>2. /\ Available' \in Int /\ Available' <= Available
      BY <2>0, <3>1, Forward DEF Available
    <3> QED
      BY <2>0, <2>s, <3>1, <3>2 DEF BufferInv, BufferBounded
  <2>5. CASE PayloadFails
    <3>1. /\ pc' = "dead" /\ Available' = Available /\ capacity' = capacity /\ cut' = cut
      BY <2>5, FailStep DEF Available
    <3> QED
      BY <2>0, <3>1 DEF BufferInv, BufferBounded
  <2> QED
    BY <2>1, <2>2, <2>3, <2>4, <2>5 DEF Next
<1> QED
  BY <1>1, <1>2, BaseHolds, LossHolds, PTL DEF Spec

\* The sizes onBytesReceived asks for keep the extraction buffer below the
\* packet at its start, or one reception behind a header that was cut, or what
\* a misread header announced, however long the link runs.
THEOREM BufferStaysBounded == Spec => []BufferBounded
<1>1. BufferInv => BufferBounded
  BY DEF BufferInv
<1> QED
  BY <1>1, BufferHolds, PTL

-----------------------------------------------------------------------------
(* What is output                                                          *)

\* Two scans with one number are a turn of the counter apart.
LEMMA SameNumber ==
  ASSUME Placed, NEW i \in Packets, NEW j \in Packets,
         scanNumber(Header(i)) = scanNumber(Header(j)), ScanOf(i) < ScanOf(j)
  PROVE  Header(i).scan + 2 ^ ScanNumberBits <= Header(j).scan
<1> DEFINE m == 2 ^ ScanNumberBits
           a == ScanOf(i)
           b == ScanOf(j)
<1>1. a \in Nat /\ b \in Nat /\ a < b
  BY ScanFacts DEF ScanNumbers
<1>2. m \in Nat \ {0}
  <2>1. 2 ^ ScanNumberBits \in Int /\ 2 ^ ScanNumberBits > 0
    BY ScanNumberAssumption
  <2> QED
    BY <2>1
<1>3. a % m = b % m
  BY HeaderFacts DEF scanNumber
<1> SUFFICES a + m <= b
  BY HeaderFacts
<1> HIDE DEF m, a, b
<1>4. /\ a \div m \in Nat /\ b \div m \in Nat /\ a % m \in 0..(m - 1)
      /\ a = (a \div m) * m + (a % m) /\ b = (b \div m) * m + (b % m)
  BY <1>1, <1>2, Division
<1> DEFINE x == a \div m
           y == b \div m
           r == a % m
<1>5. /\ x \in Nat /\ y \in Nat /\ r \in 0..(m - 1)
      /\ a = x * m + r /\ b = y * m + r
  BY <1>3, <1>4
<1> HIDE DEF x, y, r
<1>6. ASSUME NEW u \in Nat, NEW v \in Nat, u < v
      PROVE  u * m + m <= v * m
  <2>1. v - u - 1 \in Nat /\ v = u + 1 + (v - u - 1)
    BY <1>6
  <2>2. \A d \in Nat : (u + 1 + d) * m = u * m + m + d * m /\ d * m \in Nat
    BY <1>2
  <2>3. (v - u - 1) * m \in Nat /\ v * m = u * m + m + (v - u - 1) * m
    BY <2>1, <2>2
  <2>4. u * m \in Nat /\ v * m \in Nat
    BY <1>2
  <2> HIDE <2>1, <2>2
  <2> QED
    BY <1>2, <2>3, <2>4
<1>7. x * m \in Nat /\ y * m \in Nat
  BY <1>2, <1>5
<1>8. x < y
  <2>1. y < x => y * m + m <= x * m
    BY <1>5, <1>6
  <2>2. x = y => a = b
    BY <1>5
  <2> QED
    BY <1>1, <1>2, <1>5, <1>7, <2>1, <2>2
<1>9. x * m + m <= y * m
  BY <1>5, <1>6, <1>8
<1> QED
  BY <1>2, <1>5, <1>7, <1>9

\* The points of the packets of its scan up to packet i.
PointsFrom(i) == pointsUpTo[i] - pointsUpTo[FirstOf(ScanOf(i)) - 1]

\* A factory holds the packets of a scan from the first to packet i.
HoldsUpTo(f, i) ==
  LET first == FirstOf(ScanOf(i))
  IN  /\ Len(f.packets) = i - first + 1
      /\ \A k \in 1..(i - first + 1) : f.packets[k] = Header(first + k - 1)

\* The packets of a factory are of one scan and come no later than packet i, so
\* that it has all the points up to i only if it has all the packets.
Follows(f, i) ==
  /\ f.packets[Len(f.packets)] = Header(i)
  /\ f.packets[1].numPointsScan = PointsOf(ScanOf(i))
  /\ f.points <= PointsFrom(i)
  /\ f.points = PointsFrom(i) => HoldsUpTo(f, i)

\* So it is, unless something misread or of another turn is among them.
Doubtful(packets) == Misread(packets) \/ Turned(packets)

FactoryInv ==
  \/ IsEmpty(scanFactory) \/ Doubtful(scanFactory.packets)
  \/ \E i \in Packets : End(i) <= begin /\ Follows(scanFactory, i)

WholeScan(s) == [n \in 1..PacketsPerScan |-> Header(s * PacketsPerScan + n)]

OutputsInv ==
  /\ \A k \in DOMAIN outputs :
       \/ Doubtful(outputs[k])
       \/ \E s \in ScanNumbers : outputs[k] = WholeScan(s) /\ End(LastOf(s)) <= begin
  /\ \A j, k \in DOMAIN outputs :
       j < k /\ ~Doubtful(outputs[j]) /\ ~Doubtful(outputs[k])
         => outputs[j][1].scan < outputs[k][1].scan

\* The points of a scan up to a packet.
LEMMA PointsFromFacts ==
  ASSUME Placed, NEW i \in Packets
  PROVE  /\ PointsFrom(i) \in Nat
         /\ PointsFrom(i) <= PointsOf(ScanOf(i))
         /\ PointsFrom(i) = PointsOf(ScanOf(i)) => i = LastOf(ScanOf(i))
         /\ Header(i).points <= PointsFrom(i)
         /\ Header(i).points = PointsFrom(i) => i = FirstOf(ScanOf(i))
         /\ \A j \in Packets :
              ScanOf(j) = ScanOf(i) /\ j < i
                => /\ PointsFrom(j) + Header(i).points <= PointsFrom(i)
                   /\ PointsFrom(j) + Header(i).points = PointsFrom(i) => j = i - 1
<1> DEFINE s == ScanOf(i)
           l(k) == pointsUpTo[k]
<1>1. /\ s \in ScanNumbers /\ i \in FirstOf(s)..LastOf(s)
      /\ FirstOf(s) \in Packets /\ LastOf(s) \in Packets
  BY ScanFacts
<1>2. \A k \in 0..PacketCount : l(k) \in Nat
  BY LayoutFacts
<1>3. /\ i \in 0..PacketCount /\ i - 1 \in 0..PacketCount /\ FirstOf(s) - 1 \in 0..PacketCount
      /\ LastOf(s) \in 0..PacketCount /\ i \in Nat /\ FirstOf(s) \in Nat /\ LastOf(s) \in Nat
  BY <1>1, LayoutFacts DEF Packets
<1>4. /\ Header(i).points = l(i) - l(i - 1) /\ PointsFrom(i) = l(i) - l(FirstOf(s) - 1)
      /\ PointsOf(s) = l(LastOf(s)) - l(FirstOf(s) - 1)
  BY <1>1, HeaderFacts, PointsOfScan DEF PointsFrom
<1>5. \A j, k \in 0..PacketCount : j < k => l(j) < l(k)
  BY PointsIncrease
<1>6. ASSUME NEW j \in Packets, ScanOf(j) = s
      PROVE  PointsFrom(j) = l(j) - l(FirstOf(s) - 1)
  BY <1>6 DEF PointsFrom
<1> HIDE DEF l
<1>7. PointsFrom(i) \in Nat /\ Header(i).points <= PointsFrom(i)
      /\ (Header(i).points = PointsFrom(i) => i = FirstOf(s))
  <2>1. FirstOf(s) - 1 < i - 1 \/ FirstOf(s) - 1 = i - 1
    BY <1>1, <1>3
  <2>2. i - 1 < i /\ l(i - 1) < l(i)
    BY <1>3, <1>5
  <2>3. CASE FirstOf(s) - 1 < i - 1
    <3>1. l(FirstOf(s) - 1) < l(i - 1)
      BY <1>3, <1>5, <2>3
    <3> QED
      BY <1>2, <1>3, <1>4, <2>2, <3>1
  <2>4. CASE FirstOf(s) - 1 = i - 1
    <3>1. i = FirstOf(s)
      BY <1>3, <2>4
    <3> QED
      BY <1>2, <1>3, <1>4, <2>2, <3>1
  <2> QED
    BY <2>1, <2>3, <2>4
<1>8. PointsFrom(i) <= PointsOf(s) /\ (PointsFrom(i) = PointsOf(s) => i = LastOf(s))
  <2>1. i < LastOf(s) \/ i = LastOf(s)
    BY <1>1, <1>3
  <2>2. CASE i < LastOf(s)
    <3>1. l(i) < l(LastOf(s))
      BY <1>3, <1>5, <2>2
    <3> QED
      BY <1>2, <1>3, <1>4, <3>1
  <2>3. CASE i = LastOf(s)
    BY <1>2, <1>3, <1>4, <2>3
  <2> QED
    BY <2>1, <2>2, <2>3
<1>9. ASSUME NEW j \in Packets, ScanOf(j) = s, j < i
      PROVE  /\ PointsFrom(j) + Header(i).points <= PointsFrom(i)
             /\ PointsFrom(j) + Header(i).points = PointsFrom(i) => j = i - 1
  <2>1. /\ PointsFrom(j) = l(j) - l(FirstOf(s) - 1)
        /\ j \in 0..PacketCount /\ j \in Nat
    BY <1>6, <1>9, LayoutFacts DEF Packets
  <2>2. j < i - 1 \/ j = i - 1
    BY <1>3, <1>9, <2>1
  <2>3. CASE j < i - 1
    <3>1. l(j) < l(i - 1)
      BY <1>3, <1>5, <2>1, <2>3
    <3> QED
      BY <1>2, <1>3, <1>4, <2>1, <3>1
  <2>4. CASE j = i - 1
    BY <1>2, <1>3, <1>4, <2>1, <2>4
  <2> QED
    BY <2>2, <2>3, <2>4
<1> QED
  BY <1>7, <1>8, <1>9

\* The packets of a scan up to its last are the whole scan.
LEMMA HoldsWhole ==
  ASSUME Placed, NEW f, f.packets \in Seq(HeaderType), NEW s \in ScanNumbers,
         HoldsUpTo(f, LastOf(s))
  PROVE  f.packets = WholeScan(s) /\ Len(f.packets) = PacketsPerScan
<1> DEFINE q == f.packets
<1>1. /\ LastOf(s) \in Packets /\ FirstOf(s) \in Packets
      /\ LastOf(s) = FirstOf(s) + PacketsPerScan - 1
  BY ScanFacts
<1>2. PacketsPerScan \in Nat \ {0} /\ FirstOf(s) \in Nat /\ LastOf(s) \in Nat
  BY <1>1, LayoutFacts DEF Packets
<1>3. ScanOf(LastOf(s)) = s
  BY <1>1, <1>2, Within
<1>4. LastOf(s) - FirstOf(s) + 1 = PacketsPerScan
  BY <1>1, <1>2
<1>5. Len(q) = PacketsPerScan /\ \A k \in 1..PacketsPerScan : q[k] = Header(FirstOf(s) + k - 1)
  BY <1>3, <1>4 DEF HoldsUpTo
<1>6. \A k \in 1..PacketsPerScan : FirstOf(s) + k - 1 = s * PacketsPerScan + k
  <2>1. s * PacketsPerScan \in Int
    BY <1>2 DEF ScanNumbers
  <2> QED
    BY <2>1 DEF FirstOf
<1>7. \A k \in 1..PacketsPerScan : q[k] = Header(s * PacketsPerScan + k)
  BY <1>5, <1>6
<1>8. q = [k \in 1..PacketsPerScan |-> q[k]]
  BY <1>5, LenProperties
<1> QED
  BY <1>5, <1>7, <1>8 DEF WholeScan

\* A scan's first packet names the scan.
LEMMA WholeScanFacts ==
  ASSUME Placed, NEW s \in ScanNumbers
  PROVE  WholeScan(s)[1].scan = s
<1>1. PacketsPerScan \in Nat \ {0}
  BY LayoutFacts
<1>2. FirstOf(s) \in Packets /\ ScanOf(FirstOf(s)) = s
  <2>1. /\ FirstOf(s) \in Packets /\ LastOf(s) \in Packets
        /\ LastOf(s) = FirstOf(s) + PacketsPerScan - 1
    BY ScanFacts
  <2>2. FirstOf(s) \in FirstOf(s)..LastOf(s)
    BY <1>1, <2>1 DEF Packets
  <2> QED
    BY <2>1, <2>2, Within
<1>3. WholeScan(s)[1] = Header(FirstOf(s))
  BY <1>1 DEF WholeScan, FirstOf
<1> QED
  BY <1>2, <1>3, HeaderFacts

\* A factory with all the points of the scan of its first packet holds the scan.
LEMMA CompleteIsWhole ==
  ASSUME Placed, NEW f, f.packets \in Seq(HeaderType), f.points \in Nat, NEW i \in Packets,
         Follows(f, i), f.points >= f.packets[1].numPointsScan
  PROVE  i = LastOf(ScanOf(i)) /\ f.packets = WholeScan(ScanOf(i))
<1>1. /\ PointsFrom(i) \in Nat /\ PointsFrom(i) <= PointsOf(ScanOf(i))
      /\ PointsFrom(i) = PointsOf(ScanOf(i)) => i = LastOf(ScanOf(i))
      /\ ScanOf(i) \in ScanNumbers
  BY PointsFromFacts, ScanFacts
<1>2. PointsOf(ScanOf(i)) \in Nat
  BY <1>1, PointsOfScan
<1>3. /\ f.points >= PointsOf(ScanOf(i)) /\ f.points <= PointsFrom(i)
      /\ f.points = PointsFrom(i) => HoldsUpTo(f, i)
  BY DEF Follows
<1>4. i = LastOf(ScanOf(i)) /\ HoldsUpTo(f, i)
  BY <1>1, <1>2, <1>3
<1> QED
  BY <1>1, <1>4, HoldsWhole

\* A packet added behind those the factory holds keeps it what it is.
LEMMA ExtendedFollows ==
  ASSUME Base, FactoryInv, NEW i \in Packets, begin <= Start(i)
  PROVE  LET f == Extended(Header(i)) IN Doubtful(f.packets) \/ Follows(f, i)
<1> DEFINE f == Extended(Header(i))
           n == Len(f.packets) - 1
           q == scanFactory.packets
           first == FirstOf(ScanOf(i))
<1>0. /\ Placed /\ i \in Nat /\ first \in Nat /\ i >= first /\ ScanOf(i) \in ScanNumbers
  <2>1. Placed /\ i \in Packets
    BY BaseFacts
  <2>2. first \in Packets /\ i \in first..LastOf(ScanOf(i)) /\ ScanOf(i) \in ScanNumbers
    BY <2>1, ScanFacts
  <2> QED
    BY <2>1, <2>2 DEF Packets
<1>1. /\ f.packets \in Seq(HeaderType) /\ n \in Nat /\ f.packets[n + 1] = Header(i)
      /\ n + 1 = Len(f.packets) /\ f.points \in Nat
      /\ DOMAIN f.packets = 1..(n + 1)
      /\ \/ n = 0 /\ f.points = Header(i).points
         \/ /\ n = Len(q) /\ n > 0
            /\ f.points = scanFactory.points + Header(i).points
            /\ scanNumber(q[n]) = scanNumber(Header(i))
            /\ \A k \in 1..n : f.packets[k] = q[k]
  <2>0. Header(i) \in HeaderType
    BY <1>0, HeaderFacts
  <2>1. f.packets \in Seq(HeaderType) /\ n \in Nat
    BY <2>0, ExtendedFacts
  <2>2. n + 1 = Len(f.packets)
    BY <2>1, LenProperties
  <2> QED
    BY <2>0, <2>1, <2>2, ExtendedFacts
<1> HIDE DEF f, n, first
<1>2. CASE n = 0 /\ f.points = Header(i).points
  <2>1. Len(f.packets) = 1 /\ f.packets[1] = Header(i)
    BY <1>1, <1>2
  <2>2. /\ f.points <= PointsFrom(i)
        /\ f.points = PointsFrom(i) => i = first
    BY <1>0, <1>2, PointsFromFacts DEF first
  <2>3. i = first => HoldsUpTo(f, i)
    <3> HAVE i = first
    <3>1. i - first + 1 = 1 /\ \A k \in 1..1 : first + k - 1 = i
      BY <1>0
    <3>2. \A k \in 1..(i - first + 1) : f.packets[k] = Header(first + k - 1)
      BY <2>1, <3>1
    <3> QED
      BY <2>1, <3>1, <3>2 DEF HoldsUpTo, first
  <2>4. Header(i).numPointsScan = PointsOf(ScanOf(i))
    BY <1>0, HeaderFacts
  <2> QED
    BY <2>1, <2>2, <2>3, <2>4 DEF Follows, f
<1>3. CASE /\ n = Len(q) /\ n > 0
           /\ f.points = scanFactory.points + Header(i).points
           /\ scanNumber(q[n]) = scanNumber(Header(i))
           /\ \A k \in 1..n : f.packets[k] = q[k]
  <2>0. DOMAIN q = 1..n
    <3>1. q \in Seq(HeaderType)
      BY DEF Base, Factories
    <3> QED
      BY <1>3, <3>1, LenProperties
  <2>1. ~IsEmpty(scanFactory)
    BY <1>3, EmptySeq DEF IsEmpty
  <2>d. CASE Doubtful(q)
    <3>1. DOMAIN q \subseteq DOMAIN f.packets /\ \A k \in DOMAIN q : f.packets[k] = q[k]
      BY <1>1, <1>3, <2>0
    <3>2. Misread(q) => Misread(f.packets)
      BY <3>1 DEF Misread
    <3>3. Turned(q) => Turned(f.packets)
      BY <3>1 DEF Turned
    <3> QED
      BY <2>d, <3>2, <3>3 DEF Doubtful, f
  <2>f. CASE ~Doubtful(q)
    <3>2. PICK j \in Packets : End(j) <= begin /\ Follows(scanFactory, j)
      BY <2>1, <2>f DEF FactoryInv
    <3>3. /\ q[n] = Header(j) /\ q[1].numPointsScan = PointsOf(ScanOf(j))
          /\ scanFactory.points <= PointsFrom(j)
          /\ scanFactory.points = PointsFrom(j) => HoldsUpTo(scanFactory, j)
      BY <1>3, <3>2 DEF Follows
    <3>5. j < i /\ j \in Nat
      <4>1. /\ End(j) \in Nat /\ Start(i) \in Nat /\ End(i) \in Nat /\ begin \in Nat
            /\ Start(i) + SearchUnits <= End(i) /\ SearchUnits \in Nat \ {0}
        BY <1>0, BaseFacts, Positions, TcpAssumption
      <4>2. End(j) < End(i)
        BY <3>2, <4>1
      <4> QED
        BY <1>0, <4>2, Order DEF Packets
    <3>4. CASE ScanOf(j) # ScanOf(i)
      <4>1. ScanOf(j) < ScanOf(i)
        <5>1. /\ ScanOf(j) \in ScanNumbers /\ j \in FirstOf(ScanOf(j))..LastOf(ScanOf(j))
              /\ i \in FirstOf(ScanOf(i))..LastOf(ScanOf(i))
              /\ FirstOf(ScanOf(j)) \in Packets /\ LastOf(ScanOf(i)) \in Packets
          BY <1>0, ScanFacts
        <5>2. ScanOf(i) < ScanOf(j) => LastOf(ScanOf(i)) < FirstOf(ScanOf(j))
          BY <1>0, <5>1, ScanFacts
        <5>3. ~(ScanOf(i) < ScanOf(j))
          BY <1>0, <3>5, <5>1, <5>2 DEF Packets
        <5> QED
          BY <1>0, <3>4, <5>1, <5>3 DEF ScanNumbers
      <4>2. Header(j).scan + 2 ^ ScanNumberBits <= Header(i).scan
        BY <1>0, <1>3, <3>3, <4>1, SameNumber
      <4>3. /\ n \in DOMAIN f.packets /\ n + 1 \in DOMAIN f.packets
            /\ f.packets[n] = Header(j) /\ f.packets[n + 1] = Header(i)
        BY <1>1, <1>3, <3>3
      <4>4. Turned(f.packets)
        BY <4>2, <4>3 DEF Turned
      <4> QED
        BY <4>4 DEF Doubtful, f
    <3>s. CASE ScanOf(j) = ScanOf(i)
      <4>6. /\ PointsFrom(j) + Header(i).points <= PointsFrom(i)
            /\ PointsFrom(j) + Header(i).points = PointsFrom(i) => j = i - 1
        BY <1>0, <3>s, <3>5, PointsFromFacts
      <4>7. /\ PointsFrom(i) \in Nat /\ PointsFrom(j) \in Nat /\ scanFactory.points \in Nat
            /\ Header(i).points \in Nat
        BY <1>0, PointsFromFacts, HeaderFacts DEF Base, Factories
      <4>8. f.points <= PointsFrom(i)
        BY <1>3, <3>3, <4>6, <4>7
      <4>9. ASSUME f.points = PointsFrom(i)
            PROVE  HoldsUpTo(f, i)
        <5>1. scanFactory.points = PointsFrom(j) /\ j = i - 1
          BY <1>3, <3>3, <4>6, <4>7, <4>9
        <5>2. n = j - first + 1 /\ \A k \in 1..(j - first + 1) : q[k] = Header(first + k - 1)
          BY <1>3, <3>3, <3>s, <5>1 DEF HoldsUpTo, first
        <5>3. n + 1 = i - first + 1 /\ first + (n + 1) - 1 = i
          BY <1>0, <5>1, <5>2
        <5>4. \A k \in 1..(n + 1) : f.packets[k] = Header(first + k - 1)
          <6> TAKE k \in 1..(n + 1)
          <6>1. k = n + 1 \/ k \in 1..n
            BY <1>1
          <6>2. CASE k = n + 1
            BY <1>1, <5>3, <6>2
          <6>3. CASE k \in 1..n
            BY <1>3, <5>2, <6>3
          <6> QED
            BY <6>1, <6>2, <6>3
        <5> QED
          BY <1>1, <5>3, <5>4 DEF HoldsUpTo, first
      <4>10. f.packets[1].numPointsScan = PointsOf(ScanOf(i))
        BY <1>1, <1>3, <3>3, <3>s
      <4>11. f.packets[Len(f.packets)] = Header(i)
        BY <1>1
      <4> QED
        BY <4>8, <4>9, <4>10, <4>11 DEF Follows, f
    <3> QED
      BY <3>4, <3>s
  <2> QED
    BY <2>d, <2>f
<1> QED
  BY <1>1, <1>2, <1>3

\* What something misread is added to is doubtful.
LEMMA ExtendedByMisread ==
  ASSUME Base, NEW h \in HeaderType, h.packet = 0
  PROVE  Doubtful(Extended(h).packets)
<1>1. PICK n \in DOMAIN Extended(h).packets : Extended(h).packets[n] = h
  <2> DEFINE p == Extended(h).packets
             n == Len(p) - 1
  <2>1. n \in Nat /\ DOMAIN p = 1..(n + 1) /\ p[n + 1] = h
    BY ExtendedFacts
  <2> HIDE DEF p, n
  <2>2. n + 1 \in DOMAIN p
    BY <2>1
  <2> QED
    BY <2>1, <2>2 DEF p
<1> QED
  BY <1>1 DEF Doubtful, Misread

\* A step that outputs nothing.
LEMMA QuietStep ==
  ASSUME Base, FactoryInv, OutputsInv, pointsUpTo' = pointsUpTo, outputs' = outputs,
         begin <= begin', begin' \in Nat,
         scanFactory' = scanFactory \/ scanFactory' = EmptyFactory
  PROVE  FactoryInv' /\ OutputsInv'
<1>0. /\ Placed /\ begin \in Nat
      /\ \A i : End(i)' = End(i) /\ Header(i)' = Header(i)
      /\ \A s : PointsOf(s)' = PointsOf(s)
  BY BaseFacts, SameStream
<1>1. ASSUME scanFactory' = EmptyFactory
      PROVE  FactoryInv'
  BY <1>1, EmptyTyped DEF FactoryInv, IsEmpty
<1>2. ASSUME scanFactory' = scanFactory
      PROVE  FactoryInv'
  <2>1. CASE IsEmpty(scanFactory) \/ Doubtful(scanFactory.packets)
    BY <1>2, <2>1 DEF FactoryInv, IsEmpty, Doubtful, Misread, Turned
  <2>2. CASE \E i \in Packets : End(i) <= begin /\ Follows(scanFactory, i)
    <3>1. PICK i \in Packets : End(i) <= begin /\ Follows(scanFactory, i)
      BY <2>2
    <3>2. End(i) <= begin'
      BY <1>0, <3>1, Positions
    <3>3. Follows(scanFactory, i)'
      BY <1>0, <1>2, <3>1 DEF Follows, HoldsUpTo, PointsFrom
    <3>4. End(i)' <= begin'
      BY <1>0, <3>2
    <3> QED
      BY <3>3, <3>4 DEF FactoryInv
  <2> QED
    BY <2>1, <2>2 DEF FactoryInv
<1>4. OutputsInv'
  <2>1. \A s : WholeScan(s)' = WholeScan(s)
    BY <1>0 DEF WholeScan
  <2>2. \A s \in ScanNumbers : End(LastOf(s)) <= begin => End(LastOf(s))' <= begin'
    <3> TAKE s \in ScanNumbers
    <3>1. End(LastOf(s)) \in Nat
      BY <1>0, ScanFacts, Positions
    <3> QED
      BY <1>0, <3>1
  <2>3. \A p : Doubtful(p)' <=> Doubtful(p)
    BY DEF Doubtful, Misread, Turned
  <2> QED
    BY <2>1, <2>2 DEF OutputsInv, Doubtful, Misread, Turned
<1> QED
  BY <1>1, <1>2, <1>4

\* A whole packet keeps the invariants, whether it completes a scan or not.
LEMMA WholeKeepsOutputs ==
  ASSUME Base, FactoryInv, OutputsInv, HasMagic, Next, NEW h \in Readable, Taken(h)
  PROVE  FactoryInv' /\ OutputsInv'
<1> DEFINE g == [h EXCEPT !.points = PointsRead(h)]
           f == Extended(g)
<1>0. /\ Placed /\ begin \in Nat /\ begin' \in Nat /\ begin <= begin'
      /\ \A i : End(i)' = End(i) /\ Header(i)' = Header(i)
      /\ \A s : PointsOf(s)' = PointsOf(s) /\ WholeScan(s)' = WholeScan(s)
      /\ pointsUpTo' = pointsUpTo
  <2>1. \A i : Header(i)' = Header(i)
    BY BaseFacts, Frame, SameStream
  <2>2. \A s : WholeScan(s)' = WholeScan(s)
    BY <2>1 DEF WholeScan
  <2> QED
    BY <2>1, <2>2, BaseFacts, Frame, Forward, SameStream
<1>1. /\ IsWhole(h) /\ begin' = Found + h.header + PointsRead(h)
      /\ f.packets[1].numPointsScan \in Nat
      /\ \/ /\ f.points >= f.packets[1].numPointsScan
            /\ scanFactory' = EmptyFactory /\ outputs' = Append(outputs, f.packets)
         \/ scanFactory' = f /\ outputs' = outputs
  BY DEF Taken
<1>2. g \in HeaderType
  BY <1>1, PointsReadFacts
<1>3. f.packets \in Seq(HeaderType) /\ f.points \in Nat
  BY <1>2, ExtendedFacts
\* What the new factory is.
<1>4. \/ Doubtful(f.packets)
      \/ \E i \in Packets : /\ Follows(f, i) /\ begin <= Start(i) /\ begin' = End(i)
  <2>1. CASE h.packet = 0 /\ h \in Inventions
    <3>1. g.packet = 0
      BY <1>2, <2>1, ReadableFacts DEF HeaderType
    <3> HIDE DEF g
    <3> QED
      BY <1>2, <3>1, ExtendedByMisread
  <2>2. ASSUME NEW i \in Packets, OfPacket(h, i)
        PROVE  Doubtful(f.packets) \/ (Follows(f, i) /\ begin <= Start(i) /\ begin' = End(i))
    <3>1. g = Header(i) /\ begin' = End(i)
      BY <1>1, <2>2, OfPacketFacts
    <3>2. begin <= Start(i)
      BY <2>2, FoundFacts DEF OfPacket
    <3> HIDE DEF g
    <3> QED
      BY <3>1, <3>2, ExtendedFollows
  <2> QED
    BY <2>1, <2>2, ReadableFacts
<1> HIDE DEF f, g
<1>5. \A t \in ScanNumbers : /\ End(LastOf(t)) \in Nat /\ LastOf(t) \in Packets
                             /\ End(LastOf(t)) <= begin => End(LastOf(t)) <= begin'
  <2> TAKE t \in ScanNumbers
  <2>1. End(LastOf(t)) \in Nat /\ LastOf(t) \in Packets
    BY <1>0, ScanFacts, Positions
  <2> QED
    BY <1>0, <2>1
<1>6. \A t \in ScanNumbers : End(LastOf(t))' = End(LastOf(t))
  BY <1>0
<1>7. CASE scanFactory' = f /\ outputs' = outputs
  <2>1. FactoryInv'
    <3>1. CASE Doubtful(f.packets)
      BY <1>7, <3>1 DEF FactoryInv, Doubtful, Misread, Turned
    <3>2. ASSUME NEW i \in Packets, Follows(f, i), begin' = End(i)
          PROVE  FactoryInv'
      <4>1. Follows(scanFactory, i)'
        BY <1>0, <1>7, <3>2 DEF Follows, HoldsUpTo, PointsFrom
      <4>2. End(i)' <= begin'
        BY <1>0, <3>2
      <4> QED
        BY <4>1, <4>2 DEF FactoryInv
    <3> QED
      BY <1>4, <3>1, <3>2
  <2>2. OutputsInv'
    BY <1>0, <1>5, <1>6, <1>7 DEF OutputsInv, Doubtful, Misread, Turned
  <2> QED
    BY <2>1, <2>2
<1>8. CASE /\ f.points >= f.packets[1].numPointsScan
           /\ scanFactory' = EmptyFactory /\ outputs' = Append(outputs, f.packets)
  <2>1. FactoryInv'
    BY <1>8, EmptyTyped DEF FactoryInv
  <2>2. /\ DOMAIN outputs = 1..Len(outputs) /\ Len(outputs) \in Nat
        /\ DOMAIN outputs' = 1..(Len(outputs) + 1)
        /\ \A k \in 1..Len(outputs) : outputs'[k] = outputs[k]
        /\ outputs'[Len(outputs) + 1] = f.packets
    <3>1. outputs \in Seq(Seq(HeaderType))
      BY DEF Base
    <3> QED
      BY <1>3, <1>8, <3>1, AppendProperties, LenProperties
  \* The scan that is output, and its place among the others.
  <2>3. \/ Doubtful(f.packets)
        \/ \E s \in ScanNumbers :
             /\ f.packets = WholeScan(s) /\ End(LastOf(s)) <= begin'
             /\ \A t \in ScanNumbers : End(LastOf(t)) <= begin => t < s
    <3> SUFFICES ASSUME NEW i \in Packets, Follows(f, i), begin <= Start(i), begin' = End(i)
                 PROVE  \E s \in ScanNumbers :
                          /\ f.packets = WholeScan(s) /\ End(LastOf(s)) <= begin'
                          /\ \A t \in ScanNumbers : End(LastOf(t)) <= begin => t < s
      BY <1>4
    <3> DEFINE s == ScanOf(i)
    <3>1. i = LastOf(s) /\ f.packets = WholeScan(s) /\ s \in ScanNumbers
      BY <1>0, <1>3, <1>8, CompleteIsWhole, ScanFacts
    <3> HIDE DEF s
    <3>2. ASSUME NEW t \in ScanNumbers, End(LastOf(t)) <= begin
          PROVE  t < s
      <4>1. LastOf(t) < LastOf(s)
        <5>1. Start(i) \in Nat /\ End(i) \in Nat /\ Start(i) < End(i)
          BY <1>0, Positions, TcpAssumption
        <5>2. End(LastOf(t)) < End(i)
          BY <1>0, <1>5, <3>2, <5>1
        <5> QED
          BY <1>0, <1>5, <3>1, <5>2, Order
      <4>2. LastOf(t) \in Nat /\ LastOf(s) \in Nat /\ FirstOf(t) \in Nat /\ FirstOf(s) \in Nat
            /\ FirstOf(t) <= LastOf(t)
        <5>1. /\ FirstOf(t) \in Packets /\ LastOf(t) \in Packets /\ FirstOf(s) \in Packets
              /\ LastOf(s) \in Packets /\ LastOf(t) = FirstOf(t) + PacketsPerScan - 1
          BY <1>0, <3>1, ScanFacts
        <5>2. PacketsPerScan \in Nat \ {0}
          BY <1>0, LayoutFacts
        <5> QED
          BY <5>1, <5>2 DEF Packets
      <4>3. ~(s < t)
        <5>1. s < t => LastOf(s) < FirstOf(t)
          BY <1>0, <3>1, ScanFacts
        <5> QED
          BY <4>1, <4>2, <5>1
      <4>4. s # t
        BY <4>1, <4>2
      <4>5. s \in Nat /\ t \in Nat
        BY <3>1 DEF ScanNumbers
      <4> QED
        BY <4>3, <4>4, <4>5
    <3>3. End(LastOf(s)) <= begin'
      BY <1>0, <3>1
    <3> QED
      BY <3>1, <3>2, <3>3
  <2>4. \A k \in DOMAIN outputs' :
          \/ Doubtful(outputs'[k])
          \/ \E t \in ScanNumbers : outputs'[k] = WholeScan(t) /\ End(LastOf(t)) <= begin'
    <3> TAKE k \in DOMAIN outputs'
    <3>1. CASE k \in 1..Len(outputs)
      BY <1>5, <2>2, <3>1 DEF OutputsInv
    <3>2. CASE k = Len(outputs) + 1
      BY <2>2, <2>3, <3>2
    <3> QED
      BY <2>2, <3>1, <3>2
  <2>5. ASSUME NEW j \in DOMAIN outputs', NEW k \in DOMAIN outputs', j < k,
               ~Doubtful(outputs'[j]), ~Doubtful(outputs'[k])
        PROVE  outputs'[j][1].scan < outputs'[k][1].scan
    <3>0. j \in 1..Len(outputs)
      BY <2>2, <2>5
    <3>1. CASE k \in 1..Len(outputs)
      BY <2>2, <2>5, <3>0, <3>1 DEF OutputsInv
    <3>2. CASE k = Len(outputs) + 1
      <4>1. PICK t \in ScanNumbers : outputs[j] = WholeScan(t) /\ End(LastOf(t)) <= begin
        BY <2>2, <2>5, <3>0 DEF OutputsInv
      <4>2. PICK s \in ScanNumbers : f.packets = WholeScan(s) /\ t < s
        BY <2>2, <2>3, <2>5, <3>2, <4>1
      <4>3. WholeScan(t)[1].scan = t /\ WholeScan(s)[1].scan = s
        BY <1>0, WholeScanFacts
      <4> QED
        BY <2>2, <3>0, <3>2, <4>1, <4>2, <4>3
    <3> QED
      BY <2>2, <3>1, <3>2
  <2>6. OutputsInv'
    BY <1>0, <1>6, <2>4, <2>5 DEF OutputsInv, Doubtful, Misread, Turned
  <2> QED
    BY <2>1, <2>6
<1> QED
  BY <1>1, <1>7, <1>8 DEF f, g

LEMMA OutputsHold == Spec => [](FactoryInv /\ OutputsInv)
<1>1. Init => FactoryInv /\ OutputsInv
  BY EmptyTyped DEF Init, FactoryInv, OutputsInv
<1>2. Base /\ FactoryInv /\ OutputsInv /\ [Next]_vars => FactoryInv' /\ OutputsInv'
  <2> SUFFICES ASSUME Base, FactoryInv, OutputsInv, [Next]_vars
               PROVE  FactoryInv' /\ OutputsInv'
    OBVIOUS
  <2>1. CASE UNCHANGED vars
    BY <2>1, BaseFacts, QuietStep DEF vars
  <2>2. CASE Read
    BY <2>2, BaseFacts, QuietStep DEF Read, inputs
  <2>3. CASE NoHeader
    BY <2>3, Forward, NoHeaderStep, QuietStep DEF inputs, Next
  <2>4. CASE PartialPacket
    BY <2>4, Forward, PartialStep, PreparedFacts, QuietStep DEF inputs, Next
  <2>5. CASE WholePacket
    BY <2>5, WholeStep, WholeKeepsOutputs DEF Next
  <2>6. CASE PayloadFails
    BY <2>6, Forward, FailStep, PreparedFacts, QuietStep DEF inputs, Next
  <2> QED
    BY <2>1, <2>2, <2>3, <2>4, <2>5, <2>6 DEF Next
<1> QED
  BY <1>1, <1>2, BaseHolds, PTL DEF Spec

\* What TcpScanFactory outputs is a scan of the device, whole and in order, and
\* never an earlier scan than the last, for every size of packets and of reads
\* and whatever a cut has dropped, unless something misread is part of it or
\* its packets span a turn of the scan counter.
THEOREM OutputsAreScans == Spec => []OutputsAreWholeScans
<1>1. Base /\ OutputsInv => OutputsAreWholeScans
  <2> SUFFICES ASSUME Base, OutputsInv PROVE OutputsAreWholeScans
    OBVIOUS
  <2>1. Placed
    BY BaseFacts
  <2>2. ASSUME NEW k \in DOMAIN outputs, ~Doubtful(outputs[k])
        PROVE  LET s == outputs[k][1].scan
               IN  outputs[k] = [n \in 1..PacketsPerScan |-> Header(s * PacketsPerScan + n)]
    <3>1. PICK s \in ScanNumbers : outputs[k] = WholeScan(s)
      BY <2>2 DEF OutputsInv
    <3>2. outputs[k][1].scan = s
      BY <2>1, <3>1, WholeScanFacts
    <3> QED
      BY <3>1, <3>2 DEF WholeScan
  <2> QED
    BY <2>2 DEF OutputsInv, OutputsAreWholeScans, Doubtful
<1> QED
  BY <1>1, BaseHolds, OutputsHold, PTL

-----------------------------------------------------------------------------
(* What is not lost                                                        *)

\* If packet i is not the first of its scan, all before it are in the factory.
Expected(i) == \/ i = FirstOf(ScanOf(i))
               \/ HoldsUpTo(scanFactory, i - 1) /\ scanFactory.points = PointsFrom(i - 1)

\* The extraction has not got to packet i, and if it is not the first of its
\* scan, it is the next to come.
Awaited(i) == /\ begin <= Start(i) /\ Expected(i)
              /\ i = FirstOf(ScanOf(i)) \/ begin = Start(i)

IsOutput(s) == \E k \in DOMAIN outputs : outputs[k][1].scan = s

\* The packet before one that is not the first of its scan.
LEMMA Predecessor ==
  ASSUME Placed, NEW i \in Packets, i # FirstOf(ScanOf(i))
  PROVE  i - 1 \in Packets /\ ScanOf(i - 1) = ScanOf(i) /\ i - 1 >= FirstOf(ScanOf(i))
<1> DEFINE s == ScanOf(i)
<1>1. /\ s \in ScanNumbers /\ i \in FirstOf(s)..LastOf(s)
      /\ FirstOf(s) \in Packets /\ LastOf(s) \in Packets
  BY ScanFacts
<1>2. i \in Nat /\ FirstOf(s) \in Nat /\ LastOf(s) \in Nat /\ FirstOf(s) >= 1
  BY <1>1 DEF Packets
<1>3. i - 1 \in FirstOf(s)..LastOf(s)
  BY <1>1, <1>2
<1>4. i - 1 \in Packets
  BY <1>1, <1>2, <1>3, LayoutFacts DEF Packets
<1> HIDE DEF s
<1>5. ScanOf(i - 1) = s
  BY <1>1, <1>3, <1>4, Within
<1> QED
  BY <1>1, <1>2, <1>3, <1>4, <1>5 DEF s

\* The packet after one that is not the last of its scan.
LEMMA Successor ==
  ASSUME Placed, NEW i \in Packets, i # LastOf(ScanOf(i))
  PROVE  i + 1 \in Packets /\ ScanOf(i + 1) = ScanOf(i) /\ Start(i + 1) = End(i)
<1> DEFINE s == ScanOf(i)
<1>1. /\ s \in ScanNumbers /\ i \in FirstOf(s)..LastOf(s)
      /\ FirstOf(s) \in Packets /\ LastOf(s) \in Packets
  BY ScanFacts
<1>2. i \in Nat /\ FirstOf(s) \in Nat /\ LastOf(s) \in Nat /\ LastOf(s) <= PacketCount
  BY <1>1, LayoutFacts DEF Packets
<1>3. i + 1 \in FirstOf(s)..LastOf(s)
  BY <1>1, <1>2
<1>4. i + 1 \in Packets
  BY <1>1, <1>2, <1>3, LayoutFacts DEF Packets
<1> HIDE DEF s
<1>5. ScanOf(i + 1) = s
  BY <1>1, <1>3, <1>4, Within
<1>6. Start(i + 1) = End(i)
  <2> DEFINE j == i + 1
  <2>1. j - 1 = i
    BY <1>2
  <2> HIDE DEF j
  <2>2. Start(j) = End(i)
    BY <2>1 DEF Start
  <2> QED
    BY <2>2 DEF j
<1> QED
  BY <1>4, <1>5, <1>6 DEF s

\* An expected packet is not preceded by anything else in the factory.
LEMMA ExpectedIsKept ==
  ASSUME Base, NEW i \in Packets, Expected(i), i # FirstOf(ScanOf(i))
  PROVE  /\ Prepared(scanFactory, Header(i)) = scanFactory
         /\ Len(scanFactory.packets) = i - FirstOf(ScanOf(i))
         /\ Len(scanFactory.packets) > 0
<1> DEFINE s == ScanOf(i)
           q == scanFactory.packets
           n == i - FirstOf(s)
<1>1. /\ Placed /\ i - 1 \in Packets /\ ScanOf(i - 1) = s /\ i - 1 >= FirstOf(s)
      /\ s \in ScanNumbers /\ FirstOf(s) \in Nat /\ i \in Nat
  <2>1. Placed
    BY BaseFacts
  <2>2. s \in ScanNumbers /\ FirstOf(s) \in Packets
    BY <2>1, ScanFacts
  <2> QED
    BY <2>1, <2>2, Predecessor DEF Packets
<1>2. HoldsUpTo(scanFactory, i - 1)
  BY DEF Expected
<1>3. n \in Nat /\ n > 0 /\ i - 1 - FirstOf(s) + 1 = n /\ FirstOf(s) + n - 1 = i - 1
  BY <1>1
<1>4. Len(q) = n /\ q[n] = Header(i - 1)
  <2>1. /\ Len(q) = i - 1 - FirstOf(s) + 1
        /\ \A k \in 1..(i - 1 - FirstOf(s) + 1) : q[k] = Header(FirstOf(s) + k - 1)
    BY <1>1, <1>2, Zenon DEF HoldsUpTo
  <2> HIDE DEF n
  <2>2. n \in 1..(i - 1 - FirstOf(s) + 1)
    BY <1>3
  <2>3. q[n] = Header(FirstOf(s) + n - 1)
    BY <2>1, <2>2, Zenon
  <2> QED
    BY <1>3, <2>1, <2>3
<1>5. ~IsEmpty(scanFactory)
  BY <1>3, <1>4, EmptySeq DEF IsEmpty
<1>6. Header(i - 1).scan = s /\ Header(i).scan = s
  BY <1>1, HeaderFacts
<1>7. Header(i).packetNumber # 1
  BY <1>1, Within, HeaderFacts
<1>8. ~IsDifferentScan(scanFactory, Header(i)) /\ ~IsNewScan(Header(i))
  BY <1>4, <1>6, <1>7 DEF IsDifferentScan, IsNewScan, LastHeader, scanNumber
<1> QED
  BY <1>3, <1>4, <1>5, <1>8 DEF Prepared

\* The factory after the packet it was waiting for.
LEMMA ExpectedIsAdded ==
  ASSUME Base, NEW i \in Packets, Expected(i)
  PROVE  /\ HoldsUpTo(Extended(Header(i)), i) /\ Extended(Header(i)).points = PointsFrom(i)
         /\ Extended(Header(i)).packets[1] = Header(FirstOf(ScanOf(i)))
<1> DEFINE f == Extended(Header(i))
           first == FirstOf(ScanOf(i))
           n == Len(f.packets) - 1
           q == scanFactory.packets
<1>0. /\ Placed /\ i \in Nat /\ first \in Nat /\ i >= first /\ first \in Packets
  <2>1. Placed
    BY BaseFacts
  <2>2. first \in Packets /\ i \in first..LastOf(ScanOf(i))
    BY <2>1, ScanFacts
  <2> QED
    BY <2>1, <2>2 DEF Packets
<1>1. /\ n \in Nat /\ f.packets[n + 1] = Header(i) /\ n + 1 = Len(f.packets)
      /\ \/ n = 0 /\ f.points = Header(i).points
         \/ /\ n = Len(q) /\ n > 0 /\ Header(i).packetNumber # 1
            /\ f.points = scanFactory.points + Header(i).points
            /\ \A k \in 1..n : f.packets[k] = q[k]
      /\ \/ IsEmpty(scanFactory) \/ Header(i).packetNumber = 1
         \/ LastHeader(scanFactory).scan # Header(i).scan
         \/ n = Len(q)
  <2>0. Header(i) \in HeaderType
    BY <1>0, HeaderFacts
  <2>1. f.packets \in Seq(HeaderType) /\ n \in Nat
    BY <2>0, ExtendedFacts
  <2>2. n + 1 = Len(f.packets)
    BY <2>1, LenProperties
  <2> QED
    BY <2>0, <2>1, <2>2, ExtendedFacts
<1>2. /\ Header(i).points = pointsUpTo[i] - pointsUpTo[i - 1]
      /\ pointsUpTo[i] \in Nat /\ pointsUpTo[i - 1] \in Nat /\ pointsUpTo[first - 1] \in Nat
      /\ PointsFrom(i) = pointsUpTo[i] - pointsUpTo[first - 1]
      /\ (i = first <=> Header(i).packetNumber = 1)
  <2>1. i = first <=> Header(i).packetNumber = 1
    BY <1>0, ScanFacts, Within, HeaderFacts
  <2>2. /\ pointsUpTo[i] \in Nat /\ pointsUpTo[i - 1] \in Nat /\ pointsUpTo[first - 1] \in Nat
    BY <1>0, LayoutFacts
  <2> QED
    BY <1>0, <2>1, <2>2, HeaderFacts DEF PointsFrom
<1>3. CASE i = first
  <2>1. n = 0 /\ f.points = Header(i).points
    BY <1>1, <1>2, <1>3
  <2> HIDE DEF f, n
  <2>2. Len(f.packets) = 1 /\ f.packets[1] = Header(i)
    BY <1>1, <2>1
  <2>3. i - first + 1 = 1 /\ \A k \in 1..1 : first + k - 1 = i
    BY <1>0, <1>3
  <2> HIDE DEF first
  <2>4. \A k \in 1..(i - first + 1) : f.packets[k] = Header(first + k - 1)
    BY <2>2, <2>3
  <2>5. HoldsUpTo(f, i)
    BY <2>2, <2>3, <2>4 DEF HoldsUpTo, first
  <2> QED
    BY <1>2, <1>3, <2>1, <2>2, <2>5 DEF f, first
<1>4. CASE i # first
  <2>1. /\ HoldsUpTo(scanFactory, i - 1) /\ scanFactory.points = PointsFrom(i - 1)
        /\ ScanOf(i - 1) = ScanOf(i) /\ i - 1 >= first
    BY <1>0, <1>4, Predecessor DEF Expected
  <2>2. Len(q) = i - first /\ Len(q) > 0
    BY <1>4, ExpectedIsKept
  <2>3. /\ i - 1 - first + 1 = i - first
        /\ \A k \in 1..(i - first) : q[k] = Header(first + k - 1)
    <3>1. i - 1 - first + 1 = i - first
      BY <1>0
    <3> QED
      BY <2>1, <3>1 DEF HoldsUpTo
  <2> HIDE DEF first
  <2>4. /\ n = i - first /\ n > 0 /\ f.points = scanFactory.points + Header(i).points
        /\ \A k \in 1..n : f.packets[k] = q[k]
    <3>1. first + (i - first) - 1 = i - 1 /\ i - first \in 1..(i - first)
      BY <1>0, <2>2
    <3>2. q[Len(q)] = Header(i - 1)
      BY <2>2, <2>3, <3>1
    <3>3. Header(i - 1).scan = Header(i).scan
      BY <1>0, <1>4, <2>1, Predecessor, HeaderFacts DEF first
    <3>4. ~IsEmpty(scanFactory) /\ LastHeader(scanFactory).scan = Header(i).scan
      BY <2>2, <3>2, <3>3, EmptySeq DEF IsEmpty, LastHeader
    <3>5. n = Len(q)
      BY <1>1, <1>2, <1>4, <3>4
    <3> QED
      BY <1>1, <2>2, <3>5
  <2>5. f.points = PointsFrom(i)
    <3>1. scanFactory.points = pointsUpTo[i - 1] - pointsUpTo[first - 1]
      BY <2>1 DEF PointsFrom, first
    <3> QED
      BY <1>2, <2>4, <3>1
  <2> HIDE DEF f, n
  <2>6. n + 1 = i - first + 1 /\ first + (n + 1) - 1 = i
    BY <1>0, <2>4
  <2>7. \A k \in 1..(n + 1) : f.packets[k] = Header(first + k - 1)
    <3> TAKE k \in 1..(n + 1)
    <3>1. k = n + 1 \/ k \in 1..n
      BY <1>1
    <3>2. CASE k = n + 1
      BY <1>1, <2>6, <3>2
    <3>3. CASE k \in 1..n
      BY <2>3, <2>4, <3>3
    <3> QED
      BY <3>1, <3>2, <3>3
  <2>8. HoldsUpTo(f, i)
    BY <1>1, <2>6, <2>7 DEF HoldsUpTo, first
  <2>9. f.packets[1] = Header(first)
    <3>1. 1 \in 1..(n + 1) /\ first + 1 - 1 = first
      BY <1>0, <1>1
    <3> QED
      BY <2>7, <3>1
  <2> QED
    BY <2>5, <2>8, <2>9 DEF f, first
<1> QED
  BY <1>3, <1>4

\* The magic found is not behind an awaited packet; and a packet that is not the
\* first of its scan is awaited at the start of the buffer, where it is read.
LEMMA AwaitedIsFound ==
  ASSUME Base, HasMagic, NEW i \in Packets, Awaited(i)
  PROVE  /\ Found \in Nat /\ Found <= Start(i)
         /\ i # FirstOf(ScanOf(i)) =>
              Found = Start(i) /\ begin = Start(i) /\ \A h \in Readable : OfPacket(h, i)
<1>1. /\ begin <= Start(i) /\ (i = FirstOf(ScanOf(i)) \/ begin = Start(i))
      /\ Start(i) \in Nat /\ received \in Nat /\ begin \in Nat /\ Found \in Nat
      /\ Found < received
      /\ begin <= Start(i) /\ Start(i) < received => Found <= Start(i)
  BY BaseFacts, FoundFacts, Positions DEF Awaited
<1>2. Found <= Start(i)
  BY <1>1
<1>3. begin = Start(i) => Found = Start(i) /\ \A h \in Readable : OfPacket(h, i)
  BY AtStart
<1> QED
  BY <1>1, <1>2, <1>3

\* A scan, one of whose packets the extraction has gone past.
Lost(s) == \E i \in Packets : ScanOf(i) = s /\ i \notin extracted /\ Start(i) < begin

\* A scan is output, or lost, or one of its packets is awaited.
ScansInv == /\ \A i \in extracted : i \in Packets /\ End(i) <= begin
            /\ \A s \in ScanNumbers :
                 IsOutput(s) \/ Lost(s) \/ \E i \in Packets : ScanOf(i) = s /\ Awaited(i)

\* What is extracted has been passed, and what has been passed is not extracted
\* any more.
LEMMA ExtractedArePassed ==
  ASSUME Base, Next, \A i \in extracted : i \in Packets /\ End(i) <= begin
  PROVE  /\ \A i \in extracted' : i \in Packets /\ End(i)' <= begin'
         /\ \A i \in Packets : i \in extracted' => i \in extracted \/ begin <= Start(i)
<1>0. /\ Placed /\ begin \in Nat /\ begin' \in Nat /\ begin <= begin'
      /\ \A i : End(i)' = End(i)
      /\ \A i \in Packets : End(i) \in Nat
  BY BaseFacts, Frame, Forward, SameStream, Positions
<1>1. CASE extracted' = extracted
  BY <1>0, <1>1
<1>2. CASE WholePacket
  <2>1. HasMagic
    BY <1>2, WholeStep
  <2>2. PICK h \in Readable : Taken(h)
    BY <1>2, WholeStep
  <2>3. extracted' = extracted \cup ({h.packet} \ {0}) /\ IsWhole(h)
        /\ begin' = Found + h.header + PointsRead(h)
    BY <2>2 DEF Taken
  <2>4. CASE h.packet = 0
    BY <1>0, <2>3, <2>4
  <2>5. ASSUME NEW j \in Packets, OfPacket(h, j), h.packet = j
        PROVE  /\ \A i \in extracted' : i \in Packets /\ End(i)' <= begin'
               /\ \A i \in Packets : i \in extracted' => i \in extracted \/ begin <= Start(i)
    <3>1. begin' = End(j)
      BY <2>1, <2>3, <2>5, OfPacketFacts
    <3>2. begin <= Start(j)
      BY <2>1, <2>5, FoundFacts DEF OfPacket
    <3>3. \A i \in extracted' : i \in extracted \/ i = j
      BY <2>3, <2>5
    <3> QED
      BY <1>0, <2>5, <3>1, <3>2, <3>3
  <2> QED
    BY <2>1, <2>4, <2>5, ReadableFacts
<1> QED
  BY <1>1, <1>2, NoHeaderStep, PartialStep, FailStep DEF Next, Read

\* An awaited packet is yet to be extracted.
LEMMA NotExtracted ==
  ASSUME Base, ScansInv, NEW i \in Packets, Awaited(i)
  PROVE  i \notin extracted
<1>1. /\ Start(i) \in Nat /\ End(i) \in Nat /\ begin \in Nat /\ begin <= Start(i)
      /\ Start(i) + SearchUnits <= End(i) /\ SearchUnits \in Nat /\ HeaderUnits \in Nat \ {0}
      /\ HeaderUnits < SearchUnits
  BY BaseFacts, Positions DEF Awaited
<1>2. ~(End(i) <= begin)
  BY <1>1
<1> QED
  BY <1>2 DEF ScansInv

\* What is said of a scan before and after a step that outputs nothing.
LEMMA StillAwaited ==
  ASSUME Base, pointsUpTo' = pointsUpTo, NEW i \in Packets, Awaited(i), begin' <= Start(i),
         i # FirstOf(ScanOf(i)) => begin' = begin /\ scanFactory' = scanFactory
  PROVE  Awaited(i)'
<1>0. \A j : Start(j)' = Start(j) /\ Header(j)' = Header(j)
  BY BaseFacts, SameStream
<1>1. begin' <= Start(i)'
  BY <1>0
<1>2. CASE i = FirstOf(ScanOf(i))
  BY <1>1, <1>2 DEF Awaited, Expected
<1>3. CASE i # FirstOf(ScanOf(i))
  <2>1. begin = Start(i) /\ Expected(i) /\ begin' = begin /\ scanFactory' = scanFactory
    BY <1>3 DEF Awaited
  <2>2. Expected(i)'
    BY <1>0, <1>3, <2>1 DEF Expected, HoldsUpTo, PointsFrom
  <2> QED
    BY <1>0, <1>1, <2>1, <2>2 DEF Awaited
<1> QED
  BY <1>2, <1>3

LEMMA NoHeaderKeeps ==
  ASSUME Base, ScansInv, NoHeader, Next, NEW i \in Packets, Awaited(i)
  PROVE  Awaited(i)' \/ Lost(ScanOf(i))'
<1>1. begin' = received /\ scanFactory' = scanFactory /\ extracted' = extracted
  BY NoHeaderStep
<1>2. /\ Start(i) \in Nat /\ received \in Nat /\ begin \in Nat /\ begin <= received
      /\ begin <= Start(i) /\ (i = FirstOf(ScanOf(i)) \/ begin = Start(i))
      /\ Start(i)' = Start(i) /\ pointsUpTo' = pointsUpTo
  BY BaseFacts, Positions, Frame, SameStream DEF Awaited
<1>3. CASE received <= Start(i)
  <2>1. i # FirstOf(ScanOf(i)) => received = begin
    BY <1>2, <1>3
  <2> QED
    BY <1>1, <1>2, <1>3, <2>1, StillAwaited
<1>4. CASE Start(i) < received
  <2>1. i \notin extracted
    BY NotExtracted
  <2> QED
    BY <1>1, <1>2, <1>4, <2>1 DEF Lost
<1> QED
  BY <1>2, <1>3, <1>4

LEMMA PartialKeeps ==
  ASSUME Base, PartialPacket, Next, NEW i \in Packets, Awaited(i)
  PROVE  Awaited(i)'
<1>1. HasMagic /\ begin' = Found
  BY PartialStep
<1>2. PICK h \in Readable : scanFactory' = Prepared(scanFactory, h)
  BY PartialStep
<1>3. /\ Found <= Start(i)
      /\ i # FirstOf(ScanOf(i)) => Found = begin /\ h = Header(i)
  BY <1>1, AwaitedIsFound DEF OfPacket
<1>4. i # FirstOf(ScanOf(i)) => scanFactory' = scanFactory
  BY <1>2, <1>3, ExpectedIsKept DEF Awaited
<1> QED
  BY <1>1, <1>3, <1>4, Frame, StillAwaited

LEMMA FailKeeps ==
  ASSUME Base, PayloadFails, Next, NEW i \in Packets, Awaited(i)
  PROVE  Awaited(i)'
<1>1. HasMagic /\ begin' = begin
  BY FailStep
<1>2. PICK h \in Readable : \A j \in Packets : ~OfPacket(h, j)
  BY FailStep
<1>3. i = FirstOf(ScanOf(i))
  BY <1>1, <1>2, AwaitedIsFound
<1> QED
  BY <1>1, <1>3, Frame, StillAwaited DEF Awaited

LEMMA WholeKeeps ==
  ASSUME Base, ScansInv, WholePacket, Next, NEW i \in Packets, Awaited(i)
  PROVE  \/ Awaited(i)' \/ IsOutput(ScanOf(i))' \/ Lost(ScanOf(i))'
         \/ i + 1 \in Packets /\ ScanOf(i + 1) = ScanOf(i) /\ Awaited(i + 1)'
<1> DEFINE f == Extended(Header(i))
           s == ScanOf(i)
<1>0. /\ Placed /\ pointsUpTo' = pointsUpTo
      /\ \A j : End(j)' = End(j) /\ Start(j)' = Start(j) /\ Header(j)' = Header(j)
      /\ Start(i) \in Nat /\ begin' \in Nat
  BY BaseFacts, Frame, Forward, SameStream, Positions
<1>1. HasMagic
  BY WholeStep
<1>2. PICK h \in Readable : Taken(h)
  BY WholeStep
<1>t. /\ IsWhole(h) /\ extracted' = extracted \cup ({h.packet} \ {0})
      /\ begin' = Found + h.header + PointsRead(h)
  BY <1>2 DEF Taken
<1>3. CASE ~OfPacket(h, i)
  <2>1. i = FirstOf(s) /\ Found <= Start(i)
    BY <1>1, <1>3, AwaitedIsFound
  <2>2. CASE begin' <= Start(i)
    BY <1>0, <2>1, <2>2, StillAwaited
  <2>3. CASE Start(i) < begin'
    <3>1. i \notin extracted'
      <4>1. i \notin extracted
        BY NotExtracted
      <4>2. ASSUME NEW j \in Packets, OfPacket(h, j), h.packet = j PROVE i # h.packet
        BY <1>3, <4>2
      <4>3. i # h.packet
        BY <1>0, <1>1, <4>2, ReadableFacts, HeaderFacts
      <4> QED
        BY <1>t, <4>1, <4>3
    <3> QED
      BY <1>0, <2>3, <3>1 DEF Lost
  <2> QED
    BY <1>0, <2>2, <2>3
<1>4. CASE OfPacket(h, i)
  <2>0. [h EXCEPT !.points = PointsRead(h)] = Header(i) /\ begin' = End(i)
    BY <1>1, <1>t, <1>4, OfPacketFacts
  <2>1. /\ HoldsUpTo(f, i) /\ f.points = PointsFrom(i) /\ f.packets[1] = Header(FirstOf(s))
        /\ f.packets \in Seq(HeaderType)
    BY <1>0, ExpectedIsAdded, ExtendedFacts, HeaderFacts DEF Awaited
  <2>2. /\ s \in ScanNumbers /\ FirstOf(s) \in Packets /\ ScanOf(FirstOf(s)) = s
    <3>1. /\ s \in ScanNumbers /\ FirstOf(s) \in Packets /\ i \in FirstOf(s)..LastOf(s)
          /\ LastOf(s) \in Packets
      BY <1>0, ScanFacts
    <3>2. FirstOf(s) \in FirstOf(s)..LastOf(s)
      BY <3>1 DEF Packets
    <3> QED
      BY <1>0, <3>1, <3>2, Within
  <2>3. f.packets[1].scan = s /\ f.packets[1].numPointsScan = PointsOf(s)
    BY <1>0, <2>1, <2>2, HeaderFacts
  <2>4. \/ outputs' = Append(outputs, f.packets)
        \/ f.points < f.packets[1].numPointsScan /\ scanFactory' = f
    BY <1>2, <2>0 DEF Taken
  <2> HIDE DEF f, s
  <2>5. CASE outputs' = Append(outputs, f.packets)
    <3>1. outputs \in Seq(Seq(HeaderType))
      BY DEF Base
    <3>2. /\ Len(outputs) + 1 \in DOMAIN outputs' /\ outputs'[Len(outputs) + 1] = f.packets
      BY <2>1, <2>5, <3>1, AppendProperties, LenProperties
    <3> QED
      BY <2>3, <3>2 DEF IsOutput, s
  <2>6. CASE f.points < f.packets[1].numPointsScan /\ scanFactory' = f
    <3>1. PointsFrom(i) < PointsOf(s)
      BY <2>1, <2>3, <2>6
    <3>2. i # LastOf(s)
      <4>1. i = LastOf(s) => PointsFrom(i) = PointsOf(s)
        BY <1>0, <2>2, PointsOfScan DEF PointsFrom, s
      <4>2. PointsFrom(i) \in Nat
        BY <1>0, PointsFromFacts
      <4> QED
        BY <3>1, <4>1, <4>2
    <3>3. i + 1 \in Packets /\ ScanOf(i + 1) = s /\ Start(i + 1) = End(i)
      BY <1>0, <3>2, Successor DEF s
    <3>4. Expected(i + 1)'
      <4> DEFINE j == i + 1
      <4>1. j - 1 = i
        BY DEF Packets
      <4> HIDE DEF j
      <4>2. (HoldsUpTo(scanFactory, j - 1) /\ scanFactory.points = PointsFrom(j - 1))'
        BY <1>0, <2>1, <2>6, <4>1 DEF HoldsUpTo, PointsFrom
      <4>3. Expected(j)'
        BY <4>2 DEF Expected
      <4> QED
        BY <4>3 DEF j
    <3>5. begin' = Start(i + 1)' /\ begin' <= Start(i + 1)'
      <4>1. End(i) \in Nat
        BY <1>0, Positions
      <4> QED
        BY <1>0, <2>0, <3>3, <4>1
    <3> QED
      BY <3>3, <3>4, <3>5 DEF Awaited, s
  <2> QED
    BY <2>4, <2>5, <2>6
<1> QED
  BY <1>3, <1>4

\* Outputs stay, and so do losses.
LEMMA OutputsStay ==
  ASSUME Base, ScansInv, Next, NEW s \in ScanNumbers
  PROVE  (IsOutput(s) => IsOutput(s)') /\ (Lost(s) => Lost(s)')
<1>1. IsOutput(s) => IsOutput(s)'
  <2>1. outputs \in Seq(Seq(HeaderType))
    BY DEF Base
  <2>2. \A k \in DOMAIN outputs : k \in DOMAIN outputs' /\ outputs'[k] = outputs[k]
    <3>1. CASE outputs' = outputs
      BY <3>1
    <3>2. ASSUME NEW p \in Seq(HeaderType), outputs' = Append(outputs, p)
          PROVE  \A k \in DOMAIN outputs : k \in DOMAIN outputs' /\ outputs'[k] = outputs[k]
      BY <2>1, <3>2, AppendProperties, LenProperties
    <3> QED
      BY <3>1, <3>2, Forward
  <2> QED
    BY <2>2 DEF IsOutput
<1>2. Lost(s) => Lost(s)'
  <2> SUFFICES ASSUME Lost(s) PROVE Lost(s)'
    OBVIOUS
  <2>1. PICK i \in Packets : ScanOf(i) = s /\ i \notin extracted /\ Start(i) < begin
    BY DEF Lost
  <2>2. /\ Start(i) \in Nat /\ begin \in Nat /\ begin' \in Nat /\ begin <= begin'
        /\ Start(i)' = Start(i)
    BY BaseFacts, Positions, Forward, Frame, SameStream
  <2>3. i \notin extracted'
    <3>1. i \in extracted' => i \in extracted \/ begin <= Start(i)
      BY ExtractedArePassed DEF ScansInv
    <3> QED
      BY <2>1, <2>2, <3>1
  <2>4. Start(i)' < begin'
    BY <2>1, <2>2
  <2> QED
    BY <2>1, <2>3, <2>4 DEF Lost
<1> QED
  BY <1>1, <1>2

LEMMA ScansHold == Spec => []ScansInv
<1>1. Init => ScansInv
  <2> SUFFICES ASSUME Init, NEW s \in ScanNumbers
               PROVE  \E i \in Packets : ScanOf(i) = s /\ Awaited(i)
    BY DEF ScansInv, Init
  <2>1. Placed /\ begin = 0
    BY DEF Init, Placed
  <2>2. /\ FirstOf(s) \in Packets /\ LastOf(s) \in Packets
        /\ LastOf(s) = FirstOf(s) + PacketsPerScan - 1
    BY <2>1, ScanFacts
  <2>3. FirstOf(s) \in FirstOf(s)..LastOf(s)
    BY <2>2, TcpAssumption DEF Packets
  <2>4. ScanOf(FirstOf(s)) = s
    BY <2>1, <2>2, <2>3, Within
  <2>5. begin <= Start(FirstOf(s))
    BY <2>1, <2>2, Positions
  <2> QED
    BY <2>2, <2>4, <2>5 DEF Awaited, Expected
<1>2. Base /\ ScansInv /\ [Next]_vars => ScansInv'
  <2>1. CASE UNCHANGED vars
    <3>1. ScansInv /\ UNCHANGED vars => ScansInv'
      BY DEF vars, ScansInv, IsOutput, Lost, Awaited, Expected, Start, End, HoldsUpTo,
             PointsFrom, Header, PointsOf
    <3> QED
      BY <2>1, <3>1
  <2>2. ASSUME Base, ScansInv, Next PROVE ScansInv'
    <3>1. \A i \in extracted' : i \in Packets /\ End(i)' <= begin'
      BY <2>2, ExtractedArePassed DEF ScansInv
    <3>2. ASSUME NEW s \in ScanNumbers, ~IsOutput(s)', ~Lost(s)'
          PROVE  \E i \in Packets : ScanOf(i) = s /\ Awaited(i)'
      <4>1. PICK i \in Packets : ScanOf(i) = s /\ Awaited(i)
        BY <2>2, <3>2, OutputsStay DEF ScansInv
      <4>2. CASE Read
        <5>1. begin' = begin /\ scanFactory' = scanFactory /\ pointsUpTo' = pointsUpTo
          BY <4>2 DEF Read, inputs
        <5>2. Awaited(i)'
          BY <2>2, <4>1, <5>1, StillAwaited DEF Awaited
        <5> QED
          BY <4>1, <5>2
      <4>3. CASE NoHeader
        BY <2>2, <3>2, <4>1, <4>3, NoHeaderKeeps
      <4>4. CASE PartialPacket
        BY <2>2, <4>1, <4>4, PartialKeeps
      <4>5. CASE WholePacket
        BY <2>2, <3>2, <4>1, <4>5, WholeKeeps
      <4>6. CASE PayloadFails
        BY <2>2, <4>1, <4>6, FailKeeps
      <4> QED
        BY <2>2, <4>2, <4>3, <4>4, <4>5, <4>6 DEF Next
    <3> QED
      BY <3>1, <3>2 DEF ScansInv
  <2> QED
    BY <2>1, <2>2
<1> QED
  BY <1>1, <1>2, BaseHolds, PTL DEF Spec

\* A scan all of whose packets were extracted is output, whatever was lost,
\* misread or left in the factory before it, for every size of packets and of
\* reads; the scan counter may go round.
THEOREM ExtractedScansAreOutput == Spec => []ExtractedScanIsOutput
<1>1. Base /\ ScansInv => ExtractedScanIsOutput
  <2> SUFFICES ASSUME Base, ScansInv, NEW s \in 0..(Scans - 1), PacketsOf(s) \subseteq extracted
               PROVE  \E k \in DOMAIN outputs : outputs[k][1].scan = s
    BY DEF ExtractedScanIsOutput
  <2>1. \A i \in Packets : ScanOf(i) = s => i \in extracted
    BY DEF PacketsOf
  <2>2. s \in ScanNumbers /\ ~Lost(s)
    BY <2>1 DEF ScanNumbers, Lost
  <2>3. \A i \in Packets : ScanOf(i) = s => ~Awaited(i)
    BY <2>1, NotExtracted
  <2> QED
    BY <2>2, <2>3 DEF ScansInv, IsOutput
<1> QED
  BY <1>1, BaseHolds, ScansHold, PTL
=============================================================================
