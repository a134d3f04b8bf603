------------------------ MODULE PacketDecodingProofs ------------------------
(***************************************************************************)
(* Proofs about PacketDecoding: how many points retrievePayload reads from *)
(* any number of bytes, and when it reads past their end.                  *)
(***************************************************************************)
EXTENDS PacketDecoding, TLAPS

\* The greatest element of a set, when there is one.
LEMMA MaxIs ==
  ASSUME NEW S \in SUBSET Int, NEW m \in S, \A k \in S : k <= m
  PROVE  Max(S) = m
<1>1. \A y \in S : m >= y
  OBVIOUS
<1>2. Max(S) \in S /\ \A y \in S : Max(S) >= y
  BY <1>1, Zenon DEF Max
<1> DEFINE x == Max(S)
<1>3. /\ x \in Int /\ m \in Int
      /\ x <= m /\ x >= m
  BY <1>2
<1> HIDE DEF x
<1>4. x = m
  BY <1>3
<1> QED
  BY <1>4 DEF x

\* The numbers of points for which the loop condition holds all the way.
Reachable(left, size, n) ==
  {k \in 0..n : \A i \in 1..k : GoesOn(left - size * (i - 1))}

\* The loop stops at the first point it does not go on for.
LEMMA StopsAt ==
  ASSUME NEW left \in Nat, NEW size \in Nat, NEW n \in Nat, NEW q \in 0..n,
         \A i \in 1..q : GoesOn(left - size * (i - 1)),
         q = n \/ ~GoesOn(left - size * q)
  PROVE  PointsRead(left, size, n) = q
<1> DEFINE S == Reachable(left, size, n)
<1>1. S \in SUBSET Int /\ q \in S
  BY DEF Reachable
<1>2. \A k \in S : k <= q
  <2> SUFFICES ASSUME NEW k \in S, k > q PROVE FALSE
    <3>1. \A k \in S : k \in Int
      BY DEF Reachable
    <3> HIDE DEF S
    <3> QED
      BY <3>1
  <2>1. k \in 0..n /\ q + 1 \in 1..k /\ q # n
    BY DEF Reachable
  <2>2. GoesOn(left - size * ((q + 1) - 1))
    BY <2>1 DEF Reachable
  <2>3. (q + 1) - 1 = q
    OBVIOUS
  <2> QED
    BY <2>1, <2>2, <2>3
<1>3. Max(S) = q
  <2> HIDE DEF S
  <2> QED
    BY <1>1, <1>2, MaxIs
<1> QED
  BY <1>3 DEF PointsRead, Reachable

\* A payload whose points have all been received is decoded whole, and nothing
\* behind it is read, whatever the type of the packet.
THEOREM WholePayloadIsRead ==
  ASSUME NEW type \in PacketTypes, NEW left \in Nat, NEW n \in Nat,
         left >= PointSize(type) * n
  PROVE  /\ PointsRead(left, PointSize(type), n) = n
         /\ ~PayloadOverrun(left, PointSize(type), n)
<1> DEFINE size == PointSize(type)
<1>1. size \in {4, 6}
  BY DEF PointSize
<1>2. \A i \in 1..n : GoesOn(left - size * (i - 1))
  BY <1>1 DEF GoesOn
<1>3. PointsRead(left, size, n) = n
  <2>1. size \in Nat /\ n \in 0..n
    BY <1>1
  <2> HIDE DEF size
  <2> QED
    BY <1>2, <2>1, StopsAt
<1> QED
  BY <1>1, <1>3 DEF PayloadOverrun

\* Packets of types A and C: the loop condition is the size of a point, so that
\* a payload cut anywhere gives the points it holds and the reading stops there.
THEOREM WordsNeverOverrun ==
  ASSUME NEW left \in Nat, NEW n \in Nat
  PROVE  /\ PointsRead(left, 4, n) = IF left \div 4 < n THEN left \div 4 ELSE n
         /\ ~PayloadOverrun(left, 4, n)
<1> DEFINE q == left \div 4
<1>1. q \in Nat /\ 4 * q <= left /\ left < 4 * q + 4
  OBVIOUS
<1>2. CASE q < n
  <2>1. \A i \in 1..q : GoesOn(left - 4 * (i - 1))
    BY <1>1 DEF GoesOn
  <2>2. ~GoesOn(left - 4 * q)
    BY <1>1 DEF GoesOn
  <2>3. PointsRead(left, 4, n) = q
    <3> HIDE DEF q
    <3> QED
      BY <1>1, <1>2, <2>1, <2>2, StopsAt
  <2> QED
    BY <1>1, <1>2, <2>3 DEF PayloadOverrun
<1>3. CASE q >= n
  <2>1. left >= 4 * n
    BY <1>1, <1>3
  <2>2. \A i \in 1..n : GoesOn(left - 4 * (i - 1))
    BY <2>1 DEF GoesOn
  <2>3. PointsRead(left, 4, n) = n
    BY <2>2, StopsAt
  <2> QED
    BY <1>1, <1>3, <2>1, <2>3 DEF PayloadOverrun
<1> QED
  BY <1>1, <1>2, <1>3

\* Packets of type B: the loop asks for four bytes where a point takes six, and
\* counts what is left without sign.  A payload cut with four or five bytes of
\* a point left is read past its end, and then up to the announced number of
\* points; cut elsewhere it is not.
THEOREM AmplitudesOverrun ==
  ASSUME NEW left \in Nat, NEW n \in Nat
  PROVE  PayloadOverrun(left, 6, n) <=> left \div 6 < n /\ left % 6 \in {4, 5}
<1> DEFINE q == left \div 6
           r == left % 6
<1>1. q \in Nat /\ r \in 0..5 /\ left = 6 * q + r
  OBVIOUS
<1>2. CASE q >= n
  <2>1. left >= 6 * n
    BY <1>1, <1>2
  <2>2. \A i \in 1..n : GoesOn(left - 6 * (i - 1))
    BY <2>1 DEF GoesOn
  <2>3. PointsRead(left, 6, n) = n
    BY <2>2, StopsAt
  <2> QED
    BY <1>1, <1>2, <2>1, <2>3 DEF PayloadOverrun
<1>3. CASE q < n /\ r \in 0..3
  <2>1. \A i \in 1..q : GoesOn(left - 6 * (i - 1))
    BY <1>1 DEF GoesOn
  <2>2. ~GoesOn(left - 6 * q)
    BY <1>1, <1>3 DEF GoesOn
  <2>3. PointsRead(left, 6, n) = q
    <3> HIDE DEF q, r
    <3> QED
      BY <1>1, <1>3, <2>1, <2>2, StopsAt
  <2> QED
    BY <1>1, <1>3, <2>3 DEF PayloadOverrun
<1>4. CASE q < n /\ r \in {4, 5}
  <2>1. \A i \in 1..n : GoesOn(left - 6 * (i - 1))
    <3> SUFFICES ASSUME NEW i \in 1..n PROVE GoesOn(left - 6 * (i - 1))
      OBVIOUS
    <3>1. CASE i <= q + 1
      BY <1>1, <1>4, <3>1 DEF GoesOn
    <3>2. CASE i > q + 1
      BY <1>1, <1>4, <3>2 DEF GoesOn
    <3> QED
      BY <1>1, <3>1, <3>2
  <2>2. PointsRead(left, 6, n) = n
    BY <2>1, StopsAt
  <2>3. 6 * n > left
    BY <1>1, <1>4
  <2> QED
    BY <1>1, <1>4, <2>2, <2>3 DEF PayloadOverrun
<1> QED
  BY <1>1, <1>2, <1>3, <1>4
=============================================================================
