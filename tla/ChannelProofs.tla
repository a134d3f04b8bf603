---------------------------- MODULE ChannelProofs ----------------------------
(***************************************************************************)
(* What is proved about CommandChannel, for every number of requests.      *)
(***************************************************************************)
EXTENDS CommandChannel, SequenceTheorems, FiniteSetTheorems, TLAPS

-----------------------------------------------------------------------------
(* Types, and who holds a request when                                     *)

Deadlines == {"resolverDeadline", "socketDeadline"}
Handlers == {m \in HandlerType : m.r = NoRequest <=> m.h \in Deadlines}

WorkerPlaces == {"idle", "block", "asleep", "done", "resolve", "armResolver",
                 "cached", "close", "connect", "arm", "notify"}
IoPlaces == {"test", "run", "close", "connect", "arm", "write", "read", "block",
             "asleep", "awake", "done"}
WorkerHolds == {"resolve", "cached", "close", "connect"}
IoHolds == {"close", "connect", "write", "read"}

Typing == /\ TypeOK
          /\ pc \in [{"worker", "io"} -> WorkerPlaces \cup IoPlaces]
          /\ ready \in Seq(Handlers)
          /\ pc.worker \in WorkerHolds => req.worker \in Requests
          /\ pc.io \in IoHolds => req.io \in Requests
          /\ sock.st = "connecting" => sock.owner \in Requests

-----------------------------------------------------------------------------
(* Where the requests are                                                  *)

RequestsOf(q) == {r \in Requests : \E m \in ToSet(q) : m.r = r}
Solo(q) == \A i, k \in 1..Len(q) : q[i].r \in Requests /\ q[i].r = q[k].r => i = k

Sorted(q) == \A i, k \in 1..Len(q) : i < k => q[i] < q[k]

Waiting == ToSet(queue)
InWorker == IF pc.worker \in WorkerHolds THEN {req.worker} ELSE {}
Connecting == IF sock.st = "connecting" THEN {sock.owner} ELSE {}
Completed == RequestsOf(ready)
InIo == IF pc.io \in IoHolds THEN {req.io} ELSE {}

\* Every unanswered request is in one place, in which nothing else is.
Apart ==
  /\ Waiting \cap (InWorker \cup resolving \cup Connecting \cup Completed \cup InIo) = {}
  /\ InWorker \cap (resolving \cup Connecting \cup Completed \cup InIo) = {}
  /\ resolving \cap (Connecting \cup Completed \cup InIo) = {}
  /\ Connecting \cap (Completed \cup InIo) = {}
  /\ Completed \cap InIo = {}

Accounting ==
  /\ Waiting \cup InWorker \cup resolving \cup Connecting \cup Completed \cup InIo = InFlight
  /\ Apart
  /\ Solo(ready)
  /\ Sorted(queue)
  /\ \A r \in Requests : /\ r \in submitted => 1..r \subseteq submitted
                         /\ r \notin submitted => calls[r] = <<>>

-----------------------------------------------------------------------------
(* In which order they are                                                 *)

\* In a sequence of handlers nothing precedes a request that is not in L but
\* what was submitted before it.
InOrder(q, L) ==
  \A i, k \in 1..Len(q) :
    i < k /\ q[i].r \in Requests /\ q[k].r \in Requests \ L => q[i].r < q[k].r

\* Which requests look up the endpoints, and what they may be doing.
Lookups ==
  /\ lookups \subseteq submitted \ Waiting /\ resolving \subseteq lookups
  /\ \A r \in lookups : 1..r \subseteq lookups
  /\ pc.worker = "resolve" => req.worker \in lookups
  /\ pc.io \in {"close", "connect"} => req.io \in lookups
  /\ pc.worker = "connect" => Connecting \subseteq lookups
  /\ \A m \in ToSet(ready) : m.h = "resolved" => m.r \in lookups

\* Before the endpoints are known nothing is beyond its resolution.
Unknown ==
  endpoints = "unknown" =>
    /\ submitted = Waiting \cup lookups
    /\ pc.worker \notin {"cached", "close", "connect"}
    /\ pc.io \notin IoHolds /\ Connecting = {}
    /\ \A m \in ToSet(ready) : m.h # "connected"

Precede(early, late) == \A r \in early, s \in late : r < s

Order == /\ Precede(InFlight \ Waiting, Waiting)
         /\ Precede(InFlight \ (Waiting \cup InWorker), InWorker)
         /\ Precede(Completed \cup InIo, Connecting \ lookups)
         /\ Precede(InIo, Completed \ lookups)
         /\ InOrder(ready, lookups)

-----------------------------------------------------------------------------
(* The deadline of an attempt, and what a stop leaves                      *)

Guarded == sock.st = "connecting" =>
             \/ \E t \in {"worker", "io"} : pc[t] = "arm"
             \/ socketTimer.waiting
             \/ socketTimer.expired /\ \E m \in ToSet(ready) : m.h = "socketDeadline"

Stopping == dtor \notin {"none", "stop"} =>
              interruptIoServiceTask /\ (stopped \/ pc.io \in {"test", "done"})

-----------------------------------------------------------------------------
(* Sequences of handlers                                                   *)

LEMMA Distinct == /\ "resolverDeadline" \in Deadlines /\ "socketDeadline" \in Deadlines
                  /\ "resolved" \notin Deadlines /\ "connected" \notin Deadlines
  BY DEF Deadlines

LEMMA Numbers == /\ Requests \subseteq Nat /\ NoRequest \notin Requests
                 /\ IsFiniteSet(Requests) /\ NumRequests \in Nat
  BY ChannelAssumption, FS_Interval DEF Requests, NoRequest

\* One handler, of a request or of a deadline.
LEMMA OneHandler ==
  ASSUME NEW h \in {"resolved", "connected"}, NEW r \in Requests,
         NEW e \in {"ok", "error", "aborted", "notFound"}
  PROVE  Handler(h, r, e) \in Handlers
  BY Numbers, Distinct DEF Handlers, HandlerType, Handler

\* Joining two sequences.
LEMMA JoinFacts ==
  ASSUME NEW q \in Seq(Handlers), NEW s \in Seq(Handlers)
  PROVE  LET all == q \o s
         IN  /\ all \in Seq(Handlers)
             /\ ToSet(all) = ToSet(q) \cup ToSet(s)
             /\ RequestsOf(all) = RequestsOf(q) \cup RequestsOf(s)
             /\ Solo(q) /\ Solo(s) /\ RequestsOf(q) \cap RequestsOf(s) = {} => Solo(all)
             /\ (/\ InOrder(q, lookups) /\ InOrder(s, lookups)
                 /\ Precede(RequestsOf(q), RequestsOf(s) \ lookups)) => InOrder(all, lookups)
<1> DEFINE all == q \o s
           m == Len(q)
           n == Len(s)
<1>1. /\ all \in Seq(Handlers) /\ m \in Nat /\ n \in Nat /\ Len(all) = m + n
      /\ \A i \in 1..(m + n) : all[i] = IF i <= m THEN q[i] ELSE s[i - m]
  BY ONLY q \in Seq(Handlers), s \in Seq(Handlers), ConcatProperties, LenProperties
<1>2. DOMAIN q = 1..m /\ DOMAIN s = 1..n /\ DOMAIN all = 1..(m + n)
  BY <1>1, LenProperties
<1> HIDE DEF all, m, n
<1>3. /\ \A i \in 1..m : i \in 1..(m + n) /\ all[i] = q[i]
      /\ \A i \in 1..n : m + i \in 1..(m + n) /\ all[m + i] = s[i]
      /\ \A i \in 1..(m + n) : \/ i \in 1..m /\ all[i] = q[i]
                               \/ i - m \in 1..n /\ i > m /\ all[i] = s[i - m]
  BY <1>1
<1>4. ToSet(all) = ToSet(q) \cup ToSet(s)
  BY <1>2, <1>3 DEF ToSet
<1>5. RequestsOf(all) = RequestsOf(q) \cup RequestsOf(s)
  BY <1>4 DEF RequestsOf
<1>6. /\ \A i \in 1..m : q[i].r \in Requests => q[i].r \in RequestsOf(q)
      /\ \A i \in 1..n : s[i].r \in Requests => s[i].r \in RequestsOf(s)
  BY <1>2 DEF RequestsOf, ToSet
<1>7. ASSUME Solo(q), Solo(s), RequestsOf(q) \cap RequestsOf(s) = {}
      PROVE  Solo(all)
  <2> SUFFICES ASSUME NEW i \in 1..(m + n), NEW k \in 1..(m + n), all[i].r \in Requests,
                      all[i].r = all[k].r
               PROVE  i = k
    BY <1>1 DEF Solo
  <2>1. CASE i \in 1..m /\ all[i] = q[i] /\ k \in 1..m /\ all[k] = q[k]
    BY <2>1, <1>7 DEF Solo, m
  <2>2. CASE i - m \in 1..n /\ all[i] = s[i - m] /\ k - m \in 1..n /\ all[k] = s[k - m]
    <3>1. i - m = k - m
      BY <2>2, <1>7 DEF Solo, n
    <3> QED
      BY <3>1, <1>1
  <2> QED
    BY <2>1, <2>2, <1>3, <1>6, <1>7
<1>8. ASSUME InOrder(q, lookups), InOrder(s, lookups),
             Precede(RequestsOf(q), RequestsOf(s) \ lookups)
      PROVE  InOrder(all, lookups)
  <2> SUFFICES ASSUME NEW i \in 1..(m + n), NEW k \in 1..(m + n), i < k,
                      all[i].r \in Requests, all[k].r \in Requests \ lookups
               PROVE  all[i].r < all[k].r
    BY <1>1 DEF InOrder
  <2>1. CASE i \in 1..m /\ all[i] = q[i] /\ k \in 1..m /\ all[k] = q[k]
    BY <2>1, <1>8 DEF InOrder, m
  <2>2. CASE i - m \in 1..n /\ all[i] = s[i - m] /\ k - m \in 1..n /\ all[k] = s[k - m]
    <3>1. i - m < k - m
      BY <1>1
    <3> QED
      BY <2>2, <3>1, <1>8 DEF InOrder, n
  <2>3. CASE i \in 1..m /\ all[i] = q[i] /\ k - m \in 1..n /\ all[k] = s[k - m]
    BY <2>3, <1>6, <1>8 DEF Precede
  <2>4. ~(i > m /\ k \in 1..m)
    BY <1>1
  <2> QED
    BY <2>1, <2>2, <2>3, <2>4, <1>3
<1> QED
  BY <1>1, <1>4, <1>5, <1>7, <1>8 DEF all

\* Taking the first handler away.
LEMMA TailFacts ==
  ASSUME NEW q \in Seq(Handlers), q # <<>>
  PROVE  /\ Head(q) \in Handlers /\ Tail(q) \in Seq(Handlers)
         /\ ToSet(q) = {Head(q)} \cup ToSet(Tail(q))
         /\ RequestsOf(q) = ({Head(q).r} \cap Requests) \cup RequestsOf(Tail(q))
         /\ Solo(q) => Solo(Tail(q)) /\ Head(q).r \notin RequestsOf(Tail(q))
         /\ InOrder(q, lookups) => /\ InOrder(Tail(q), lookups)
                          /\ Precede({Head(q).r} \cap Requests, RequestsOf(Tail(q)) \ lookups)
<1> DEFINE rest == Tail(q)
           n == Len(rest)
<1>1. /\ Head(q) = q[1] /\ rest \in Seq(Handlers) /\ n \in Nat /\ Len(q) = n + 1
      /\ \A i \in 1..n : rest[i] = q[i + 1]
      /\ \A i \in 1..Len(q) : q[i] \in Handlers
  BY HeadTailProperties, LenProperties, ElementOfSeq
<1>2. DOMAIN q = 1..(n + 1) /\ DOMAIN rest = 1..n
  BY <1>1, LenProperties
<1> HIDE DEF rest, n
<1>3. /\ \A i \in 1..n : i + 1 \in 1..(n + 1) /\ rest[i] = q[i + 1] /\ 1 < i + 1
      /\ 1 \in 1..(n + 1) /\ Head(q) = q[1]
      /\ \A i \in 1..(n + 1) : i = 1 \/ (i - 1 \in 1..n /\ q[i] = rest[i - 1])
  BY <1>1
<1>4. ToSet(q) = {Head(q)} \cup ToSet(rest)
  BY <1>2, <1>3 DEF ToSet
<1>5. RequestsOf(q) = ({Head(q).r} \cap Requests) \cup RequestsOf(rest)
  BY <1>4 DEF RequestsOf
<1>6. \A r \in RequestsOf(rest) : \E i \in 1..n : r \in Requests /\ rest[i].r = r
  BY <1>2 DEF RequestsOf, ToSet
<1>7. ASSUME Solo(q)
      PROVE  Solo(rest) /\ Head(q).r \notin RequestsOf(rest)
  <2>1. ASSUME NEW i \in 1..n, NEW k \in 1..n, rest[i].r \in Requests, rest[i].r = rest[k].r
        PROVE  i = k
    <3>1. i + 1 = k + 1
      BY <2>1, <1>1, <1>3, <1>7 DEF Solo
    <3> QED
      BY <3>1
  <2>2. ASSUME NEW i \in 1..n, rest[i].r \in Requests
        PROVE  Head(q).r # rest[i].r
    BY <2>2, <1>1, <1>3, <1>7 DEF Solo
  <2> QED
    BY <2>1, <2>2, <1>6 DEF Solo, n
<1>8. ASSUME InOrder(q, lookups)
      PROVE  /\ InOrder(rest, lookups)
             /\ Precede({Head(q).r} \cap Requests, RequestsOf(rest) \ lookups)
  <2>1. ASSUME NEW i \in 1..n, NEW k \in 1..n, i < k, rest[i].r \in Requests,
               rest[k].r \in Requests \ lookups
        PROVE  rest[i].r < rest[k].r
    <3>1. i + 1 < k + 1
      BY <2>1
    <3>2. /\ i + 1 \in 1..Len(q) /\ rest[i] = q[i + 1]
          /\ k + 1 \in 1..Len(q) /\ rest[k] = q[k + 1]
      BY <1>1, <1>3
    <3>3. q[i + 1].r < q[k + 1].r
      BY ONLY <2>1, <3>1, <3>2, <1>8 DEF InOrder
    <3> QED
      BY ONLY <3>2, <3>3
  <2>2. ASSUME NEW k \in 1..n, Head(q).r \in Requests, rest[k].r \in Requests \ lookups
        PROVE  Head(q).r < rest[k].r
    <3>1. /\ 1 \in 1..Len(q) /\ Head(q) = q[1] /\ 1 < k + 1
          /\ k + 1 \in 1..Len(q) /\ rest[k] = q[k + 1]
      BY <1>1, <1>3
    <3>2. q[1].r < q[k + 1].r
      BY ONLY <2>2, <3>1, <1>8 DEF InOrder
    <3> QED
      BY ONLY <3>1, <3>2
  <2> QED
    BY <2>1, <2>2, <1>6 DEF InOrder, Precede, n
<1> QED
  BY <1>1, <1>4, <1>5, <1>7, <1>8 DEF rest

LEMMA EmptyFacts ==
  /\ <<>> \in Seq(Handlers) /\ ToSet(<<>>) = {} /\ RequestsOf(<<>>) = {}
  /\ Solo(<<>>) /\ InOrder(<<>>, lookups)
<1>1. <<>> \in Seq(Handlers) /\ Len(<<>>) = 0 /\ DOMAIN <<>> = {}
  OBVIOUS
<1>2. ToSet(<<>>) = {}
  BY DEF ToSet
<1> QED
  BY <1>1, <1>2 DEF RequestsOf, Solo, InOrder

LEMMA OneFacts ==
  ASSUME NEW m \in Handlers
  PROVE  /\ <<m>> \in Seq(Handlers) /\ ToSet(<<m>>) = {m}
         /\ RequestsOf(<<m>>) = {m.r} \cap Requests
         /\ Solo(<<m>>) /\ InOrder(<<m>>, lookups)
<1>1. <<m>> \in Seq(Handlers) /\ Len(<<m>>) = 1 /\ DOMAIN <<m>> = 1..1 /\ <<m>>[1] = m
  OBVIOUS
<1>2. ToSet(<<m>>) = {m}
  BY <1>1 DEF ToSet
<1>3. \A i, k \in 1..1 : i = k
  OBVIOUS
<1> QED
  BY <1>1, <1>2, <1>3 DEF RequestsOf, Solo, InOrder

\* The handlers that calls on timers, socket and resolver make ready.
LEMMA TimerAbortFacts ==
  ASSUME NEW t, NEW h \in Deadlines
  PROVE  LET s == TimerAbort(t, h)
         IN  /\ s \in Seq(Handlers) /\ RequestsOf(s) = {} /\ Solo(s) /\ InOrder(s, lookups)
             /\ ToSet(s) = IF t.waiting THEN {Handler(h, NoRequest, "aborted")} ELSE {}
<1>1. Handler(h, NoRequest, "aborted") \in Handlers
  BY DEF Handler, Handlers, HandlerType, Deadlines
<1>2. Handler(h, NoRequest, "aborted").r \notin Requests
  BY Numbers DEF Handler
<1> QED
  BY <1>1, <1>2, OneFacts, EmptyFacts DEF TimerAbort

LEMMA SocketAbortFacts ==
  ASSUME sock.st = "connecting" => sock.owner \in Requests
  PROVE  /\ SocketAbort \in Seq(Handlers) /\ RequestsOf(SocketAbort) = Connecting
         /\ Solo(SocketAbort) /\ InOrder(SocketAbort, lookups)
         /\ \A m \in ToSet(SocketAbort) : m.h = "connected" /\ Connecting # {}
<1>1. CASE sock.st = "connecting"
  <2> DEFINE m == Handler("connected", sock.owner, "aborted")
  <2>1. m \in Handlers /\ m.r = sock.owner /\ m.h = "connected"
    BY <1>1, OneHandler DEF Handler
  <2>2. SocketAbort = <<m>>
    BY <1>1 DEF SocketAbort
  <2> HIDE DEF m
  <2> QED
    BY <1>1, <2>1, <2>2, OneFacts DEF Connecting
<1>2. CASE sock.st # "connecting"
  BY <1>2, EmptyFacts DEF SocketAbort, Connecting
<1> QED
  BY <1>1, <1>2

LEMMA ResolverAbortFacts ==
  ASSUME resolving \subseteq Requests
  PROVE  /\ ResolverAbort \in Seq(Handlers) /\ RequestsOf(ResolverAbort) = resolving
         /\ Solo(ResolverAbort)
         /\ \A m \in ToSet(ResolverAbort) : m.h = "resolved" /\ m.r \in resolving
<1> DEFINE n == Cardinality(resolving)
           Told(r) == Handler("resolved", r, "aborted")
           Tells(s) == \A r \in resolving : \E i \in DOMAIN s : s[i].r = r
<1>1. IsFiniteSet(resolving) /\ n \in Nat /\ ExistsBijection(1..n, resolving)
  BY Numbers, FS_Subset, FS_CardinalityType
<1>2. \A r \in Requests : Told(r) \in Handlers /\ Told(r).r = r /\ Told(r).h = "resolved"
  BY OneHandler DEF Handler
<1> HIDE DEF n, Told
<1>3. \E s \in [1..n -> {Told(r) : r \in resolving}] : Tells(s)
  <2>1. PICK f \in [1..n -> resolving] : \A r \in resolving : \E i \in 1..n : f[i] = r
    BY <1>1 DEF ExistsBijection, Bijection, Surjection
  <2> DEFINE s == [i \in 1..n |-> Told(f[i])]
  <2>2. s \in [1..n -> {Told(r) : r \in resolving}]
    BY <2>1
  <2>3. \A i \in 1..n : s[i].r = f[i]
    BY <2>1, <1>2
  <2>4. Tells(s)
    BY <2>1, <2>3
  <2> QED
    BY <2>2, <2>4
<1> DEFINE s == ResolverAbort
<1>4. s \in [1..n -> {Told(r) : r \in resolving}] /\ Tells(s)
  BY <1>3 DEF ResolverAbort, n, Told
<1> HIDE DEF s, Tells
<1>5. /\ s \in Seq(Handlers) /\ Len(s) = n /\ DOMAIN s = 1..n
      /\ \A i \in 1..n : s[i].h = "resolved" /\ s[i].r \in resolving
  <2>1. \A i \in 1..n : s[i] \in Handlers /\ s[i].h = "resolved" /\ s[i].r \in resolving
    BY <1>2, <1>4
  <2>2. s \in [1..n -> Handlers]
    BY <1>4, <2>1
  <2> QED
    BY <1>1, <2>1, <2>2, IsASeq
<1>6. \A r \in resolving : \E i \in 1..n : s[i].r = r
  BY <1>4, <1>5 DEF Tells
<1>7. RequestsOf(s) = resolving
  BY <1>5, <1>6 DEF RequestsOf, ToSet
<1>8. Solo(s)
  <2> DEFINE f == [i \in 1..n |-> s[i].r]
  <2>1. f \in Surjection(1..n, resolving)
    BY <1>5, <1>6 DEF Surjection
  <2>2. IsFiniteSet(1..n) /\ Cardinality(1..n) = Cardinality(resolving)
    BY <1>1, FS_Interval DEF n
  <2>3. f \in Injection(1..n, resolving)
    BY <2>1, <2>2, FS_SurjSameCardinalityImpliesInj
  <2>4. \A i, k \in 1..n : f[i] = f[k] => i = k
    BY <2>3 DEF Injection, IsInjective
  <2> QED
    BY <1>5, <2>4 DEF Solo
<1> QED
  BY <1>5, <1>7, <1>8 DEF s, ToSet

\* What nothing but lookups are in is in order.
LEMMA LookupsAreInOrder ==
  ASSUME NEW q \in Seq(Handlers), RequestsOf(q) \subseteq lookups
  PROVE  InOrder(q, lookups)
<1>1. \A k \in 1..Len(q) : q[k].r \in Requests => q[k].r \in RequestsOf(q)
  BY DEF RequestsOf, ToSet
<1> QED
  BY <1>1 DEF InOrder

-----------------------------------------------------------------------------
(* The worker's queue                                                      *)

LEMMA AppendFacts ==
  ASSUME NEW q \in Seq(Requests), NEW r \in Requests
  PROVE  /\ Append(q, r) \in Seq(Requests) /\ ToSet(Append(q, r)) = ToSet(q) \cup {r}
         /\ Sorted(q) /\ Precede(ToSet(q), {r}) => Sorted(Append(q, r))
<1> DEFINE all == Append(q, r)
           n == Len(q)
<1>1. /\ all \in Seq(Requests) /\ n \in Nat /\ Len(all) = n + 1 /\ all[n + 1] = r
      /\ \A i \in 1..n : all[i] = q[i]
      /\ \A i \in 1..n : q[i] \in Requests
  BY AppendProperties, LenProperties, ElementOfSeq
<1>2. DOMAIN all = 1..(n + 1) /\ DOMAIN q = 1..n
  BY <1>1, LenProperties
<1> HIDE DEF all, n
<1>3. \A i \in 1..(n + 1) : i \in 1..n \/ i = n + 1
  BY <1>1
<1>4. n + 1 \in 1..(n + 1) /\ 1..n \subseteq 1..(n + 1)
  BY <1>1
<1>5. ToSet(all) = ToSet(q) \cup {r}
  BY <1>1, <1>2, <1>3, <1>4 DEF ToSet
<1>6. \A i \in 1..n : q[i] \in ToSet(q)
  BY <1>2 DEF ToSet
<1>7. ASSUME Sorted(q), Precede(ToSet(q), {r})
      PROVE  Sorted(all)
  <2> SUFFICES ASSUME NEW i \in 1..(n + 1), NEW k \in 1..(n + 1), i < k
               PROVE  all[i] < all[k]
    BY <1>1 DEF Sorted
  <2>1. i \in 1..n
    BY <1>1
  <2>2. CASE k \in 1..n
    BY <2>1, <2>2, <1>1, <1>7 DEF Sorted, n
  <2>3. CASE k = n + 1
    BY <2>1, <2>3, <1>1, <1>6, <1>7 DEF Precede
  <2> QED
    BY <2>2, <2>3, <1>3
<1> QED
  BY <1>1, <1>5, <1>7 DEF all

LEMMA FirstFacts ==
  ASSUME NEW q \in Seq(Requests), q # <<>>, Sorted(q)
  PROVE  LET rest == RemoveAt(q, 1)
         IN  /\ rest \in Seq(Requests) /\ q[1] \in ToSet(q) /\ q[1] \in Requests
             /\ ToSet(rest) = ToSet(q) \ {q[1]}
             /\ Sorted(rest) /\ Precede({q[1]}, ToSet(rest))
<1> DEFINE front == SubSeq(q, 1, 1 - 1)
           rest == SubSeq(q, 2, Len(q))
           n == Len(rest)
<1>1. Len(q) \in Nat /\ Len(q) # 0 /\ \A i \in 1..Len(q) : q[i] \in Requests
  BY EmptySeq, LenProperties, ElementOfSeq
<1>2. /\ rest \in Seq(Requests) /\ n = Len(q) - 1
      /\ \A i \in 1..n : rest[i] = q[i + 1]
  <2>1. \A i \in 2..Len(q) : q[i] \in Requests
    BY <1>1
  <2>2. /\ rest \in Seq(Requests)
        /\ n = (IF 2 <= Len(q) THEN Len(q) - 2 + 1 ELSE 0)
        /\ \A i \in 1..(Len(q) - 2 + 1) : rest[i] = q[2 + i - 1]
    BY <1>1, <2>1, SubSeqProperties
  <2> HIDE DEF rest, n
  <2>3. n = Len(q) - 1 /\ Len(q) - 2 + 1 = n
    <3>1. CASE Len(q) = 1
      BY <3>1, <2>2
    <3>2. CASE 2 <= Len(q)
      BY <3>2, <2>2, <1>1
    <3>3. ASSUME NEW m \in Nat, m # 0
          PROVE  m = 1 \/ 2 <= m
      BY <3>3
    <3>4. Len(q) \in Nat /\ Len(q) # 0
      BY <1>1
    <3>5. Len(q) = 1 \/ 2 <= Len(q)
      BY ONLY <3>3, <3>4
    <3> QED
      BY <3>1, <3>2, <3>5
  <2>4. ASSUME NEW i \in 1..n
        PROVE  rest[i] = q[i + 1]
    <3>1. 2 + i - 1 = i + 1
      OBVIOUS
    <3>2. rest[i] = q[2 + i - 1]
      BY <2>2, <2>3
    <3> QED
      BY <3>1, <3>2
  <2> QED
    BY <2>2, <2>3, <2>4
<1>3. front = <<>>
  <2>1. \A i \in 1..(1 - 1) : q[i] \in Requests
    OBVIOUS
  <2>2. front \in Seq(Requests) /\ Len(front) = IF 1 <= 1 - 1 THEN 1 - 1 - 1 + 1 ELSE 0
    BY <2>1, SubSeqProperties
  <2> QED
    BY <2>2, EmptySeq
<1>4. RemoveAt(q, 1) = rest
  <2>1. RemoveAt(q, 1) = front \o SubSeq(q, 1 + 1, Len(q))
    BY DEF RemoveAt
  <2>2. RemoveAt(q, 1) = front \o rest
    BY <2>1
  <2> QED
    BY <2>2, <1>2, <1>3, ConcatEmptySeq
<1>5. DOMAIN q = 1..(n + 1) /\ DOMAIN rest = 1..n /\ n \in Nat
  BY <1>1, <1>2, LenProperties
<1> HIDE DEF front, rest, n
<1>6. /\ \A i \in 1..n : i + 1 \in 1..(n + 1) /\ 1 < i + 1
      /\ \A i \in 1..(n + 1) : i = 1 \/ (i - 1 \in 1..n /\ (i - 1) + 1 = i)
      /\ 1 \in 1..(n + 1) /\ Len(q) = n + 1
  BY <1>2, <1>5, <1>1
<1>7. \A i \in 1..n : q[1] < rest[i] /\ q[1] # rest[i]
  <2> TAKE i \in 1..n
  <2>1. q[1] < q[i + 1] /\ q[1] \in Nat
    BY <1>1, <1>6, Numbers DEF Sorted
  <2> QED
    BY <2>1, <1>2
<1>8. ToSet(rest) = ToSet(q) \ {q[1]}
  <2>1. ASSUME NEW i \in 1..n
        PROVE  rest[i] \in ToSet(q) \ {q[1]}
    <3>1. i + 1 \in DOMAIN q /\ rest[i] = q[i + 1] /\ q[1] # rest[i]
      BY <1>2, <1>5, <1>6, <1>7
    <3> QED
      BY <3>1 DEF ToSet
  <2>2. ASSUME NEW i \in 1..(n + 1), q[i] # q[1]
        PROVE  i - 1 \in 1..n /\ rest[i - 1] = q[i]
    BY <2>2, <1>2, <1>6
  <2>3. \A x \in ToSet(q) : \E i \in 1..(n + 1) : x = q[i]
    BY <1>5 DEF ToSet
  <2>4. \A i \in 1..n : rest[i] \in ToSet(rest)
    BY <1>5 DEF ToSet
  <2>5. \A x \in ToSet(rest) : \E i \in 1..n : x = rest[i]
    BY <1>5 DEF ToSet
  <2> QED
    BY <2>1, <2>2, <2>3, <2>4, <2>5
<1>9. Precede({q[1]}, ToSet(rest))
  BY <1>5, <1>7 DEF Precede, ToSet
<1>10. Sorted(rest)
  <2> SUFFICES ASSUME NEW i \in 1..n, NEW k \in 1..n, i < k
               PROVE  rest[i] < rest[k]
    BY DEF Sorted, n
  <2>1. i + 1 < k + 1 /\ rest[i] = q[i + 1] /\ rest[k] = q[k + 1]
    BY <1>2
  <2> QED
    BY <2>1, <1>6 DEF Sorted
<1>11. q[1] \in ToSet(q) /\ q[1] \in Requests
  BY <1>1, <1>5, <1>6 DEF ToSet
<1> QED
  BY <1>2, <1>4, <1>8, <1>9, <1>10, <1>11

LEMMA HandlersAreTyped == Seq(Handlers) \subseteq Seq(HandlerType)
  BY DEF Handlers

LEMMA TimerFacts ==
  ASSUME NEW t \in TimerType
  PROVE  /\ Cancelled(t) \in TimerType /\ Expired(t) \in TimerType
         /\ ~Cancelled(t).waiting /\ Cancelled(t).expired = t.expired
         /\ Expired(t).expired
         /\ \A r \in Requests \cup {NoRequest} :
              Armed(r) \in TimerType /\ Armed(r).waiting /\ ~Armed(r).expired
<1>1. /\ Cancelled(t) \in TimerType /\ ~Cancelled(t).waiting
      /\ Cancelled(t).expired = t.expired
  BY DEF TimerType, Cancelled
<1>2. Expired(t) \in TimerType /\ Expired(t).expired
  BY DEF TimerType, Expired, NoRequest
<1>3. ASSUME NEW r \in Requests \cup {NoRequest}
      PROVE  Armed(r) \in TimerType /\ Armed(r).waiting /\ ~Armed(r).expired
  BY DEF TimerType, Armed
<1> QED
  BY <1>1, <1>2, <1>3

Verdicts == {"timeout"} \cup Outcomes

LEMMA CallFacts ==
  ASSUME TypeOK, NEW r \in Requests, NEW results \in Seq(Verdicts), Call(r, results)
  PROVE  /\ calls' \in [Requests -> Seq(Verdicts)] /\ excused' \subseteq Requests
         /\ calls' = [calls EXCEPT ![r] = calls[r] \o results]
<1>1. calls \in [Requests -> Seq(Verdicts)] /\ excused \subseteq Requests
  BY DEF TypeOK, Verdicts
<1>2. calls[r] \o results \in Seq(Verdicts)
  BY <1>1, ConcatProperties
<1> QED
  BY <1>1, <1>2 DEF Call

-----------------------------------------------------------------------------
(* What a step does to the sequence of ready handlers: it takes none or    *)
(* the first, of the requests in taken, and adds some at the end, of the   *)
(* requests in new.                                                        *)

\* A handler of a resolution comes from a resolution, one of a connection from
\* an attempt or from endpoints that are known.
KindsStay ==
  \A m \in ToSet(ready') :
    /\ m.h = "resolved" => m \in ToSet(ready) \/ m.r \in resolving
    /\ m.h = "connected" => \/ m \in ToSet(ready)
                            \/ Connecting # {} \/ endpoints = "empty"

\* The handlers of other requests are none that were not there.
OthersStay(new) == \A m \in ToSet(ready') : m.r \in Requests \ new => m \in ToSet(ready)

ReadyGets(taken, new) ==
  /\ ready' \in Seq(Handlers) /\ Solo(ready') /\ KindsStay /\ OthersStay(new)
  /\ Completed' = (Completed \ taken) \cup new
  /\ InOrder(ready, lookups) /\ Precede(Completed \ taken, new \ lookups)
       => InOrder(ready', lookups)

\* The handlers a step may add.
Additions(s, new) ==
  /\ s \in Seq(Handlers) /\ Solo(s) /\ InOrder(s, lookups) /\ RequestsOf(s) = new
  /\ \A m \in ToSet(s) :
       /\ m.h = "resolved" => m.r \in resolving
       /\ m.h = "connected" => Connecting # {} \/ endpoints = "empty"

LEMMA NoneAdded == Additions(<<>>, {})
  BY EmptyFacts DEF Additions

LEMMA DeadlineAdded ==
  ASSUME NEW t, NEW h \in Deadlines
  PROVE  Additions(TimerAbort(t, h), {})
<1>1. Handler(h, NoRequest, "aborted").h \in Deadlines
  BY DEF Handler
<1> QED
  BY <1>1, TimerAbortFacts, Distinct DEF Additions

LEMMA SocketAdded ==
  ASSUME Typing
  PROVE  Additions(SocketAbort, Connecting)
<1>1. sock.st = "connecting" => sock.owner \in Requests
  BY DEF Typing
<1> QED
  BY <1>1, SocketAbortFacts DEF Additions

LEMMA ResolverAdded ==
  ASSUME Typing, resolving \subseteq lookups
  PROVE  Additions(ResolverAbort, resolving)
<1>1. resolving \subseteq Requests
  BY DEF Typing, TypeOK
<1> QED
  BY <1>1, ResolverAbortFacts, LookupsAreInOrder DEF Additions

LEMMA OneAdded ==
  ASSUME NEW h \in {"resolved", "connected"}, NEW r \in Requests,
         NEW e \in {"ok", "error", "aborted", "notFound"},
         h = "resolved" => r \in resolving,
         h = "connected" => Connecting # {} \/ endpoints = "empty"
  PROVE  Additions(<<Handler(h, r, e)>>, {r})
<1>1. Handler(h, r, e) \in Handlers
  BY OneHandler
<1>2. Handler(h, r, e).h = h /\ Handler(h, r, e).r = r
  BY DEF Handler
<1>3. {r} \cap Requests = {r}
  OBVIOUS
<1> QED
  BY <1>1, <1>2, <1>3, OneFacts DEF Additions

LEMMA BothAdded ==
  ASSUME NEW s1, NEW new1, Additions(s1, new1), NEW s2, NEW new2, Additions(s2, new2),
         new1 \cap new2 = {}, Precede(new1, new2 \ lookups)
  PROVE  Additions(s1 \o s2, new1 \cup new2)
<1>1. s1 \in Seq(Handlers) /\ s2 \in Seq(Handlers)
  BY DEF Additions
<1>2. /\ s1 \o s2 \in Seq(Handlers) /\ ToSet(s1 \o s2) = ToSet(s1) \cup ToSet(s2)
      /\ RequestsOf(s1 \o s2) = RequestsOf(s1) \cup RequestsOf(s2)
      /\ Solo(s1 \o s2) /\ InOrder(s1 \o s2, lookups)
  BY <1>1, JoinFacts DEF Additions
<1> QED
  BY <1>1, <1>2 DEF Additions

LEMMA AppendIsJoin ==
  ASSUME NEW q \in Seq(Handlers), NEW m \in Handlers
  PROVE  Append(q, m) = q \o <<m>>
  OBVIOUS

\* Handlers join those that were ready.
LEMMA ReadyJoined ==
  ASSUME Typing, Solo(ready), NEW s, NEW new, Additions(s, new), new \cap Completed = {},
         ready' = ready \o s
  PROVE  ReadyGets({}, new)
<1>1. ready \in Seq(Handlers) /\ s \in Seq(Handlers)
  BY DEF Typing, Additions
<1>2. /\ ready' \in Seq(Handlers) /\ ToSet(ready') = ToSet(ready) \cup ToSet(s)
      /\ RequestsOf(ready') = RequestsOf(ready) \cup RequestsOf(s) /\ Solo(ready')
      /\ InOrder(ready, lookups) /\ Precede(Completed, new \ lookups)
           => InOrder(ready', lookups)
  BY <1>1, JoinFacts DEF Additions, Completed
<1>3. KindsStay /\ OthersStay(new)
  BY <1>2 DEF KindsStay, OthersStay, Additions, RequestsOf
<1>4. Completed' = (Completed \ {}) \cup new /\ Completed \ {} = Completed
  BY <1>2 DEF Completed, Additions
<1> QED
  BY <1>2, <1>3, <1>4 DEF ReadyGets

\* Handlers join what is left when the first one runs.
LEMMA ReadyRan ==
  ASSUME Typing, Solo(ready), NEW s, NEW new, Additions(s, new), new \cap Completed = {},
         ready # <<>>, ready' = Tail(ready) \o s
  PROVE  /\ Head(ready) \in Handlers /\ Head(ready) \in ToSet(ready)
         /\ ReadyGets({Head(ready).r}, new)
         /\ {Head(ready).r} \cap Requests \subseteq Completed
         /\ InOrder(ready, lookups) =>
              Precede({Head(ready).r} \cap Requests, (Completed \ {Head(ready).r}) \ lookups)
<1> DEFINE q == Tail(ready)
           m == Head(ready)
<1>1. /\ ready \in Seq(Handlers) /\ s \in Seq(Handlers)
  BY DEF Typing, Additions
<1>2. /\ q \in Seq(Handlers) /\ m \in Handlers /\ ToSet(ready) = {m} \cup ToSet(q)
      /\ Completed = ({m.r} \cap Requests) \cup RequestsOf(q)
      /\ Solo(q) /\ m.r \notin RequestsOf(q)
      /\ InOrder(ready, lookups) =>
           /\ InOrder(q, lookups)
           /\ Precede({m.r} \cap Requests, RequestsOf(q) \ lookups)
  BY <1>1, TailFacts DEF Completed
<1> HIDE DEF q, m
<1>3. RequestsOf(q) = Completed \ {m.r}
  BY <1>2 DEF RequestsOf
<1>4. /\ ready' \in Seq(Handlers) /\ ToSet(ready') = ToSet(q) \cup ToSet(s)
      /\ RequestsOf(ready') = RequestsOf(q) \cup RequestsOf(s) /\ Solo(ready')
      /\ InOrder(q, lookups) /\ Precede(RequestsOf(q), new \ lookups)
           => InOrder(ready', lookups)
  <2>1. RequestsOf(q) \cap RequestsOf(s) = {}
    BY <1>3 DEF Additions
  <2>2. ready' = q \o s
    BY DEF q
  <2>3. Solo(s) /\ InOrder(s, lookups) /\ RequestsOf(s) = new
    BY DEF Additions
  <2> DEFINE all == q \o s
  <2>4. /\ all \in Seq(Handlers) /\ ToSet(all) = ToSet(q) \cup ToSet(s)
        /\ RequestsOf(all) = RequestsOf(q) \cup RequestsOf(s) /\ Solo(all)
        /\ InOrder(q, lookups) /\ Precede(RequestsOf(q), RequestsOf(s) \ lookups)
             => InOrder(all, lookups)
    BY <1>1, <1>2, <2>1, <2>3, JoinFacts
  <2> QED
    BY <2>2, <2>3, <2>4
<1>5. KindsStay /\ OthersStay(new)
  BY <1>2, <1>4 DEF KindsStay, OthersStay, Additions, RequestsOf
<1>6. Completed' = (Completed \ {m.r}) \cup new
  BY <1>3, <1>4 DEF Completed, Additions
<1> QED
  BY <1>2, <1>3, <1>4, <1>5, <1>6 DEF ReadyGets, m

LEMMA ReadySame ==
  ASSUME Typing, Solo(ready), ready' = ready
  PROVE  ReadyGets({}, {})
<1>1. Completed' = (Completed \ {}) \cup {}
  BY DEF Completed
<1> QED
  BY <1>1 DEF ReadyGets, KindsStay, OthersStay, Typing

-----------------------------------------------------------------------------
(* Where each step moves which requests                                    *)

Threads == {"worker", "io"}
Sane == Typing /\ Accounting /\ Lookups

WorkerStays == pc'.worker = pc.worker /\ req'.worker = req.worker
IoStays == pc'.io = pc.io /\ req'.io = req.io

LEMMA HeldStays ==
  /\ WorkerStays => InWorker' = InWorker
  /\ IoStays => InIo' = InIo
  /\ sock' = sock => Connecting' = Connecting
  /\ queue' = queue => Waiting' = Waiting
  /\ submitted' = submitted /\ calls' = calls => InFlight' = InFlight
  BY DEF WorkerStays, IoStays, InWorker, InIo, Connecting, Waiting, InFlight

LEMMA PcFacts ==
  ASSUME Typing
  PROVE  /\ pc.worker \in WorkerPlaces /\ pc.io \in IoPlaces
         /\ pc \in [Threads -> WorkerPlaces \cup IoPlaces]
         /\ req \in [Threads -> Requests \cup {NoRequest}]
         /\ pc.worker \in WorkerHolds => InWorker = {req.worker} /\ req.worker \in Requests
         /\ pc.io \in IoHolds => InIo = {req.io} /\ req.io \in Requests
         /\ pc.worker \notin WorkerHolds => InWorker = {}
         /\ pc.io \notin IoHolds => InIo = {}
  BY DEF Typing, TypeOK, Threads, WorkerPlaces, IoPlaces, InWorker, InIo

LEMMA WaitingAreRequests == Sane => Waiting \subseteq Requests
<1> SUFFICES ASSUME Sane
             PROVE  Waiting \subseteq Requests
  OBVIOUS
<1>1. queue \in Seq(Requests)
  BY DEF Sane, Typing, TypeOK
<1>2. \A i \in DOMAIN queue : queue[i] \in Requests
  BY <1>1, ElementOfSeq, LenProperties
<1> QED
  BY <1>2 DEF Waiting, ToSet

\* The worker waits for jobs, is woken, or ends.
WorkerRests == WorkerPredicate \/ WorkerBlock \/ WorkerSpuriousWake \/ WorkerEnds
RestPlaces == {"idle", "block", "asleep", "done"}
Resting == \/ pc' = pc
           \/ pc.worker \in RestPlaces /\ \E place \in RestPlaces : pc' = [pc EXCEPT !["worker"] = place]

LEMMA RestFacts ==
  /\ WorkerRests \/ DtorNotifyWorker => Resting /\ UNCHANGED destroyFrame
  /\ WorkerRests => dtor' = dtor
  /\ \A r : Submit(r) => Resting
<1>1. WakeWorker(pc) = pc \/ (pc.worker = "asleep" /\ WakeWorker(pc) = [pc EXCEPT !["worker"] = "idle"])
  BY DEF WakeWorker
<1>2. ASSUME WorkerRests
      PROVE  Resting /\ UNCHANGED destroyFrame /\ dtor' = dtor
  BY <1>2 DEF WorkerRests, WorkerPredicate, WorkerBlock, WorkerSpuriousWake, WorkerEnds, Goto,
              workerFrame, destroyFrame, clientVars, Resting, RestPlaces
<1>3. ASSUME DtorNotifyWorker
      PROVE  Resting /\ UNCHANGED destroyFrame
  BY <1>1, <1>3 DEF DtorNotifyWorker, Resting, RestPlaces
<1>4. ASSUME NEW r, Submit(r)
      PROVE  Resting
  BY <1>1, <1>4 DEF Submit, Resting, RestPlaces
<1> QED
  BY <1>2, <1>3, <1>4

LEMMA RestingStays ==
  ASSUME Typing, Resting, req' = req
  PROVE  /\ IoStays /\ InWorker' = InWorker /\ InIo' = InIo
         /\ pc' \in [Threads -> WorkerPlaces \cup IoPlaces]
         /\ pc'.worker = pc.worker \/ (pc.worker \in RestPlaces /\ pc'.worker \in RestPlaces)
         /\ \A t \in Threads : pc[t] = "arm" => pc'[t] = "arm"
<1>1. /\ pc \in [Threads -> WorkerPlaces \cup IoPlaces] /\ RestPlaces \subseteq WorkerPlaces
      /\ RestPlaces \cap WorkerHolds = {} /\ "arm" \notin RestPlaces
  BY PcFacts DEF RestPlaces, WorkerPlaces, WorkerHolds
<1>2. CASE pc' = pc
  BY <1>1, <1>2 DEF IoStays, InWorker, InIo
<1>3. CASE pc.worker \in RestPlaces /\ \E place \in RestPlaces : pc' = [pc EXCEPT !["worker"] = place]
  <2>1. PICK place \in RestPlaces : pc' = [pc EXCEPT !["worker"] = place]
    BY <1>3
  <2>2. pc'.worker = place /\ pc'.io = pc.io
    BY <1>1, <2>1 DEF Threads
  <2>3. InWorker = {} /\ InWorker' = {}
    BY <1>1, <1>3, <2>2 DEF InWorker
  <2> QED
    BY <1>1, <1>3, <2>1, <2>2, <2>3 DEF IoStays, InIo, Threads
<1> QED
  BY <1>2, <1>3 DEF Resting

\* The steps that move no request.
QuietStep ==
  \/ ArmResolver \/ UseCache \/ NotifyIo \/ SetupArm("worker") \/ SetupArm("io")
  \/ IoTest \/ IoRunReturns \/ IoBlock \/ IoSpuriousWake \/ IoReset
  \/ ResolverTimerExpires \/ SocketTimerExpires
  \/ DtorStop \/ DtorNotify \/ DtorJoin \/ DtorJoinWorker \/ UNCHANGED vars
  \/ WorkerRests \/ DtorNotifyWorker

AllStay == /\ UNCHANGED <<queue, resolving, lookups, endpoints, submitted, calls>>
           /\ InWorker' = InWorker /\ Connecting' = Connecting /\ InIo' = InIo
           /\ ReadyGets({}, {})

LEMMA QuietMoves ==
  ASSUME Sane, QuietStep
  PROVE  AllStay
<1> USE DEF Sane
<1>1. /\ Typing /\ Solo(ready)
      /\ \A h \in Deadlines : \A t : ready' = ready \o TimerAbort(t, h) => ReadyGets({}, {})
      /\ ready' = ready => ReadyGets({}, {})
  <2>1. Typing /\ Solo(ready)
    BY DEF Accounting
  <2>2. ASSUME NEW t, NEW h \in Deadlines, ready' = ready \o TimerAbort(t, h)
        PROVE  ReadyGets({}, {})
    BY <2>1, <2>2, DeadlineAdded, ReadyJoined
  <2> QED
    BY <2>1, <2>2, ReadySame
<1>2. /\ "resolverDeadline" \in Deadlines /\ "socketDeadline" \in Deadlines
  BY Distinct
<1> USE <1>1, PcFacts, HeldStays DEF Goto, Release, Threads, WorkerHolds, IoHolds
<1>3. CASE ArmResolver
  BY <1>2, <1>3 DEF ArmResolver, AllStay, InWorker, InIo, clientVars
<1>4. CASE UseCache
  BY <1>2, <1>4 DEF UseCache, AllStay, InWorker, InIo, clientVars
<1>5. CASE NotifyIo \/ DtorNotify
  BY <1>5 DEF NotifyIo, DtorNotify, WakeIo, AllStay, InWorker, InIo, clientVars, ioVars
<1>6. CASE SetupArm("worker")
  BY <1>2, <1>6 DEF SetupArm, AllStay, InWorker, InIo, clientVars
<1>7. CASE SetupArm("io")
  BY <1>2, <1>7 DEF SetupArm, AllStay, InWorker, InIo, clientVars
<1>8. CASE IoTest \/ IoRunReturns \/ IoBlock \/ IoSpuriousWake \/ IoReset
  BY <1>8 DEF IoTest, IoRunReturns, IoBlock, IoSpuriousWake, IoReset, LoopAgain, AllStay, InWorker,
              InIo, clientVars, ioVars
<1>9. CASE ResolverTimerExpires \/ SocketTimerExpires
  BY <1>2, <1>9 DEF ResolverTimerExpires, SocketTimerExpires, envFrame, threadVars, clientVars,
                    AllStay, WorkerStays, IoStays
<1>10. CASE DtorStop \/ DtorJoin \/ DtorJoinWorker
  BY <1>10 DEF DtorStop, DtorJoin, DtorJoinWorker, destroyFrame, threadVars, ioVars, AllStay,
               WorkerStays, IoStays
<1>11. CASE UNCHANGED vars
  BY <1>11 DEF vars, threadVars, ioVars, clientVars, AllStay, WorkerStays, IoStays
<1>12. CASE WorkerRests \/ DtorNotifyWorker
  <2>1. Resting /\ UNCHANGED destroyFrame
    BY <1>12, RestFacts
  <2> QED
    BY <2>1, RestingStays DEF destroyFrame, ioVars, AllStay
<1> QED
  BY <1>3, <1>4, <1>5, <1>6, <1>7, <1>8, <1>9, <1>10, <1>11, <1>12 DEF QuietStep

\* The steps of clients and of the worker that move requests.

LEMMA SubmitMoves ==
  ASSUME Sane, NEW r \in Requests, Submit(r)
  PROVE  /\ r \notin submitted /\ submitted' = submitted \cup {r} /\ calls[r] = <<>>
         /\ submitted = 1..(r - 1)
         /\ queue' \in Seq(Requests) /\ Sorted(queue')
         /\ Waiting' = Waiting \cup {r} /\ InFlight' = InFlight \cup {r}
         /\ UNCHANGED <<resolving, lookups, endpoints, calls>>
         /\ InWorker' = InWorker /\ Connecting' = Connecting /\ InIo' = InIo
         /\ ReadyGets({}, {})
<1>1. /\ queue \in Seq(Requests) /\ Sorted(queue) /\ ToSet(queue) \subseteq submitted
      /\ \A s \in Requests : s \notin submitted => calls[s] = <<>>
  BY DEF Sane, Accounting, Typing, TypeOK, InFlight, Waiting
<1>2. /\ submitted = 1..(r - 1) /\ r \notin submitted /\ submitted' = submitted \cup {r}
      /\ queue' = Append(queue, r)
  BY Numbers DEF Submit
<1>3. Precede(ToSet(queue), {r})
  BY <1>1, <1>2, Numbers DEF Precede
<1>4. /\ queue' \in Seq(Requests) /\ Sorted(queue') /\ Waiting' = Waiting \cup {r}
  BY <1>1, <1>2, <1>3, AppendFacts DEF Waiting
<1>5. ReadyGets({}, {})
  BY ReadySame DEF Sane, Accounting, Submit, ioVars
<1>6. calls' = calls /\ calls[r] = <<>>
  BY <1>1, <1>2 DEF Submit
<1>7. InFlight' = InFlight \cup {r}
  BY <1>2, <1>6 DEF InFlight
<1>8. InWorker' = InWorker /\ InIo' = InIo
  BY RestFacts, RestingStays DEF Sane, Submit
<1> QED
  BY <1>2, <1>4, <1>5, <1>6, <1>7, <1>8, HeldStays DEF Submit, ioVars

LEMMA TakeJobMoves ==
  ASSUME Sane, TakeJob
  PROVE  \E j \in Waiting :
           /\ Waiting' = Waiting \ {j} /\ Precede({j}, Waiting')
           /\ queue' \in Seq(Requests) /\ Sorted(queue')
           /\ InWorker = {} /\ InWorker' = {j} /\ req'.worker = j
           /\ lookups' = IF endpoints = "unknown" THEN lookups \cup {j} ELSE lookups
           /\ UNCHANGED <<resolving, endpoints, calls, submitted>>
           /\ Connecting' = Connecting /\ InIo' = InIo /\ InFlight' = InFlight
           /\ ready' = ready /\ ReadyGets({}, {})
<1> DEFINE j == queue[1]
<1>1. queue \in Seq(Requests) /\ Sorted(queue) /\ queue # <<>> /\ queue' = RemoveAt(queue, 1)
  BY DEF Sane, Accounting, Typing, TypeOK, TakeJob, Turn
<1>2. /\ queue' \in Seq(Requests) /\ j \in Waiting /\ Waiting' = Waiting \ {j}
      /\ Sorted(queue') /\ Precede({j}, Waiting')
  BY <1>1, FirstFacts DEF Waiting
<1>3. /\ pc.worker = "idle" /\ pc' = [pc EXCEPT !["worker"] = pc'.worker]
      /\ pc'.worker \in {"resolve", "cached"}
      /\ req' = [req EXCEPT !["worker"] = j]
      /\ lookups' = IF endpoints = "unknown" THEN lookups \cup {j} ELSE lookups
  BY PcFacts DEF Sane, TakeJob, NextJob, Turn, Goto, Threads
<1> HIDE DEF j
<1>4. InWorker = {} /\ InWorker' = {j} /\ req'.worker = j /\ IoStays
  BY <1>3, PcFacts DEF Sane, InWorker, WorkerHolds, IoStays, Threads
<1>5. ReadyGets({}, {})
  BY ReadySame DEF Sane, Accounting, TakeJob
<1> QED
  BY <1>2, <1>3, <1>4, <1>5, HeldStays DEF TakeJob, clientVars

LEMMA ResolveMoves ==
  ASSUME Sane, Resolve
  PROVE  /\ InWorker = {req.worker} /\ InWorker' = {} /\ resolving' = resolving \cup InWorker
         /\ UNCHANGED <<queue, lookups, endpoints, calls, submitted>>
         /\ Connecting' = Connecting /\ InIo' = InIo /\ ReadyGets({}, {})
<1>1. /\ pc.worker = "resolve" /\ pc' = [pc EXCEPT !["worker"] = "armResolver"] /\ req' = req
      /\ resolving' = resolving \cup {req.worker}
  BY DEF Resolve, Goto
<1>2. InWorker = {req.worker} /\ InWorker' = {} /\ IoStays
  BY <1>1, PcFacts DEF Sane, InWorker, WorkerHolds, IoStays, Threads
<1>3. ReadyGets({}, {})
  BY ReadySame DEF Sane, Accounting, Resolve
<1> QED
  BY <1>1, <1>2, <1>3, HeldStays DEF Resolve, clientVars

LEMMA SetupCloseMoves ==
  ASSUME Sane, NEW t \in Threads, SetupClose(t)
  PROVE  /\ pc[t] = "close" /\ pc' = [pc EXCEPT ![t] = "connect"] /\ req' = req
         /\ InWorker' = InWorker /\ InIo' = InIo /\ Connecting' = {}
         /\ UNCHANGED <<queue, resolving, lookups, endpoints, calls, submitted>>
         /\ ReadyGets({}, Connecting)
<1>1. /\ pc[t] = "close" /\ pc' = [pc EXCEPT ![t] = "connect"] /\ req' = req
      /\ sock' = Closed /\ ready' = ready \o SocketAbort
  BY DEF SetupClose, Goto
<1>2. Connecting \cap Completed = {} /\ Solo(ready) /\ Typing
  BY DEF Sane, Accounting, Apart
<1>3. ReadyGets({}, Connecting)
  BY <1>1, <1>2, SocketAdded, ReadyJoined
<1>4. Connecting' = {}
  BY <1>1 DEF Connecting, Closed
<1>5. InWorker' = InWorker /\ InIo' = InIo
  <2>1. CASE t = "worker"
    BY <1>1, <1>2, <2>1, PcFacts DEF InWorker, InIo, WorkerHolds, Threads
  <2>2. CASE t = "io"
    BY <1>1, <1>2, <2>2, PcFacts DEF InWorker, InIo, IoHolds, Threads
  <2> QED
    BY <2>1, <2>2 DEF Threads
<1> QED
  BY <1>1, <1>3, <1>4, <1>5 DEF SetupClose, clientVars

Holds(t) == IF t = "worker" THEN InWorker ELSE InIo
Other(t) == IF t = "worker" THEN InIo ELSE InWorker

LEMMA SetupConnectMoves ==
  ASSUME Sane, NEW t \in Threads, SetupConnect(t)
  PROVE  /\ pc[t] = "connect" /\ pc' = [pc EXCEPT ![t] = "arm"] /\ req' = req
         /\ Holds(t) = {req[t]} /\ req[t] \in Requests /\ Holds(t)' = {} /\ Other(t)' = Other(t)
         /\ UNCHANGED <<queue, resolving, lookups, endpoints, calls, submitted>>
         /\ IF endpoints = "empty"
            THEN Connecting' = Connecting /\ ReadyGets({}, Holds(t))
            ELSE Connecting' = Holds(t) /\ ReadyGets({}, Connecting)
<1>1. /\ pc[t] = "connect" /\ pc' = [pc EXCEPT ![t] = "arm"] /\ req' = req
  BY DEF SetupConnect, Goto
<1>2. /\ (Connecting \cup InWorker \cup InIo) \cap Completed = {} /\ Solo(ready) /\ Typing
      /\ ready \in Seq(Handlers)
  BY DEF Sane, Accounting, Apart, Typing
<1>3. /\ Holds(t) = {req[t]} /\ req[t] \in Requests /\ Holds(t)' = {} /\ Other(t)' = Other(t)
  <2>1. CASE t = "worker"
    BY <1>1, <1>2, <2>1, PcFacts DEF Holds, Other, InWorker, InIo, WorkerHolds, Threads
  <2>2. CASE t = "io"
    BY <1>1, <1>2, <2>2, PcFacts DEF Holds, Other, InWorker, InIo, IoHolds, Threads
  <2> QED
    BY <2>1, <2>2 DEF Threads
<1>4. Holds(t) \cap Completed = {}
  BY <1>2 DEF Holds
<1>5. CASE endpoints = "empty"
  <2>1. /\ sock' = sock /\ ready' = Append(ready, Handler("connected", req[t], "notFound"))
    BY <1>5 DEF SetupConnect
  <2>2. /\ Additions(<<Handler("connected", req[t], "notFound")>>, {req[t]})
        /\ Handler("connected", req[t], "notFound") \in Handlers
    BY <1>3, <1>5, OneAdded, OneHandler
  <2>3. ReadyGets({}, Holds(t))
    BY <1>2, <1>3, <1>4, <2>1, <2>2, AppendIsJoin, ReadyJoined
  <2> QED
    BY <1>1, <1>3, <1>5, <2>1, <2>3, HeldStays DEF SetupConnect, clientVars
<1>6. CASE endpoints # "empty"
  <2>1. /\ sock' = [st |-> "connecting", owner |-> req[t], written |-> NoRequest]
        /\ ready' = ready \o SocketAbort
    BY <1>6 DEF SetupConnect
  <2>2. Connecting' = Holds(t)
    BY <2>1, <1>3 DEF Connecting
  <2>3. ReadyGets({}, Connecting)
    BY <1>2, <2>1, SocketAdded, ReadyJoined
  <2> QED
    BY <1>1, <1>3, <1>6, <2>2, <2>3 DEF SetupConnect, clientVars
<1> QED
  BY <1>5, <1>6

\* Requests that are answered.

Answers(r) == {<<v>> : v \in Verdicts}
              \cup (IF r \in Throwing THEN {<<v, "failed">> : v \in Verdicts} ELSE {})

\* Request r, unanswered, is answered.
Answered(r) == /\ r \in InFlight /\ InFlight' = InFlight \ {r}
               /\ calls' \in [Requests -> Seq(Verdicts)] /\ excused' \subseteq Requests
               /\ \E a \in Answers(r) : calls' = [calls EXCEPT ![r] = a]

LEMMA AnswerFacts ==
  ASSUME Sane, NEW r \in InFlight, NEW a \in Answers(r), Call(r, a), submitted' = submitted
  PROVE  Answered(r)
<1>1. a \in Seq(Verdicts) /\ a # <<>>
  <2>1. "failed" \in Verdicts
    BY DEF Verdicts, Outcomes
  <2>2. \A v \in Verdicts : <<v>> \in Seq(Verdicts) /\ <<v, "failed">> \in Seq(Verdicts)
    BY <2>1
  <2>3. \A v : <<v>> # <<>> /\ <<v, "failed">> # <<>>
    OBVIOUS
  <2>4. \/ \E v \in Verdicts : a = <<v>>
        \/ \E v \in Verdicts : a = <<v, "failed">>
    BY DEF Answers
  <2> QED
    BY <2>2, <2>3, <2>4
<1>2. /\ TypeOK /\ r \in Requests /\ calls[r] = <<>> /\ submitted \subseteq Requests
      /\ calls \in [Requests -> Seq(Verdicts)]
  BY DEF Sane, Typing, TypeOK, InFlight, Verdicts
<1>3. /\ calls' \in [Requests -> Seq(Verdicts)] /\ excused' \subseteq Requests
      /\ calls' = [calls EXCEPT ![r] = calls[r] \o a]
  BY <1>1, <1>2, CallFacts
<1>4. calls[r] \o a = a
  BY <1>1, <1>2, ConcatEmptySeq
<1>5. calls' = [calls EXCEPT ![r] = a]
  BY <1>3, <1>4
<1>6. InFlight' = InFlight \ {r}
  BY <1>1, <1>2, <1>5 DEF InFlight
<1> QED
  BY <1>3, <1>5, <1>6 DEF Answered

LEMMA AnswersOf ==
  ASSUME NEW r
  PROVE  /\ \A e : <<Result(e)>> \in Answers(r)
         /\ <<"failed">> \in Answers(r)
         /\ \A o \in Outcomes : Delivered(r, o) \in Answers(r)
<1>1. "failed" \in Verdicts /\ "timeout" \in Verdicts /\ Outcomes \subseteq Verdicts
  BY DEF Verdicts, Outcomes
<1> QED
  BY <1>1 DEF Answers, Result, Delivered

\* The completed handlers of a resolution or a connection.  A request leaves
\* ready for the hands of the io thread or is answered.
HandlerRan(r) ==
  /\ r \in Completed /\ pc.io = "run" /\ InIo = {}
  /\ InOrder(ready, lookups) => Precede({r}, (Completed \ {r}) \ lookups)
  /\ UNCHANGED <<queue, lookups, resolving, submitted>>
  /\ InWorker' = InWorker /\ Connecting' = Connecting
  /\ ReadyGets({r}, {})
  /\ \/ InIo' = {r} /\ UNCHANGED <<calls, excused>> /\ InFlight' = InFlight
     \/ InIo' = {} /\ Answered(r) /\ UNCHANGED <<pc, req>>

LEMMA HandlerRuns ==
  ASSUME Sane, NEW h \in {"resolved", "connected"}, Running(h),
         NEW d \in Deadlines, NEW t, ready' = Tail(ready) \o TimerAbort(t, d),
         UNCHANGED <<handlerFrame, lookups, resolving, sock>>,
         NEW place \in {"close", "write"}, NEW e,
         LET r == Head(ready).r
         IN  \/ Goto("io", "run", place) /\ req' = [req EXCEPT !.io = r] /\ UNCHANGED answerVars
             \/ Call(r, <<Result(e)>>) /\ UNCHANGED threadVars
  PROVE  /\ HandlerRan(Head(ready).r)
         /\ Head(ready) \in ToSet(ready) /\ Head(ready).h = h
<1> DEFINE m == Head(ready)
           r == m.r
<1>1. pc.io = "run" /\ ready # <<>> /\ m.h = h
  BY DEF Running
<1>2. Typing /\ Solo(ready) /\ Completed \subseteq InFlight
  BY DEF Sane, Accounting
<1>3. /\ m \in Handlers /\ m \in ToSet(ready) /\ ReadyGets({r}, {})
      /\ {r} \cap Requests \subseteq Completed
      /\ InOrder(ready, lookups) =>
           Precede({r} \cap Requests, (Completed \ {r}) \ lookups)
  <2>1. Additions(TimerAbort(t, d), {}) /\ {} \cap Completed = {}
    BY DeadlineAdded
  <2> DEFINE s == TimerAbort(t, d)
  <2> HIDE DEF s
  <2>2. Additions(s, {}) /\ ready' = Tail(ready) \o s
    BY <2>1 DEF s
  <2> QED
    BY <1>1, <1>2, <2>1, <2>2, ReadyRan
<1>4. r \in Requests
  BY <1>1, <1>3, Distinct DEF Handlers, HandlerType
<1>5. /\ queue' = queue /\ lookups' = lookups /\ resolving' = resolving /\ sock' = sock
      /\ submitted' = submitted
  BY DEF handlerFrame, clientVars
<1>6. InIo = {}
  BY <1>1, <1>2, PcFacts DEF IoHolds
<1>7. \/ Goto("io", "run", place) /\ req' = [req EXCEPT !.io = r] /\ UNCHANGED answerVars
      \/ Call(r, <<Result(e)>>) /\ UNCHANGED threadVars
  OBVIOUS
<1> HIDE DEF m, r
<1>8. r \in Completed /\ {r} \cap Requests = {r}
  BY <1>3, <1>4
<1>9. CASE Goto("io", "run", place) /\ req' = [req EXCEPT !.io = r] /\ UNCHANGED answerVars
  <2>1. pc' = [pc EXCEPT !["io"] = place] /\ req' = [req EXCEPT !["io"] = r]
        /\ calls' = calls /\ excused' = excused
    BY <1>9 DEF Goto, answerVars
  <2>2. InIo' = {r} /\ WorkerStays
    BY <2>1, <1>2, PcFacts DEF InIo, IoHolds, WorkerStays, Threads
  <2> QED
    BY <1>1, <1>3, <1>5, <1>6, <1>8, <2>1, <2>2, HeldStays DEF HandlerRan, m, r
<1>10. CASE Call(r, <<Result(e)>>) /\ UNCHANGED threadVars
  <2>1. Answered(r)
    BY <1>2, <1>5, <1>8, <1>10, AnswersOf, AnswerFacts
  <2>2. pc' = pc /\ req' = req /\ WorkerStays /\ InIo' = {}
    BY <1>6, <1>10, HeldStays DEF threadVars, WorkerStays, IoStays
  <2> QED
    BY <1>1, <1>3, <1>5, <1>6, <1>8, <2>1, <2>2, HeldStays DEF HandlerRan, m, r
<1> QED
  BY <1>7, <1>9, <1>10

LEMMA OnResolvedMoves ==
  ASSUME Sane, OnResolved
  PROVE  \E m \in ToSet(ready) :
           /\ m = Head(ready) /\ m.h = "resolved" /\ HandlerRan(m.r)
           /\ pc' = pc \/ (pc' = [pc EXCEPT !["io"] = "close"] /\ req'.io = m.r)
           /\ endpoints' \in {"good", "empty"}
<1>1. /\ Running("resolved")
      /\ ready' = Tail(ready) \o TimerAbort(resolverTimer, "resolverDeadline")
      /\ UNCHANGED <<handlerFrame, lookups, resolving, sock>>
      /\ endpoints' \in {"good", "empty"}
  BY DEF OnResolved, CacheResult
<1>2. LET r == Head(ready).r  e == Head(ready).e
      IN  \/ Goto("io", "run", "close") /\ req' = [req EXCEPT !.io = r] /\ UNCHANGED answerVars
          \/ Call(r, <<Result(e)>>) /\ UNCHANGED threadVars
  BY DEF OnResolved
<1>3. HandlerRan(Head(ready).r) /\ Head(ready) \in ToSet(ready) /\ Head(ready).h = "resolved"
  BY <1>1, <1>2, Distinct, HandlerRuns
<1>4. pc' = pc \/ (pc' = [pc EXCEPT !["io"] = "close"] /\ req'.io = Head(ready).r)
  BY <1>2, PcFacts DEF Sane, Goto, threadVars, Threads
<1> QED
  BY <1>1, <1>3, <1>4

LEMMA OnConnectedMoves ==
  ASSUME Sane, OnConnected
  PROVE  \E m \in ToSet(ready) :
           /\ m = Head(ready) /\ m.h = "connected" /\ HandlerRan(m.r)
           /\ pc' = pc \/ (pc' = [pc EXCEPT !["io"] = "write"] /\ req'.io = m.r)
           /\ endpoints' = endpoints
<1>1. /\ Running("connected") /\ ready' = Tail(ready) \o TimerAbort(socketTimer, "socketDeadline")
      /\ UNCHANGED <<handlerFrame, lookups, resolving, sock>> /\ endpoints' = endpoints
  BY DEF OnConnected
<1>2. LET r == Head(ready).r  e == ConnectError(Head(ready))
      IN  \/ Goto("io", "run", "write") /\ req' = [req EXCEPT !.io = r] /\ UNCHANGED answerVars
          \/ Call(r, <<Result(e)>>) /\ UNCHANGED threadVars
  BY DEF OnConnected
<1>3. HandlerRan(Head(ready).r) /\ Head(ready) \in ToSet(ready) /\ Head(ready).h = "connected"
  BY <1>1, <1>2, Distinct, HandlerRuns
<1>4. pc' = pc \/ (pc' = [pc EXCEPT !["io"] = "write"] /\ req'.io = Head(ready).r)
  BY <1>2, PcFacts DEF Sane, Goto, threadVars, Threads
<1> QED
  BY <1>1, <1>3, <1>4

\* The deadlines' handlers.

LEMMA DeadlineRuns ==
  ASSUME Sane, NEW d \in Deadlines, Running(d), NEW s, NEW new, Additions(s, new),
         new \cap Completed = {}, ready' = Tail(ready) \o s
  PROVE  ReadyGets({}, new)
<1> DEFINE m == Head(ready)
<1>1. ready # <<>> /\ m.h \in Deadlines
  BY DEF Running
<1>2. Typing /\ Solo(ready)
  BY DEF Sane, Accounting
<1>3. m \in Handlers /\ ReadyGets({m.r}, new)
  BY <1>1, <1>2, ReadyRan
<1>4. m.r \notin Requests
  BY <1>1, <1>3, Numbers DEF Handlers
<1>5. Completed \ {m.r} = Completed /\ Completed \ {} = Completed
  BY <1>4 DEF Completed, RequestsOf
<1> QED
  BY <1>3, <1>5 DEF ReadyGets

LEMMA TailIsJoin == Typing /\ ready # <<>> => Tail(ready) = Tail(ready) \o <<>>
<1> SUFFICES ASSUME Typing, ready # <<>>
             PROVE  Tail(ready) = Tail(ready) \o <<>>
  OBVIOUS
<1>1. Tail(ready) \in Seq(Handlers)
  BY HeadTailProperties DEF Typing
<1> QED
  BY <1>1, ConcatEmptySeq

LEMMA OnResolverDeadlineMoves ==
  ASSUME Sane, OnResolverDeadline
  PROVE  /\ UNCHANGED <<queue, pc, req, lookups, endpoints, calls, submitted>>
         /\ InWorker' = InWorker /\ InIo' = InIo /\ Connecting' = Connecting
         /\ \/ resolving' = resolving /\ ReadyGets({}, {})
            \/ resolving' = {} /\ ReadyGets({}, resolving)
<1>1. Running("resolverDeadline") /\ ready # <<>> /\ Typing
  BY DEF OnResolverDeadline, Running, Sane
<1>2. resolving \cap Completed = {} /\ resolving \subseteq lookups
  BY DEF Sane, Accounting, Apart, Lookups
<1>3. \/ resolving' = {} /\ ready' = Tail(ready) \o ResolverAbort
      \/ resolving' = resolving /\ ready' = Tail(ready) \o <<>>
  BY <1>1, TailIsJoin DEF OnResolverDeadline
<1>4. \/ resolving' = resolving /\ ReadyGets({}, {})
      \/ resolving' = {} /\ ReadyGets({}, resolving)
  BY <1>1, <1>2, <1>3, Distinct, ResolverAdded, NoneAdded, DeadlineRuns
<1> QED
  BY <1>4, HeldStays DEF OnResolverDeadline, handlerFrame, threadVars, clientVars, answerVars,
                         WorkerStays, IoStays

LEMMA OnSocketDeadlineMoves ==
  ASSUME Sane, OnSocketDeadline
  PROVE  /\ UNCHANGED <<queue, pc, req, lookups, endpoints, calls, submitted, resolving>>
         /\ InWorker' = InWorker /\ InIo' = InIo
         /\ \/ sock' = sock /\ Connecting' = Connecting /\ ReadyGets({}, {})
            \/ sock' = Closed /\ Connecting' = {} /\ ReadyGets({}, Connecting)
<1>1. Running("socketDeadline") /\ ready # <<>> /\ Typing
  BY DEF OnSocketDeadline, Running, Sane
<1>2. Connecting \cap Completed = {}
  BY DEF Sane, Accounting, Apart
<1>3. \/ sock' = Closed /\ ready' = Tail(ready) \o SocketAbort
      \/ sock' = sock /\ ready' = Tail(ready) \o <<>>
  BY <1>1, TailIsJoin DEF OnSocketDeadline
<1>4. \/ sock' = sock /\ Connecting' = Connecting /\ ReadyGets({}, {})
      \/ sock' = Closed /\ Connecting' = {} /\ ReadyGets({}, Connecting)
  <2>1. sock' = Closed => Connecting' = {}
    BY DEF Connecting, Closed
  <2> QED
    BY <1>1, <1>2, <1>3, <2>1, Distinct, SocketAdded, NoneAdded, DeadlineRuns, HeldStays
<1> QED
  BY <1>4, HeldStays DEF OnSocketDeadline, handlerFrame, threadVars, clientVars, answerVars,
                         WorkerStays, IoStays

\* The exchange of the io thread.

LEMMA HttpMoves ==
  ASSUME Sane, HttpWrite \/ HttpRead
  PROVE  /\ pc.io \in {"write", "read"} /\ pc'.worker = pc.worker /\ req'.worker = req.worker
         /\ InIo = {req.io} /\ req.io \in Requests
         /\ UNCHANGED <<queue, lookups, resolving, endpoints, submitted, ready>>
         /\ InWorker' = InWorker /\ Connecting' = Connecting /\ ReadyGets({}, {})
         /\ \/ /\ InIo' = InIo /\ UNCHANGED <<calls, req>> /\ InFlight' = InFlight
               /\ pc' = [pc EXCEPT !["io"] = "read"]
            \/ InIo' = {} /\ Answered(req.io) /\ pc' = [pc EXCEPT !["io"] = "run"]
<1> DEFINE r == req.io
<1>1. /\ pc.io \in {"write", "read"} /\ InIo = {r} /\ r \in Requests
      /\ InFlight \cap InIo = InIo
  BY PcFacts DEF Sane, HttpWrite, HttpRead, Goto, IoHolds, Accounting
<1>2. /\ UNCHANGED <<queue, lookups, resolving, endpoints, submitted, ready>>
      /\ ReadyGets({}, {})
  BY ReadySame DEF HttpWrite, HttpRead, exchangeFrame, handlerFrame, clientVars, Sane, Accounting
<1>3. Connecting' = Connecting
  <2>1. sock' = sock \/ (sock.st = "connected" /\ sock' = [sock EXCEPT !.written = r])
    BY DEF HttpWrite, HttpRead
  <2>2. sock \in [st : {"closed", "connecting", "open", "connected"},
                  owner : Requests \cup {NoRequest}, written : Requests \cup {NoRequest}]
    BY DEF Sane, Typing, TypeOK
  <2> QED
    BY <2>1, <2>2 DEF Connecting
<1>4. \/ Goto("io", "write", "read") /\ UNCHANGED <<req, calls, excused>>
      \/ \E a \in Answers(r), from \in {"write", "read"} :
           Goto("io", from, "run") /\ Call(r, a) /\ Release("io")
  BY AnswersOf DEF HttpWrite, HttpRead, Outcomes, Delivered, answerVars
<1>5. CASE Goto("io", "write", "read") /\ UNCHANGED <<req, calls, excused>>
  <2>1. pc' = [pc EXCEPT !["io"] = "read"] /\ req' = req
    BY <1>5 DEF Goto
  <2>2. WorkerStays /\ InIo' = {r}
    BY <2>1, PcFacts DEF Sane, WorkerStays, InIo, IoHolds, Threads
  <2> QED
    BY <1>1, <1>2, <1>3, <1>5, <2>1, <2>2, HeldStays DEF WorkerStays
<1>6. CASE \E a \in Answers(r), from \in {"write", "read"} :
             Goto("io", from, "run") /\ Call(r, a) /\ Release("io")
  <2>1. pc' = [pc EXCEPT !["io"] = "run"] /\ req' = [req EXCEPT !["io"] = NoRequest]
    BY <1>6 DEF Goto, Release
  <2>2. WorkerStays /\ InIo' = {}
    BY <2>1, PcFacts DEF Sane, WorkerStays, InIo, IoHolds, Threads
  <2>3. r \in InFlight
    BY <1>1
  <2>4. Answered(r)
    BY <1>2, <1>6, <2>3, AnswerFacts
  <2> QED
    BY <1>1, <1>2, <1>3, <2>1, <2>2, <2>4, HeldStays DEF WorkerStays
<1> QED
  BY <1>4, <1>5, <1>6

\* The network and the calls that cancel everything.

LEMMA ResolverCompletesMoves ==
  ASSUME Sane, NEW r \in Requests, NEW e \in {"ok", "error"}, ResolverCompletes(r, e)
  PROVE  /\ r \in resolving /\ resolving' = resolving \ {r}
         /\ UNCHANGED <<queue, pc, req, lookups, endpoints, calls, submitted>>
         /\ InWorker' = InWorker /\ InIo' = InIo /\ Connecting' = Connecting
         /\ ReadyGets({}, {r})
<1>1. r \in resolving /\ Handler("resolved", r, e) \in Handlers
  BY OneHandler DEF ResolverCompletes
<1>2. Typing /\ Solo(ready) /\ {r} \cap Completed = {} /\ ready \in Seq(Handlers)
  BY <1>1 DEF Sane, Accounting, Apart, Typing
<1>3. Additions(<<Handler("resolved", r, e)>>, {r})
  BY <1>1, OneAdded
<1>4. ready' = ready \o <<Handler("resolved", r, e)>>
  BY <1>1, <1>2, AppendIsJoin DEF ResolverCompletes
<1>5. ReadyGets({}, {r})
  BY <1>2, <1>3, <1>4, ReadyJoined
<1> QED
  BY <1>5, HeldStays DEF ResolverCompletes, envFrame, threadVars, clientVars, WorkerStays, IoStays

LEMMA ConnectCompletesMoves ==
  ASSUME Sane, NEW e \in {"ok", "error"}, ConnectCompletes(e)
  PROVE  /\ UNCHANGED <<queue, pc, req, lookups, endpoints, calls, submitted, resolving>>
         /\ InWorker' = InWorker /\ InIo' = InIo
         /\ Connecting # {} /\ Connecting' = {}
         /\ ReadyGets({}, Connecting)
<1> DEFINE r == sock.owner
<1>1. /\ sock.st = "connecting" /\ r \in Requests /\ Connecting = {r}
      /\ Handler("connected", r, e) \in Handlers
  BY OneHandler DEF ConnectCompletes, Sane, Typing, Connecting
<1>2. Typing /\ Solo(ready) /\ {r} \cap Completed = {} /\ ready \in Seq(Handlers)
  BY <1>1 DEF Sane, Accounting, Apart, Typing
<1>3. Additions(<<Handler("connected", r, e)>>, {r})
  BY <1>1, OneAdded
<1>4. ready' = ready \o <<Handler("connected", r, e)>>
  BY <1>1, <1>2, AppendIsJoin DEF ConnectCompletes
<1>5. ReadyGets({}, {r})
  BY <1>2, <1>3, <1>4, ReadyJoined
<1>6. Connecting' = {}
  <2>1. sock \in [st : {"closed", "connecting", "open", "connected"},
                  owner : Requests \cup {NoRequest}, written : Requests \cup {NoRequest}]
    BY DEF Sane, Typing, TypeOK
  <2> QED
    BY <2>1 DEF ConnectCompletes, Connecting
<1> QED
  BY <1>1, <1>5, <1>6, HeldStays
     DEF ConnectCompletes, envFrame, threadVars, clientVars, WorkerStays, IoStays

LEMMA CancelMoves ==
  ASSUME Sane, Cancel \/ DtorCancel
  PROVE  /\ UNCHANGED <<queue, pc, req, lookups, endpoints, calls, submitted>>
         /\ InWorker' = InWorker /\ InIo' = InIo
         /\ resolving' = {} /\ sock' = Closed /\ Connecting' = {}
         /\ ReadyGets({}, resolving \cup Connecting)
<1>1. /\ Typing /\ Solo(ready) /\ resolving \subseteq lookups
      /\ resolving \cap Connecting = {} /\ (resolving \cup Connecting) \cap Completed = {}
      /\ Connecting \subseteq Requests /\ resolving \subseteq Requests
      /\ ready \in Seq(Handlers)
  BY DEF Sane, Accounting, Apart, Lookups, Typing, TypeOK, Connecting
<1>2. Precede(resolving, Connecting \ lookups)
  <2> SUFFICES ASSUME NEW r \in resolving, NEW s \in Connecting \ lookups
               PROVE  r < s
    BY DEF Precede
  <2>1. 1..r \subseteq lookups /\ r \in Nat /\ s \in Nat /\ s # 0
    BY <1>1, Numbers DEF Sane, Lookups, NoRequest
  <2> QED
    BY <2>1
<1> DEFINE d1 == TimerAbort(resolverTimer, "resolverDeadline")
           d2 == TimerAbort(socketTimer, "socketDeadline")
           aborts == ResolverAbort \o SocketAbort
<1>3. Additions(ResolverAbort, resolving) /\ Additions(SocketAbort, Connecting)
  BY <1>1, ResolverAdded, SocketAdded
<1>4. Additions(aborts, resolving \cup Connecting)
  BY <1>1, <1>2, <1>3, BothAdded
<1>5. Additions(d1, {}) /\ Additions(d2, {})
  BY Distinct, DeadlineAdded
<1> HIDE DEF d1, d2, aborts
<1>6. Additions((d1 \o d2) \o aborts, resolving \cup Connecting)
  <2>1. Additions(d1 \o d2, {} \cup {})
    BY <1>5, BothAdded DEF Precede
  <2>2. {} \cup {} = {}
    OBVIOUS
  <2>3. Additions(d1 \o d2, {})
    BY <2>1, <2>2
  <2>4. Additions((d1 \o d2) \o aborts, {} \cup (resolving \cup Connecting))
    BY <2>3, <1>4, BothAdded DEF Precede
  <2>5. {} \cup (resolving \cup Connecting) = resolving \cup Connecting
    OBVIOUS
  <2> QED
    BY <2>4, <2>5
<1>7. /\ d1 \in Seq(Handlers) /\ d2 \in Seq(Handlers) /\ aborts \in Seq(Handlers)
      /\ ResolverAbort \in Seq(Handlers) /\ SocketAbort \in Seq(Handlers)
  BY <1>3, <1>4, <1>5 DEF Additions
<1>8. ready' = ready \o aborts \/ ready' = ready \o ((d1 \o d2) \o aborts)
  <2> DEFINE r1 == ResolverAbort
             r2 == SocketAbort
  <2>1. \A a, b, c \in Seq(Handlers) : (a \o b) \o c = a \o (b \o c)
    BY ConcatAssociative
  <2>2. /\ ready \in Seq(Handlers) /\ d1 \in Seq(Handlers) /\ d2 \in Seq(Handlers)
        /\ r1 \in Seq(Handlers) /\ r2 \in Seq(Handlers)
        /\ aborts = r1 \o r2 /\ aborts \in Seq(Handlers)
    BY <1>1, <1>7 DEF aborts
  <2>3. Cancel => ready' = (ready \o r1) \o r2
    BY DEF Cancel
  <2>4. DtorCancel => ready' = (((ready \o d1) \o d2) \o r1) \o r2
    BY DEF DtorCancel, d1, d2
  <2> HIDE DEF r1, r2
  <2>5. d1 \o d2 \in Seq(Handlers) /\ ready \o (d1 \o d2) \in Seq(Handlers)
    BY <2>2, ConcatProperties
  <2>6. (ready \o r1) \o r2 = ready \o aborts
    <3>1. ready \in Seq(Handlers) /\ r1 \in Seq(Handlers) /\ r2 \in Seq(Handlers)
      BY <2>2
    <3>2. (ready \o r1) \o r2 = ready \o (r1 \o r2)
      BY ONLY <2>1, <3>1, Zenon
    <3> QED
      BY ONLY <2>2, <3>2, Zenon
  <2>7. (((ready \o d1) \o d2) \o r1) \o r2 = ready \o ((d1 \o d2) \o aborts)
    <3> DEFINE both == d1 \o d2
               front == ready \o both
    <3>1. both \in Seq(Handlers) /\ front \in Seq(Handlers)
      BY <2>5
    <3>2. (ready \o d1) \o d2 = front
      <4>1. ready \in Seq(Handlers) /\ d1 \in Seq(Handlers) /\ d2 \in Seq(Handlers)
        BY <2>2
      <4> QED
        BY ONLY <2>1, <4>1, Zenon
    <3> HIDE DEF front
    <3>3. (front \o r1) \o r2 = front \o aborts
      <4>1. front \in Seq(Handlers) /\ r1 \in Seq(Handlers) /\ r2 \in Seq(Handlers)
        BY <2>2, <3>1
      <4>2. (front \o r1) \o r2 = front \o (r1 \o r2)
        BY ONLY <2>1, <4>1, Zenon
      <4> QED
        BY ONLY <2>2, <4>2, Zenon
    <3> HIDE DEF both
    <3>4. front \o aborts = ready \o (both \o aborts)
      <4>1. ready \in Seq(Handlers) /\ both \in Seq(Handlers) /\ aborts \in Seq(Handlers)
        BY <2>2, <3>1
      <4>2. (ready \o both) \o aborts = ready \o (both \o aborts)
        BY ONLY <2>1, <4>1, Zenon
      <4> QED
        BY <4>2 DEF front
    <3> QED
      BY <3>2, <3>3, <3>4 DEF both
  <2> QED
    BY <2>3, <2>4, <2>6, <2>7
<1>9. ReadyGets({}, resolving \cup Connecting)
  BY <1>1, <1>4, <1>6, <1>8, ReadyJoined
<1>10. resolving' = {} /\ sock' = Closed /\ Connecting' = {}
  BY DEF Cancel, DtorCancel, CancelAll, Connecting, Closed
<1> QED
  BY <1>9, <1>10, HeldStays DEF Cancel, DtorCancel, threadVars, WorkerStays, IoStays

-----------------------------------------------------------------------------
(* Types are kept                                                          *)

LEMMA StepCases ==
  [Next]_vars =>
    \/ QuietStep
    \/ \E r \in Requests : Submit(r)
    \/ TakeJob \/ Resolve
    \/ \E t \in Threads : SetupClose(t)
    \/ \E t \in Threads : SetupConnect(t)
    \/ OnResolved \/ OnConnected \/ OnResolverDeadline \/ OnSocketDeadline
    \/ HttpWrite \/ HttpRead
    \/ \E r \in Requests, e \in {"ok", "error"} : ResolverCompletes(r, e)
    \/ \E e \in {"ok", "error"} : ConnectCompletes(e)
    \/ Cancel \/ DtorCancel
  BY DEF Next, WorkerStep, IoStep, NetworkStep, ClockStep, ClientStep, DtorStep, DtorEnds, WorkerRests,
         QuietStep, Threads

\* The variables by their roles.
QueuesTyped == /\ queue \in Seq(Requests) /\ ready \in Seq(Handlers)
               /\ resolving \subseteq Requests /\ submitted \subseteq Requests
               /\ calls \in [Requests -> Seq(Verdicts)]

SockType == [st : {"closed", "connecting", "open", "connected"},
             owner : Requests \cup {NoRequest}, written : Requests \cup {NoRequest}]
PlacesTyped ==
  /\ pc \in [Threads -> WorkerPlaces \cup IoPlaces]
  /\ pc.worker \in WorkerPlaces /\ pc.io \in IoPlaces
  /\ req \in [Threads -> Requests \cup {NoRequest}]
  /\ pc.worker \in WorkerHolds => req.worker \in Requests
  /\ pc.io \in IoHolds => req.io \in Requests
  /\ sock \in SockType /\ (sock.st = "connecting" => sock.owner \in Requests)

RestTyped ==
  /\ endpoints \in {"unknown", "good", "empty"}
  /\ resolverTimer \in TimerType /\ socketTimer \in TimerType
  /\ stopped \in BOOLEAN /\ interruptIoServiceTask \in BOOLEAN /\ excused \subseteq Requests
  /\ cancels \in 0..MaxCancels /\ dtor \in {"none", "stop", "notify", "join", "notifyWorker", "joinWorker", "gone"}

LEMMA TypingParts == Typing <=> QueuesTyped /\ PlacesTyped /\ RestTyped
  BY HandlersAreTyped DEF Typing, TypeOK, QueuesTyped, PlacesTyped, RestTyped, Threads, Verdicts,
                          WorkerPlaces, IoPlaces, SockType

LEMMA QueuesTypedKept ==
  ASSUME Sane, [Next]_vars
  PROVE  QueuesTyped'
<1>1. QueuesTyped /\ PlacesTyped
  BY TypingParts DEF Sane
<1> USE <1>1 DEF QueuesTyped
<1>2. CASE QuietStep
  BY <1>2, QuietMoves DEF AllStay, ReadyGets
<1>3. ASSUME NEW r \in Requests, Submit(r)
      PROVE  QueuesTyped'
  BY <1>3, SubmitMoves DEF ReadyGets
<1>4. CASE TakeJob
  BY <1>4, TakeJobMoves DEF ReadyGets
<1>5. CASE Resolve
  BY <1>5, ResolveMoves, PcFacts DEF ReadyGets, Sane, Resolve, Goto, WorkerHolds
<1>6. ASSUME NEW t \in Threads, SetupClose(t)
      PROVE  QueuesTyped'
  BY <1>6, SetupCloseMoves DEF ReadyGets
<1>7. ASSUME NEW t \in Threads, SetupConnect(t)
      PROVE  QueuesTyped'
  BY <1>7, SetupConnectMoves DEF ReadyGets
<1>8. CASE OnResolved
  BY <1>8, OnResolvedMoves DEF HandlerRan, ReadyGets, Answered
<1>9. CASE OnConnected
  BY <1>9, OnConnectedMoves DEF HandlerRan, ReadyGets, Answered
<1>10. CASE OnResolverDeadline
  BY <1>10, OnResolverDeadlineMoves DEF ReadyGets
<1>11. CASE OnSocketDeadline
  BY <1>11, OnSocketDeadlineMoves DEF ReadyGets
<1>12. CASE HttpWrite \/ HttpRead
  BY <1>12, HttpMoves DEF ReadyGets, Answered
<1>13. ASSUME NEW r \in Requests, NEW e \in {"ok", "error"}, ResolverCompletes(r, e)
       PROVE  QueuesTyped'
  BY <1>13, ResolverCompletesMoves DEF ReadyGets
<1>14. ASSUME NEW e \in {"ok", "error"}, ConnectCompletes(e)
       PROVE  QueuesTyped'
  BY <1>14, ConnectCompletesMoves DEF ReadyGets
<1>15. CASE Cancel \/ DtorCancel
  BY <1>15, CancelMoves DEF ReadyGets
<1> QED
  BY <1>2, <1>3, <1>4, <1>5, <1>6, <1>7, <1>8, <1>9, <1>10, <1>11, <1>12, <1>13, <1>14, <1>15,
     StepCases

LEMMA PlacesTypedKept ==
  ASSUME Sane, [Next]_vars
  PROVE  PlacesTyped'
<1>1. QueuesTyped /\ PlacesTyped
  BY TypingParts DEF Sane
<1> USE <1>1 DEF PlacesTyped, Goto, Release
<1> USE DEF Threads, WorkerPlaces, IoPlaces, WorkerHolds, IoHolds
\* Steps of one thread that leave the socket alone.
<1>2. ASSUME sock' = sock, req' = req,
             \/ NotifyIo \/ DtorNotify \/ IoTest \/ IoRunReturns \/ IoBlock \/ IoSpuriousWake
             \/ IoReset \/ Resolve \/ UseCache
      PROVE  PlacesTyped'
  <2>1. sock' = sock /\ req' = req
    BY <1>2
  <2>2. CASE NotifyIo \/ DtorNotify
    BY <2>1, <2>2 DEF NotifyIo, DtorNotify, WakeIo
  <2>3. CASE IoTest \/ IoRunReturns
    BY <2>1, <2>3 DEF IoTest, IoRunReturns, LoopAgain
  <2>4. CASE IoBlock
    BY <2>1, <2>4 DEF IoBlock
  <2>5. CASE IoSpuriousWake
    BY <2>1, <2>5 DEF IoSpuriousWake
  <2>6. CASE IoReset
    BY <2>1, <2>6 DEF IoReset, LoopAgain
  <2>7. CASE Resolve \/ UseCache
    BY <2>1, <2>7 DEF Resolve, UseCache
  <2> QED
    BY <1>2, <2>2, <2>3, <2>4, <2>5, <2>6, <2>7
<1>3. CASE UNCHANGED <<pc, req, sock>>
  BY <1>3
<1>4. CASE ArmResolver
  BY <1>4 DEF ArmResolver
<1>5. ASSUME NEW t \in Threads, SetupArm(t)
      PROVE  PlacesTyped'
  BY <1>5 DEF SetupArm
<1>20. ASSUME Resting, req' = req, sock' = sock
       PROVE  PlacesTyped'
  <2>1. Typing
    BY DEF Sane
  <2>2. /\ pc' \in [Threads -> WorkerPlaces \cup IoPlaces] /\ pc'.io = pc.io
        /\ pc'.worker = pc.worker \/ pc'.worker \in RestPlaces
    BY <1>20, <2>1, RestingStays DEF IoStays
  <2> QED
    BY <1>20, <2>2 DEF RestPlaces
<1>21. CASE WorkerRests \/ DtorNotifyWorker
  BY <1>20, <1>21, RestFacts DEF destroyFrame, ioVars
<1>6. CASE QuietStep
  BY <1>2, <1>3, <1>4, <1>5, <1>6, <1>21
     DEF QuietStep, NotifyIo, DtorNotify, IoTest, IoRunReturns, IoBlock, IoSpuriousWake, IoReset,
         UseCache, ResolverTimerExpires, SocketTimerExpires, DtorStop, DtorJoin, DtorJoinWorker,
         destroyFrame, envFrame, threadVars, ioVars, vars
<1>7. CASE Resolve
  BY <1>2, <1>7 DEF Resolve
<1>8. ASSUME NEW r \in Requests, Submit(r)
      PROVE  PlacesTyped'
  BY <1>8, <1>20, RestFacts DEF Submit, ioVars
<1>9. CASE TakeJob
  <2>1. PICK j \in Requests : req'.worker = j
    BY <1>9, TakeJobMoves, WaitingAreRequests
  <2>2. req' = [req EXCEPT !["worker"] = j]
    BY <1>9, <2>1 DEF TakeJob
  <2>3. pc' = [pc EXCEPT !["worker"] = pc'.worker] /\ pc'.worker \in {"resolve", "cached"}
    BY <1>9 DEF TakeJob
  <2> QED
    BY <1>9, <2>1, <2>2, <2>3 DEF TakeJob
<1>10. ASSUME NEW t \in Threads, SetupClose(t)
       PROVE  PlacesTyped'
  BY <1>10 DEF SetupClose, Closed, SockType, NoRequest
<1>11. ASSUME NEW t \in Threads, SetupConnect(t)
       PROVE  PlacesTyped'
  <2>1. /\ pc[t] = "connect" /\ pc' = [pc EXCEPT ![t] = "arm"] /\ req' = req
        /\ req[t] \in Requests
    BY <1>11, SetupConnectMoves
  <2>2. \/ sock' = sock
        \/ sock' = [st |-> "connecting", owner |-> req[t], written |-> NoRequest]
    BY <1>11 DEF SetupConnect
  <2>3. sock' \in SockType /\ (sock'.st = "connecting" => sock'.owner \in Requests)
    BY <2>1, <2>2 DEF SockType
  <2> QED
    BY <2>1, <2>3
<1>12. ASSUME NEW r \in Requests, sock' = sock,
              \/ pc' = pc /\ req' = req
              \/ \E place \in {"close", "write"} :
                   pc.io = "run" /\ pc' = [pc EXCEPT !["io"] = place]
                   /\ req' = [req EXCEPT !["io"] = r]
       PROVE  PlacesTyped'
  BY <1>12
<1>13. ASSUME OnResolved \/ OnConnected
       PROVE  PlacesTyped'
  <2>1. Head(ready).r \in Requests
    BY <1>13, OnResolvedMoves, OnConnectedMoves DEF HandlerRan, Completed, RequestsOf
  <2>2. /\ sock' = sock
        /\ \/ pc' = pc /\ req' = req
           \/ \E place \in {"close", "write"} :
                pc.io = "run" /\ pc' = [pc EXCEPT !["io"] = place]
                /\ req' = [req EXCEPT !["io"] = Head(ready).r]
    BY <1>13 DEF OnResolved, OnConnected, threadVars
  <2> QED
    BY <1>12, <2>1, <2>2
<1>14. CASE OnResolverDeadline
  BY <1>3, <1>14 DEF OnResolverDeadline, threadVars
<1>15. CASE OnSocketDeadline \/ Cancel \/ DtorCancel
  <2>1. pc' = pc /\ req' = req /\ (sock' = sock \/ sock' = Closed)
    BY <1>15 DEF OnSocketDeadline, Cancel, DtorCancel, CancelAll, threadVars
  <2> QED
    BY <2>1 DEF Closed, SockType, NoRequest
<1>16. CASE HttpWrite
  <2>1. sock' = sock \/ sock' = [sock EXCEPT !.written = req.io]
    BY <1>16 DEF HttpWrite
  <2>2. /\ pc.io = "write"
        /\ \/ pc' = [pc EXCEPT !["io"] = "read"] /\ req' = req
           \/ pc' = [pc EXCEPT !["io"] = "run"] /\ req' = [req EXCEPT !["io"] = NoRequest]
    BY <1>16 DEF HttpWrite
  <2>3. sock' \in SockType /\ sock'.st = sock.st /\ sock'.owner = sock.owner
    BY <2>1, <2>2 DEF SockType
  <2> QED
    BY <2>2, <2>3
<1>17. CASE HttpRead
  BY <1>17 DEF HttpRead, exchangeFrame
<1>18. ASSUME NEW r \in Requests, NEW e \in {"ok", "error"}, ResolverCompletes(r, e)
       PROVE  PlacesTyped'
  BY <1>3, <1>18 DEF ResolverCompletes, envFrame, threadVars
<1>19. ASSUME NEW e \in {"ok", "error"}, ConnectCompletes(e)
       PROVE  PlacesTyped'
  <2>1. pc' = pc /\ req' = req
    BY <1>19 DEF ConnectCompletes, envFrame, threadVars
  <2>2. sock' \in SockType /\ sock'.st # "connecting"
    BY <1>19 DEF ConnectCompletes, SockType, NoRequest
  <2> QED
    BY <2>1, <2>2
<1> QED
  BY <1>6, <1>7, <1>8, <1>9, <1>10, <1>11, <1>13, <1>14, <1>15, <1>16, <1>17, <1>18, <1>19,
     StepCases

LEMMA RestTypedKept ==
  ASSUME Sane, [Next]_vars
  PROVE  RestTyped'
<1>1. QueuesTyped /\ PlacesTyped /\ RestTyped /\ Completed \subseteq Requests
      /\ InFlight \subseteq Requests
  BY TypingParts DEF Sane, Completed, RequestsOf, QueuesTyped, InFlight
<1>2. /\ \A t \in TimerType : Cancelled(t) \in TimerType /\ Expired(t) \in TimerType
      /\ \A r \in Requests \cup {NoRequest} : Armed(r) \in TimerType
  <2>1. Armed(NoRequest) \in TimerType /\ \A r \in Requests : Armed(r) \in TimerType
    BY DEF Armed, TimerType
  <2> QED
    BY <2>1, TimerFacts
<1>3. \A t \in Threads : req[t] \in Requests \cup {NoRequest}
  BY <1>1 DEF PlacesTyped
<1> USE <1>1, <1>2 DEF RestTyped
<1>4. CASE ArmResolver
  BY <1>3, <1>4 DEF ArmResolver, clientVars, Threads
<1>5. ASSUME NEW t \in Threads, SetupArm(t)
      PROVE  RestTyped'
  BY <1>3, <1>5 DEF SetupArm, SocketArmed, clientVars
<1>6. CASE UseCache \/ ResolverTimerExpires \/ SocketTimerExpires
  BY <1>6 DEF UseCache, ResolverTimerExpires, SocketTimerExpires, envFrame, clientVars
<1>7. CASE NotifyIo \/ IoTest \/ IoRunReturns \/ IoBlock \/ IoSpuriousWake \/ IoReset
  BY <1>7 DEF NotifyIo, IoTest, IoRunReturns, IoBlock, IoSpuriousWake, IoReset, ioVars, clientVars
<1>8. CASE DtorStop \/ DtorNotify \/ DtorJoin \/ DtorNotifyWorker \/ DtorJoinWorker
  BY <1>8 DEF DtorStop, DtorNotify, DtorJoin, DtorNotifyWorker, DtorJoinWorker, destroyFrame, ioVars
<1>22. CASE WorkerRests
  BY <1>22, RestFacts DEF destroyFrame, ioVars
<1>9. CASE UNCHANGED vars
  BY <1>9 DEF vars, ioVars, clientVars
<1>10. CASE QuietStep
  BY <1>4, <1>5, <1>6, <1>7, <1>8, <1>9, <1>10, <1>22 DEF QuietStep, Threads
<1>11. ASSUME NEW r \in Requests, Submit(r)
       PROVE  RestTyped'
  BY <1>11 DEF Submit, ioVars
<1>12. CASE TakeJob \/ Resolve
  BY <1>12 DEF TakeJob, Resolve, clientVars
<1>13. ASSUME NEW t \in Threads, SetupClose(t) \/ SetupConnect(t)
       PROVE  RestTyped'
  BY <1>13 DEF SetupClose, SetupConnect, clientVars
<1>14. ASSUME NEW r, excused' = excused \/ Answered(r), OnResolved \/ OnConnected
       PROVE  RestTyped'
  BY <1>14 DEF OnResolved, OnConnected, CacheResult, Answered, handlerFrame, clientVars
<1>15. CASE OnResolved \/ OnConnected
  BY <1>14, <1>15, OnResolvedMoves, OnConnectedMoves DEF HandlerRan
<1>16. CASE OnResolverDeadline \/ OnSocketDeadline
  BY <1>16 DEF OnResolverDeadline, OnSocketDeadline, handlerFrame, clientVars, answerVars
<1>17. CASE HttpWrite \/ HttpRead
  <2>1. excused' \subseteq Requests
    BY <1>17 DEF HttpWrite, HttpRead, Call, answerVars
  <2> QED
    BY <1>17, <2>1 DEF HttpWrite, HttpRead, exchangeFrame, handlerFrame, clientVars
<1>18. ASSUME NEW r \in Requests, NEW e \in {"ok", "error"}, ResolverCompletes(r, e)
       PROVE  RestTyped'
  BY <1>18 DEF ResolverCompletes, envFrame, clientVars
<1>19. ASSUME NEW e \in {"ok", "error"}, ConnectCompletes(e)
       PROVE  RestTyped'
  BY <1>19 DEF ConnectCompletes, envFrame, clientVars
<1>20. CASE Cancel
  <2>1. cancels' \in 0..MaxCancels
    BY <1>20, ChannelAssumption DEF Cancel
  <2> QED
    BY <1>20, <2>1 DEF Cancel, CancelAll
<1>21. CASE DtorCancel
  BY <1>21 DEF DtorCancel, CancelAll
<1> QED
  BY <1>10, <1>11, <1>12, <1>13, <1>15, <1>16, <1>17, <1>18, <1>19, <1>20, <1>21, StepCases

LEMMA TypingKept ==
  ASSUME Sane, [Next]_vars
  PROVE  Typing'
<1>1. QueuesTyped' /\ PlacesTyped' /\ RestTyped'
  BY QueuesTypedKept, PlacesTypedKept, RestTypedKept
<1> QED
  BY <1>1, TypingParts, HandlersAreTyped
     DEF Typing, TypeOK, QueuesTyped, PlacesTyped, RestTyped, Threads, Verdicts, WorkerPlaces,
         IoPlaces, SockType

-----------------------------------------------------------------------------
(* Every unanswered request keeps exactly one place                        *)

Somewhere == Waiting \cup InWorker \cup resolving \cup Connecting \cup Completed \cup InIo
Numbered == \A r \in Requests : /\ r \in submitted => 1..r \subseteq submitted
                                /\ r \notin submitted => calls[r] = <<>>

LEMMA AccountingKept ==
  ASSUME Sane, [Next]_vars
  PROVE  Accounting'
<1>1. /\ Somewhere = InFlight /\ Apart /\ Solo(ready) /\ Sorted(queue) /\ Numbered
      /\ InFlight \subseteq submitted /\ submitted \subseteq Requests
      /\ calls \in [Requests -> Seq(Verdicts)]
  BY DEF Sane, Typing, TypeOK, Accounting, Somewhere, Numbered, InFlight, Verdicts
\* The conjuncts of Accounting', and what is enough for the last three.
<1>2. ASSUME Somewhere' = InFlight', Apart', Solo(ready'), Sorted(queue'), Numbered'
      PROVE  Accounting'
  BY <1>2 DEF Accounting, Somewhere, Numbered
<1>3. /\ queue' = queue => Sorted(queue')
      /\ submitted' = submitted /\ calls' = calls => Numbered' /\ InFlight' = InFlight
      /\ \A r : submitted' = submitted /\ Answered(r) => Numbered'
  <2>1. ASSUME NEW r, submitted' = submitted, Answered(r)
        PROVE  Numbered'
    BY <1>1, <2>1 DEF Numbered, Answered
  <2> QED
    BY <1>1, <2>1 DEF Numbered, InFlight
<1>4. \A taken, new : ReadyGets(taken, new) =>
        /\ Solo(ready') /\ Completed' = (Completed \ taken) \cup new
  BY DEF ReadyGets
<1> USE DEF Somewhere, Apart
<1>5. CASE QuietStep
  BY <1>1, <1>2, <1>3, <1>4, <1>5, QuietMoves, HeldStays DEF AllStay
<1>6. ASSUME NEW r \in Requests, Submit(r)
      PROVE  Accounting'
  <2>1. r \notin Somewhere
    BY <1>1, <1>6, SubmitMoves
  <2>2. Somewhere' = InFlight' /\ Apart' /\ Solo(ready') /\ Sorted(queue')
    BY <1>1, <1>4, <1>6, <2>1, SubmitMoves
  <2>3. Numbered'
    <3>1. /\ submitted = 1..(r - 1) /\ submitted' = submitted \cup {r} /\ calls' = calls
          /\ r \in Nat
      BY <1>6, SubmitMoves, Numbers
    <3>2. submitted' = 1..r
      BY <3>1, Numbers, <1>6 DEF Requests
    <3> QED
      BY <1>1, <3>1, <3>2, Numbers DEF Numbered
  <2> QED
    BY <1>2, <2>2, <2>3
<1>7. CASE TakeJob
  <2>1. PICK j \in Waiting :
          /\ Waiting' = Waiting \ {j} /\ Sorted(queue') /\ InWorker = {} /\ InWorker' = {j}
          /\ UNCHANGED <<resolving, calls, submitted>>
          /\ Connecting' = Connecting /\ InIo' = InIo /\ ReadyGets({}, {})
    BY <1>7, TakeJobMoves
  <2>2. Somewhere' = InFlight' /\ Apart'
    BY <1>1, <1>3, <1>4, <2>1
  <2> QED
    BY <1>2, <1>3, <1>4, <2>1, <2>2
<1>8. CASE Resolve
  BY <1>1, <1>2, <1>3, <1>4, <1>8, ResolveMoves, HeldStays
<1>9. ASSUME NEW t \in Threads, SetupClose(t)
      PROVE  Accounting'
  BY <1>1, <1>2, <1>3, <1>4, <1>9, SetupCloseMoves, HeldStays
<1>10. ASSUME NEW t \in Threads, SetupConnect(t)
       PROVE  Accounting'
  <2>1. /\ \/ Holds(t) = InWorker /\ InWorker' = {} /\ InIo' = InIo
           \/ Holds(t) = InIo /\ InIo' = {} /\ InWorker' = InWorker
        /\ \/ Connecting' = Connecting /\ ReadyGets({}, Holds(t))
           \/ Connecting' = Holds(t) /\ ReadyGets({}, Connecting)
        /\ UNCHANGED <<queue, resolving, calls, submitted>>
    BY <1>10, SetupConnectMoves DEF Holds, Other
  <2> HIDE DEF Holds
  <2> QED
    BY <1>1, <1>2, <1>3, <1>4, <2>1, HeldStays
<1>11. ASSUME NEW r, HandlerRan(r)
       PROVE  Accounting'
  BY <1>1, <1>2, <1>3, <1>4, <1>11, HeldStays DEF HandlerRan, Answered
<1>12. CASE OnResolved \/ OnConnected
  BY <1>11, <1>12, OnResolvedMoves, OnConnectedMoves
<1>13. CASE OnResolverDeadline
  BY <1>1, <1>2, <1>3, <1>4, <1>13, OnResolverDeadlineMoves, HeldStays
<1>14. CASE OnSocketDeadline
  <2>1. CASE Connecting' = Connecting /\ ReadyGets({}, {})
    BY <1>1, <1>2, <1>3, <1>4, <1>14, <2>1, OnSocketDeadlineMoves, HeldStays
  <2>2. CASE Connecting' = {} /\ ReadyGets({}, Connecting)
    BY <1>1, <1>2, <1>3, <1>4, <1>14, <2>2, OnSocketDeadlineMoves, HeldStays
  <2> QED
    BY <1>14, <2>1, <2>2, OnSocketDeadlineMoves
<1>15. CASE HttpWrite \/ HttpRead
  <2>1. /\ UNCHANGED <<queue, resolving, submitted>> /\ InIo = {req.io}
        /\ InWorker' = InWorker /\ Connecting' = Connecting /\ ReadyGets({}, {})
        /\ \/ InIo' = InIo /\ calls' = calls
           \/ InIo' = {} /\ Answered(req.io)
    BY <1>15, HttpMoves
  <2>2. CASE InIo' = InIo /\ calls' = calls
    BY <1>1, <1>2, <1>3, <1>4, <2>1, <2>2, HeldStays
  <2>3. CASE InIo' = {} /\ Answered(req.io)
    <3>1. InFlight' = InFlight \ {req.io} /\ Numbered'
      BY <1>3, <2>1, <2>3 DEF Answered
    <3> QED
      BY <1>1, <1>2, <1>3, <1>4, <2>1, <2>3, <3>1, HeldStays
  <2> QED
    BY <2>1, <2>2, <2>3
<1>16. ASSUME NEW r \in Requests, NEW e \in {"ok", "error"}, ResolverCompletes(r, e)
       PROVE  Accounting'
  <2>1. /\ r \in resolving /\ resolving' = resolving \ {r} /\ ReadyGets({}, {r})
        /\ UNCHANGED <<queue, calls, submitted>>
        /\ InWorker' = InWorker /\ InIo' = InIo /\ Connecting' = Connecting
    BY <1>16, ResolverCompletesMoves
  <2>2. Somewhere' = InFlight' /\ Apart'
    BY <1>1, <1>3, <1>4, <2>1, HeldStays
  <2> QED
    BY <1>2, <1>3, <1>4, <2>1, <2>2
<1>17. ASSUME NEW e \in {"ok", "error"}, ConnectCompletes(e)
       PROVE  Accounting'
  BY <1>1, <1>2, <1>3, <1>4, <1>17, ConnectCompletesMoves, HeldStays
<1>18. CASE Cancel \/ DtorCancel
  BY <1>1, <1>2, <1>3, <1>4, <1>18, CancelMoves, HeldStays
<1> QED
  BY <1>5, <1>6, <1>7, <1>8, <1>9, <1>10, <1>12, <1>13, <1>14, <1>15, <1>16, <1>17, <1>18,
     StepCases

-----------------------------------------------------------------------------
(* Which requests look up the endpoints                                    *)

\* Steps that move no request take no thread to where it would have to hold
\* one.
LEMMA QuietPlaces ==
  ASSUME Typing, QuietStep
  PROVE  /\ \/ pc'.worker = pc.worker /\ req'.worker = req.worker
            \/ pc'.worker \in {"notify"} \cup RestPlaces
            \/ pc'.worker = "close" /\ pc.worker = "cached"
         /\ \/ pc'.io = pc.io /\ req'.io = req.io
            \/ pc'.io \notin IoHolds
<1> USE PcFacts DEF Goto, Release, Threads, IoHolds
<1>1. CASE ArmResolver \/ UseCache
  BY <1>1 DEF ArmResolver, UseCache
<1>2. CASE NotifyIo \/ DtorNotify
  BY <1>2 DEF NotifyIo, DtorNotify, WakeIo, RestPlaces
<1>3. CASE SetupArm("worker")
  BY <1>3 DEF SetupArm
<1>4. CASE SetupArm("io")
  BY <1>4 DEF SetupArm
<1>5. CASE IoTest \/ IoRunReturns \/ IoBlock \/ IoSpuriousWake \/ IoReset
  BY <1>5 DEF IoTest, IoRunReturns, IoBlock, IoSpuriousWake, IoReset, LoopAgain
<1>6. CASE ResolverTimerExpires \/ SocketTimerExpires \/ DtorStop \/ DtorJoin \/ DtorJoinWorker
             \/ UNCHANGED vars
  BY <1>6 DEF ResolverTimerExpires, SocketTimerExpires, DtorStop, DtorJoin, DtorJoinWorker,
              destroyFrame, envFrame, threadVars, vars
<1>7. CASE WorkerRests \/ DtorNotifyWorker
  BY <1>7, RestFacts, RestingStays DEF destroyFrame, IoStays
<1> QED
  BY <1>1, <1>2, <1>3, <1>4, <1>5, <1>6, <1>7 DEF QuietStep

Prefix(L) == \A r \in L : 1..r \subseteq L

LEMMA LookupsKept ==
  ASSUME Sane, Unknown, [Next]_vars
  PROVE  Lookups'
<1>1. Lookups /\ Accounting /\ Typing
  BY DEF Sane
<1>2. ASSUME NEW taken, NEW new, ReadyGets(taken, new)
      PROVE  \A m \in ToSet(ready') : m.h = "resolved" => m.r \in lookups
  BY <1>1, <1>2 DEF Lookups, ReadyGets, KindsStay
\* It is enough to see what becomes of the threads and the connection attempt.
<1>3. ASSUME NEW taken, NEW new, ReadyGets(taken, new), lookups' = lookups,
             Waiting' = Waiting, submitted' = submitted, resolving' \subseteq resolving,
             pc'.worker = "resolve" => req'.worker \in lookups,
             pc'.io \in {"close", "connect"} => req'.io \in lookups,
             pc'.worker = "connect" => Connecting' \subseteq lookups
      PROVE  Lookups'
  BY <1>1, <1>2, <1>3 DEF Lookups
<1>4. /\ pc.worker = "resolve" => req.worker \in lookups
      /\ pc.io \in {"close", "connect"} => req.io \in lookups
      /\ pc.worker = "connect" => Connecting \subseteq lookups
  BY <1>1 DEF Lookups
<1>5. queue' = queue => Waiting' = Waiting
  BY HeldStays
<1>6. CASE QuietStep
  BY <1>1, <1>3, <1>4, <1>5, <1>6, QuietMoves, QuietPlaces DEF AllStay, IoHolds, RestPlaces
<1>7. ASSUME NEW r \in Requests, Submit(r)
      PROVE  Lookups'
  <2>1. /\ lookups' = lookups /\ resolving' = resolving /\ Waiting' = Waiting \cup {r}
        /\ submitted' = submitted \cup {r} /\ r \notin submitted /\ Connecting' = Connecting
        /\ ReadyGets({}, {}) /\ req' = req
        /\ pc'.io = pc.io /\ (pc'.worker = pc.worker \/ pc'.worker \in RestPlaces)
    BY <1>1, <1>7, SubmitMoves, RestFacts, RestingStays DEF Submit, IoStays
  <2>2. \A m \in ToSet(ready') : m.h = "resolved" => m.r \in lookups
    BY <1>2, <2>1
  <2> QED
    BY <1>1, <2>1, <2>2 DEF Lookups, RestPlaces
<1>8. CASE TakeJob
  <2>1. PICK j \in Waiting :
          /\ Waiting' = Waiting \ {j} /\ Precede({j}, Waiting')
          /\ req'.worker = j
          /\ lookups' = IF endpoints = "unknown" THEN lookups \cup {j} ELSE lookups
          /\ UNCHANGED <<resolving, submitted>>
          /\ Connecting' = Connecting /\ ready' = ready
    BY <1>8, TakeJobMoves
  <2>2. /\ pc'.worker = (IF endpoints = "unknown" THEN "resolve" ELSE "cached")
        /\ pc'.io = pc.io /\ req'.io = req.io
    BY <1>8, PcFacts, <1>1 DEF TakeJob, Goto, Threads
  <2>3. j \in submitted /\ j \in Requests /\ 1..j \subseteq submitted /\ Waiting \subseteq submitted
    BY <1>1, WaitingAreRequests DEF Sane, Accounting, InFlight
  <2>4. endpoints = "unknown" => Prefix(lookups \cup {j})
    <3> SUFFICES ASSUME endpoints = "unknown", NEW s \in 1..j
                 PROVE  s \in lookups \cup {j}
      BY <1>1 DEF Prefix, Lookups
    <3>1. s \in Waiting \cup lookups
      BY <2>3 DEF Unknown
    <3>2. s \in Waiting \ {j} => j < s
      BY <2>1 DEF Precede
    <3>3. ~(j < s)
      BY <2>3, Numbers
    <3> QED
      BY <3>1, <3>2, <3>3
  <2>5. /\ lookups' \subseteq submitted \ Waiting' /\ lookups \subseteq lookups' /\ Prefix(lookups')
    BY <1>1, <2>1, <2>3, <2>4 DEF Lookups, Prefix
  <2>6. \A m \in ToSet(ready') : m.h = "resolved" => m.r \in lookups'
    BY <1>1, <2>1, <2>5 DEF Lookups
  <2>7. pc'.worker = "resolve" => req'.worker \in lookups'
    BY <2>1, <2>2
  <2> QED
    BY <1>1, <2>1, <2>2, <2>5, <2>6, <2>7 DEF Lookups, Prefix
<1>9. CASE Resolve
  <2>1. /\ lookups' = lookups /\ submitted' = submitted /\ Waiting' = Waiting
        /\ resolving' = resolving \cup {req.worker} /\ Connecting' = Connecting
        /\ ReadyGets({}, {})
    BY <1>5, <1>9, ResolveMoves
  <2>2. /\ pc.worker = "resolve" /\ pc'.worker = "armResolver" /\ pc'.io = pc.io /\ req' = req
    BY <1>1, <1>9, PcFacts DEF Resolve, Goto, Threads
  <2>3. \A m \in ToSet(ready') : m.h = "resolved" => m.r \in lookups
    BY <1>2, <2>1
  <2> QED
    BY <1>1, <2>1, <2>2, <2>3 DEF Lookups
<1>10. ASSUME NEW t \in Threads, SetupClose(t)
       PROVE  Lookups'
  <2>1. /\ pc[t] = "close" /\ pc' = [pc EXCEPT ![t] = "connect"] /\ req' = req
        /\ Connecting' = {} /\ UNCHANGED <<queue, lookups, resolving, submitted>>
        /\ ReadyGets({}, Connecting)
    BY <1>10, SetupCloseMoves
  <2>2. /\ pc'.worker = "resolve" => pc.worker = "resolve"
        /\ pc'.io \in {"close", "connect"} => pc.io \in {"close", "connect"}
    BY <1>1, <2>1, PcFacts DEF Threads
  <2> QED
    BY <1>3, <1>4, <1>5, <2>1, <2>2
<1>11. ASSUME NEW t \in Threads, SetupConnect(t)
       PROVE  Lookups'
  <2>1. /\ pc[t] = "connect" /\ pc' = [pc EXCEPT ![t] = "arm"] /\ req' = req
        /\ Holds(t) = {req[t]}
        /\ UNCHANGED <<queue, lookups, resolving, submitted>>
        /\ \/ Connecting' = Connecting /\ ReadyGets({}, Holds(t))
           \/ Connecting' = Holds(t) /\ ReadyGets({}, Connecting)
    BY <1>11, SetupConnectMoves
  <2>2. CASE t = "worker"
    BY <1>1, <1>3, <1>4, <1>5, <2>1, <2>2, PcFacts DEF Threads
  <2>3. CASE t = "io"
    <3>1. pc'.worker = pc.worker /\ pc'.io = "arm" /\ pc.io = "connect"
      BY <1>1, <2>1, <2>3, PcFacts DEF Threads
    <3>2. Connecting' \subseteq Connecting \cup lookups
      BY <1>4, <2>1, <2>3, <3>1
    <3> QED
      BY <1>3, <1>4, <1>5, <2>1, <3>1, <3>2
  <2> QED
    BY <2>2, <2>3 DEF Threads
<1>12. CASE OnResolved
  <2>1. PICK m \in ToSet(ready) :
          /\ m.h = "resolved" /\ HandlerRan(m.r)
          /\ pc' = pc \/ (pc' = [pc EXCEPT !["io"] = "close"] /\ req'.io = m.r)
    BY <1>12, OnResolvedMoves
  <2>2. m.r \in lookups /\ pc.io = "run"
    BY <1>1, <2>1 DEF Lookups, HandlerRan
  <2>3. /\ pc'.worker = pc.worker /\ req'.worker = req.worker
        /\ pc'.io = "run" \/ (pc'.io = "close" /\ req'.io = m.r)
    BY <1>1, <1>12, <2>1, <2>2, PcFacts DEF OnResolved, threadVars, Threads
  <2> QED
    BY <1>3, <1>4, <1>5, <2>1, <2>2, <2>3 DEF HandlerRan
<1>13. CASE OnConnected
  <2>1. PICK m \in ToSet(ready) :
          HandlerRan(m.r) /\ (pc' = pc \/ pc' = [pc EXCEPT !["io"] = "write"])
    BY <1>13, OnConnectedMoves
  <2>2. /\ pc'.worker = pc.worker /\ req'.worker = req.worker /\ pc'.io \in {"run", "write"}
    BY <1>1, <1>13, <2>1, PcFacts DEF OnConnected, threadVars, Threads, HandlerRan
  <2> QED
    BY <1>3, <1>4, <1>5, <2>1, <2>2 DEF HandlerRan
<1>14. CASE OnResolverDeadline
  BY <1>3, <1>4, <1>5, <1>14, OnResolverDeadlineMoves
<1>15. CASE OnSocketDeadline
  BY <1>3, <1>4, <1>5, <1>15, OnSocketDeadlineMoves
<1>16. CASE HttpWrite \/ HttpRead
  <2>1. /\ pc'.worker = pc.worker /\ req'.worker = req.worker /\ pc'.io \in {"read", "run"}
        /\ UNCHANGED <<queue, lookups, resolving, submitted>>
        /\ Connecting' = Connecting /\ ReadyGets({}, {})
    BY <1>1, <1>16, HttpMoves, PcFacts DEF Threads
  <2> QED
    BY <1>3, <1>4, <1>5, <2>1
<1>17. ASSUME NEW r \in Requests, NEW e \in {"ok", "error"}, ResolverCompletes(r, e)
       PROVE  Lookups'
  BY <1>3, <1>4, <1>5, <1>17, ResolverCompletesMoves
<1>18. ASSUME NEW e \in {"ok", "error"}, ConnectCompletes(e)
       PROVE  Lookups'
  BY <1>3, <1>4, <1>5, <1>18, ConnectCompletesMoves
<1>19. CASE Cancel \/ DtorCancel
  BY <1>3, <1>4, <1>5, <1>19, CancelMoves
<1> QED
  BY <1>6, <1>7, <1>8, <1>9, <1>10, <1>11, <1>12, <1>13, <1>14, <1>15, <1>16, <1>17, <1>18, <1>19,
     StepCases

LEMMA UnknownKept ==
  ASSUME Sane, Unknown, [Next]_vars
  PROVE  Unknown'
<1>1. /\ Typing
      /\ endpoints = "unknown" => \A m \in ToSet(ready) : m.h # "connected"
      /\ endpoints = "unknown" =>
           /\ submitted = Waiting \cup lookups /\ pc.io \notin IoHolds /\ Connecting = {}
           /\ pc.worker \notin {"cached", "close", "connect"}
  BY DEF Sane, Unknown
\* It is enough to see what becomes of the threads and the connection attempt.
<1>2. ASSUME NEW taken, NEW new, ReadyGets(taken, new), endpoints' = endpoints,
             endpoints = "unknown" =>
               /\ submitted' = Waiting' \cup lookups' /\ Connecting' = {}
               /\ pc'.worker \notin {"cached", "close", "connect"} /\ pc'.io \notin IoHolds
      PROVE  Unknown'
  <2>1. endpoints = "unknown" => \A m \in ToSet(ready') : m.h # "connected"
    BY <1>1, <1>2 DEF ReadyGets, KindsStay
  <2> QED
    BY <1>2, <2>1 DEF Unknown
<1>3. queue' = queue => Waiting' = Waiting
  BY HeldStays
<1>4. CASE QuietStep
  BY <1>1, <1>2, <1>3, <1>4, QuietMoves, QuietPlaces DEF AllStay, RestPlaces
<1>5. ASSUME NEW r \in Requests, Submit(r)
      PROVE  Unknown'
  <2>1. pc'.io = pc.io /\ (pc'.worker = pc.worker \/ pc'.worker \in RestPlaces)
    BY <1>1, <1>5, RestFacts, RestingStays DEF Submit, IoStays
  <2> QED
    BY <1>1, <1>2, <1>5, <2>1, SubmitMoves DEF RestPlaces
<1>6. CASE TakeJob
  <2>1. PICK j \in Waiting :
          /\ Waiting' = Waiting \ {j}
          /\ lookups' = IF endpoints = "unknown" THEN lookups \cup {j} ELSE lookups
          /\ UNCHANGED <<endpoints, submitted>>
          /\ Connecting' = Connecting /\ ReadyGets({}, {})
    BY <1>6, TakeJobMoves
  <2>2. endpoints = "unknown" => pc'.worker = "resolve" /\ pc'.io = pc.io
    BY <1>1, <1>6, PcFacts DEF TakeJob, Goto, Threads
  <2> QED
    BY <1>1, <1>2, <2>1, <2>2
<1>7. CASE Resolve
  <2>1. pc'.worker = "armResolver" /\ pc'.io = pc.io
    BY <1>1, <1>7, PcFacts DEF Resolve, Goto, Threads
  <2> QED
    BY <1>1, <1>2, <1>3, <1>7, <2>1, ResolveMoves
<1>8. ASSUME NEW t \in Threads, SetupClose(t)
      PROVE  Unknown'
  <2>1. endpoints # "unknown"
    BY <1>1, <1>8, SetupCloseMoves DEF IoHolds, Threads
  <2> QED
    BY <1>2, <1>8, <2>1, SetupCloseMoves
<1>9. ASSUME NEW t \in Threads, SetupConnect(t)
      PROVE  Unknown'
  <2>1. endpoints # "unknown"
    BY <1>1, <1>9, SetupConnectMoves DEF IoHolds, Threads
  <2> QED
    BY <1>2, <1>9, <2>1, SetupConnectMoves
<1>10. CASE OnResolved
  BY <1>10, OnResolvedMoves DEF Unknown
<1>11. CASE OnConnected
  <2>1. endpoints # "unknown" /\ endpoints' = endpoints
    BY <1>1, <1>11, OnConnectedMoves
  <2> QED
    BY <2>1 DEF Unknown
<1>12. CASE OnResolverDeadline
  BY <1>1, <1>2, <1>3, <1>12, OnResolverDeadlineMoves
<1>13. CASE OnSocketDeadline
  BY <1>1, <1>2, <1>3, <1>13, OnSocketDeadlineMoves
<1>14. CASE HttpWrite \/ HttpRead
  <2>1. endpoints # "unknown" /\ endpoints' = endpoints
    BY <1>1, <1>14, HttpMoves DEF IoHolds
  <2> QED
    BY <2>1 DEF Unknown
<1>15. ASSUME NEW r \in Requests, NEW e \in {"ok", "error"}, ResolverCompletes(r, e)
       PROVE  Unknown'
  BY <1>1, <1>2, <1>3, <1>15, ResolverCompletesMoves
<1>16. ASSUME NEW e \in {"ok", "error"}, ConnectCompletes(e)
       PROVE  Unknown'
  BY <1>1, <1>2, <1>3, <1>16, ConnectCompletesMoves
<1>17. CASE Cancel \/ DtorCancel
  BY <1>1, <1>2, <1>3, <1>17, CancelMoves
<1> QED
  BY <1>4, <1>5, <1>6, <1>7, <1>8, <1>9, <1>10, <1>11, <1>12, <1>13, <1>14, <1>15, <1>16, <1>17,
     StepCases

-----------------------------------------------------------------------------
(* The order of the requests that look up no endpoints                     *)

\* A request that was looked up precedes every one that was not.
LEMMA LookupsPrecede ==
  ASSUME Sane, NEW early \in SUBSET lookups, NEW late, late \subseteq Requests
  PROVE  Precede(early, late \ lookups)
<1> SUFFICES ASSUME NEW r \in early, NEW s \in late \ lookups
             PROVE  r < s
  BY DEF Precede
<1>1. 1..r \subseteq lookups /\ r \in Nat /\ s \in Nat /\ s # 0
  BY Numbers DEF Sane, Lookups, Typing, TypeOK, NoRequest
<1> QED
  BY <1>1

LEMMA OrderKept ==
  ASSUME Sane, Unknown, Order, [Next]_vars
  PROVE  Order'
<1>1. Typing /\ Accounting /\ Lookups /\ Apart
  BY DEF Sane, Accounting
<1>2. /\ InFlight = Waiting \cup InWorker \cup resolving \cup Connecting \cup Completed \cup InIo
      /\ InFlight \subseteq submitted /\ InFlight \subseteq Requests /\ resolving \subseteq lookups
  BY <1>1 DEF Accounting, Typing, TypeOK, InFlight, Lookups
<1>3. /\ Precede(InFlight \ Waiting, Waiting)
      /\ Precede(InFlight \ (Waiting \cup InWorker), InWorker)
      /\ Precede(Completed \cup InIo, Connecting \ lookups)
      /\ Precede(InIo, Completed \ lookups)
      /\ InOrder(ready, lookups)
  BY DEF Order
\* Less precedes less.
<1>4. \A early, late, less, fewer :
        Precede(early, late) /\ less \subseteq early /\ fewer \subseteq late => Precede(less, fewer)
  BY DEF Precede
<1>5. \A early, more, late :
        Precede(early, late) /\ Precede(more, late) => Precede(early \cup more, late)
  BY DEF Precede
<1>6. \A early, late, more :
        Precede(early, late) /\ Precede(early, more) => Precede(early, late \cup more)
  BY DEF Precede
<1>7. ASSUME NEW early, NEW late, early \subseteq lookups, late \subseteq Requests
      PROVE  Precede(early, late \ lookups)
  BY <1>7, LookupsPrecede
\* The conjuncts of Order'.
<1>8. ASSUME Precede(InFlight' \ Waiting', Waiting'),
             Precede(InFlight' \ (Waiting' \cup InWorker'), InWorker'),
             Precede(Completed' \cup InIo', Connecting' \ lookups'),
             Precede(InIo', Completed' \ lookups'),
             InOrder(ready', lookups')
      PROVE  Order'
  BY <1>8 DEF Order
\* Steps that neither submit nor take keep the first two.
<1>9. ASSUME Waiting' = Waiting, InWorker' \subseteq InWorker, InFlight' \subseteq InFlight,
             InWorker' = InWorker \/ InWorker' = {}
      PROVE  /\ Precede(InFlight' \ Waiting', Waiting')
             /\ Precede(InFlight' \ (Waiting' \cup InWorker'), InWorker')
  <2>1. Precede(InFlight' \ Waiting', Waiting')
    BY <1>3, <1>9 DEF Precede
  <2>2. Precede(InFlight' \ (Waiting' \cup InWorker'), InWorker')
    BY <1>3, <1>9 DEF Precede
  <2> QED
    BY <2>1, <2>2
<1>10. ASSUME NEW taken, NEW new, ReadyGets(taken, new), Precede(Completed \ taken, new \ lookups)
       PROVE  InOrder(ready', lookups) /\ Completed' = (Completed \ taken) \cup new
  BY <1>3, <1>10 DEF ReadyGets
<1>11. queue' = queue => Waiting' = Waiting
  BY HeldStays
<1>12. ASSUME queue' = queue, InWorker' = InWorker \/ InWorker' = {}, InFlight' \subseteq InFlight,
              lookups' = lookups, NEW taken, NEW new, ReadyGets(taken, new),
              Precede(Completed \ taken, new \ lookups),
              Precede(Completed' \cup InIo', Connecting' \ lookups),
              Precede(InIo', Completed' \ lookups)
       PROVE  Order'
  BY <1>8, <1>9, <1>10, <1>11, <1>12
<1>13. submitted' = submitted /\ calls' = calls => InFlight' = InFlight
  BY HeldStays
<1>14. CASE QuietStep
  <2>1. /\ UNCHANGED <<queue, lookups, submitted, calls>> /\ InWorker' = InWorker
        /\ Connecting' = Connecting /\ InIo' = InIo /\ ReadyGets({}, {})
    BY <1>14, QuietMoves DEF AllStay
  <2>2. Precede(Completed \ {}, {} \ lookups)
    BY DEF Precede
  <2>3. Completed' = Completed
    BY <1>10, <2>1, <2>2
  <2> QED
    BY <1>3, <1>12, <1>13, <2>1, <2>2, <2>3
<1>15. ASSUME NEW r \in Requests, Submit(r)
       PROVE  Order'
  <2>1. /\ submitted = 1..(r - 1) /\ lookups' = lookups /\ InWorker' = InWorker
        /\ Waiting' = Waiting \cup {r} /\ InFlight' = InFlight \cup {r} /\ r \notin submitted
        /\ Connecting' = Connecting /\ InIo' = InIo /\ ReadyGets({}, {})
    BY <1>15, SubmitMoves
  <2>2. Precede(Completed \ {}, {} \ lookups)
    BY DEF Precede
  <2>3. Completed' = Completed /\ InOrder(ready', lookups)
    <3>1. InOrder(ready', lookups) /\ Completed' = (Completed \ {}) \cup {}
      BY <1>10, <2>1, <2>2
    <3> QED
      BY <3>1
  <2>4. Precede(InFlight, {r})
    BY <1>2, <2>1, Numbers DEF Precede
  <2>5. /\ InFlight' \ Waiting' \subseteq InFlight \ Waiting
        /\ InFlight' \ (Waiting' \cup InWorker') \subseteq InFlight \ (Waiting \cup InWorker)
    BY <2>1
  <2>6. Precede(InFlight' \ Waiting', Waiting) /\ Precede(InFlight' \ Waiting', {r})
    BY <1>3, <2>4, <2>5 DEF Precede
  <2>7. Precede(InFlight' \ (Waiting' \cup InWorker'), InWorker')
    BY <1>3, <2>1, <2>5 DEF Precede
  <2> QED
    BY <1>3, <1>6, <1>8, <2>1, <2>3, <2>6, <2>7
<1>16. CASE TakeJob
  <2>1. PICK j \in Waiting :
          /\ Waiting' = Waiting \ {j} /\ Precede({j}, Waiting')
          /\ InWorker = {} /\ InWorker' = {j}
          /\ lookups' = IF endpoints = "unknown" THEN lookups \cup {j} ELSE lookups
          /\ UNCHANGED <<resolving, endpoints, calls, submitted>>
          /\ Connecting' = Connecting /\ InIo' = InIo /\ InFlight' = InFlight
          /\ ready' = ready /\ ReadyGets({}, {})
    BY <1>16, TakeJobMoves
  <2>2. lookups \subseteq lookups' /\ Completed' = Completed
    BY <2>1 DEF Completed
  <2>3. InOrder(ready', lookups')
    BY <1>3, <2>1, <2>2 DEF InOrder
  <2>4. InFlight' \ Waiting' \subseteq (InFlight \ Waiting) \cup {j}
    BY <2>1
  <2>5. Precede(InFlight' \ Waiting', Waiting')
    BY <1>3, <2>1, <2>4 DEF Precede
  <2>6. Precede(InFlight' \ (Waiting' \cup InWorker'), InWorker')
    BY <1>3, <2>1 DEF Precede
  <2>7. /\ Precede(Completed' \cup InIo', Connecting' \ lookups')
        /\ Precede(InIo', Completed' \ lookups')
    BY <1>3, <2>1, <2>2 DEF Precede
  <2> QED
    BY <1>8, <2>3, <2>5, <2>6, <2>7
<1>17. CASE Resolve
  <2>1. /\ InWorker' = {} /\ UNCHANGED <<queue, lookups, calls, submitted>>
        /\ Connecting' = Connecting /\ InIo' = InIo /\ ReadyGets({}, {})
    BY <1>17, ResolveMoves
  <2>2. Precede(Completed \ {}, {} \ lookups)
    BY DEF Precede
  <2>3. Completed' = Completed
    BY <1>10, <2>1, <2>2
  <2> QED
    BY <1>3, <1>12, <1>13, <2>1, <2>2, <2>3
\* The attempt in progress completes.
<1>18. ASSUME queue' = queue, lookups' = lookups, submitted' = submitted, calls' = calls,
              InWorker' = InWorker, InIo' = InIo, Connecting' = {}, ReadyGets({}, Connecting)
       PROVE  Order'
  <2>1. Precede(Completed \ {}, Connecting \ lookups)
    BY <1>3 DEF Precede
  <2>2. Completed' = Completed \cup Connecting
    BY <1>10, <1>18, <2>1
  <2>3. Precede(InIo', Completed' \ lookups)
    BY <1>3, <1>18, <2>2 DEF Precede
  <2>4. Precede(Completed' \cup InIo', Connecting' \ lookups)
    BY <1>18 DEF Precede
  <2> QED
    BY <1>12, <1>13, <1>18, <2>1, <2>3, <2>4
<1>19. ASSUME NEW t \in Threads, SetupClose(t)
       PROVE  Order'
  BY <1>18, <1>19, SetupCloseMoves
<1>20. ASSUME NEW e \in {"ok", "error"}, ConnectCompletes(e)
       PROVE  Order'
  BY <1>18, <1>20, ConnectCompletesMoves
<1>21. CASE OnSocketDeadline
  <2>1. /\ UNCHANGED <<queue, lookups, calls, submitted>> /\ InWorker' = InWorker /\ InIo' = InIo
        /\ \/ Connecting' = Connecting /\ ReadyGets({}, {})
           \/ Connecting' = {} /\ ReadyGets({}, Connecting)
    BY <1>21, OnSocketDeadlineMoves
  <2>2. Precede(Completed \ {}, {} \ lookups)
    BY DEF Precede
  <2>3. CASE Connecting' = Connecting /\ ReadyGets({}, {})
    <3>1. Completed' = Completed
      BY <1>10, <2>2, <2>3
    <3> QED
      BY <1>3, <1>12, <1>13, <2>1, <2>2, <2>3, <3>1
  <2> QED
    BY <1>18, <2>1, <2>3
\* Resolutions complete.
<1>22. ASSUME queue' = queue, lookups' = lookups, submitted' = submitted, calls' = calls,
              InWorker' = InWorker, InIo' = InIo, Connecting' = Connecting,
              NEW new \in SUBSET resolving, ReadyGets({}, new)
       PROVE  Order'
  <2>1. Precede(Completed \ {}, new \ lookups) /\ new \ lookups = {}
    BY <1>2 DEF Precede
  <2>2. Completed' = Completed \cup new
    BY <1>10, <1>22, <2>1
  <2>3. Precede(InIo', Completed' \ lookups)
    BY <1>3, <1>22, <2>1, <2>2 DEF Precede
  <2>4. Precede(new, Connecting \ lookups)
    BY <1>2, <1>7
  <2>5. Precede(Completed' \cup InIo', Connecting' \ lookups)
    BY <1>3, <1>22, <2>2, <2>4 DEF Precede
  <2> QED
    BY <1>12, <1>13, <1>22, <2>1, <2>3, <2>5
<1>23. CASE OnResolverDeadline
  BY <1>22, <1>23, OnResolverDeadlineMoves
<1>24. ASSUME NEW r \in Requests, NEW e \in {"ok", "error"}, ResolverCompletes(r, e)
       PROVE  Order'
  BY <1>22, <1>24, ResolverCompletesMoves
<1>25. CASE Cancel \/ DtorCancel
  <2>1. /\ UNCHANGED <<queue, lookups, calls, submitted>> /\ InWorker' = InWorker /\ InIo' = InIo
        /\ Connecting' = {} /\ ReadyGets({}, resolving \cup Connecting)
    BY <1>25, CancelMoves
  <2>2. Precede(Completed \ {}, (resolving \cup Connecting) \ lookups)
    BY <1>2, <1>3 DEF Precede
  <2>3. Completed' = Completed \cup resolving \cup Connecting
    BY <1>10, <2>1, <2>2
  <2>4. Precede(InIo', Completed' \ lookups)
    BY <1>2, <1>3, <2>1, <2>3 DEF Precede
  <2>5. Precede(Completed' \cup InIo', Connecting' \ lookups)
    BY <2>1 DEF Precede
  <2> QED
    BY <1>12, <1>13, <2>1, <2>2, <2>4, <2>5
<1>26. ASSUME NEW t \in Threads, SetupConnect(t)
       PROVE  Order'
  <2>1. /\ pc[t] = "connect" /\ Holds(t) = {req[t]} /\ Holds(t)' = {} /\ Other(t)' = Other(t)
        /\ UNCHANGED <<queue, lookups, endpoints, calls, submitted>>
        /\ IF endpoints = "empty"
           THEN Connecting' = Connecting /\ ReadyGets({}, Holds(t))
           ELSE Connecting' = Holds(t) /\ ReadyGets({}, Connecting)
    BY <1>26, SetupConnectMoves
  <2>2. /\ InWorker' = InWorker \/ InWorker' = {}
        /\ InIo' = InIo \/ InIo' = {}
    BY <2>1 DEF Holds, Other
  <2>3. Connecting \subseteq InFlight /\ Connecting \cap (Waiting \cup InWorker) = {}
    BY <1>1, <1>2 DEF Apart
  <2>4. /\ (Completed \cup InIo) \subseteq InFlight
        /\ (Completed \cup InIo) \cap (Waiting \cup InWorker) = {}
    BY <1>1, <1>2 DEF Apart
  \* Whatever is held connects after what has completed, and what the worker
  \* holds after what the io thread does.
  <2>5. Precede(Completed \cup InIo', Holds(t) \ lookups)
    <3>1. CASE t = "worker"
      <4>1. Precede(Completed \cup InIo', InWorker)
        BY <1>3, <2>2, <2>4 DEF Precede
      <4> QED
        BY <3>1, <4>1 DEF Holds, Precede
    <3>2. CASE t = "io"
      <4>1. req.io \in lookups
        BY <1>1, <2>1, <3>2 DEF Lookups
      <4> QED
        BY <2>1, <3>2, <4>1 DEF Precede
    <3> QED
      BY <3>1, <3>2 DEF Threads
  <2>6. Precede(Completed \cup InIo', Connecting \ lookups) /\ Precede(InIo', Completed \ lookups)
    BY <1>3, <2>2 DEF Precede
  <2>7. CASE endpoints = "empty"
    <3>1. Completed' = Completed \cup Holds(t) /\ Connecting' = Connecting
      BY <1>10, <2>1, <2>5, <2>7 DEF Precede
    <3>2. Precede(Holds(t), Connecting \ lookups)
      <4>1. CASE t = "worker"
        <5>1. Connecting \subseteq lookups
          BY <1>1, <2>1, <4>1 DEF Lookups
        <5> QED
          BY <5>1 DEF Precede
      <4>2. CASE t = "io"
        BY <1>3, <4>2 DEF Holds, Precede
      <4> QED
        BY <4>1, <4>2 DEF Threads
    <3>3. Precede(Completed \ {}, Holds(t) \ lookups)
      BY <2>5 DEF Precede
    <3>4. Precede(Completed' \cup InIo', Connecting' \ lookups)
      BY <2>6, <3>1, <3>2 DEF Precede
    <3>5. Precede(InIo', Completed' \ lookups)
      BY <2>5, <2>6, <3>1 DEF Precede
    <3> QED
      BY <1>12, <1>13, <2>1, <2>2, <2>7, <3>3, <3>4, <3>5
  <2>8. CASE endpoints # "empty"
    <3>1. Precede(Completed \ {}, Connecting \ lookups)
      BY <2>6 DEF Precede
    <3>2. Completed' = Completed \cup Connecting /\ Connecting' = Holds(t)
      BY <1>10, <2>1, <2>8, <3>1
    <3>3. Precede(Connecting, Holds(t) \ lookups)
      <4>1. CASE t = "worker"
        BY <1>3, <2>3, <4>1 DEF Holds, Precede
      <4>2. CASE t = "io"
        <5>1. req.io \in lookups
          BY <1>1, <2>1, <4>2 DEF Lookups
        <5> QED
          BY <2>1, <4>2, <5>1 DEF Precede
      <4> QED
        BY <4>1, <4>2 DEF Threads
    <3>4. Precede(Completed' \cup InIo', Connecting' \ lookups)
      BY <2>5, <3>2, <3>3 DEF Precede
    <3>5. Precede(InIo', Completed' \ lookups)
      BY <2>6, <3>2 DEF Precede
    <3> QED
      BY <1>12, <1>13, <2>1, <2>2, <2>8, <3>1, <3>4, <3>5
  <2> QED
    BY <2>7, <2>8
<1>27. ASSUME NEW r, HandlerRan(r)
       PROVE  Order'
  <2>1. /\ r \in Completed /\ Precede({r}, (Completed \ {r}) \ lookups)
        /\ queue' = queue /\ lookups' = lookups
        /\ InWorker' = InWorker /\ Connecting' = Connecting /\ ReadyGets({r}, {})
        /\ InIo' \subseteq {r} /\ InFlight' \subseteq InFlight
    BY <1>3, <1>27 DEF HandlerRan, Answered
  <2>2. Precede(Completed \ {r}, {} \ lookups)
    BY DEF Precede
  <2>3. Completed' = Completed \ {r}
    BY <1>10, <2>1, <2>2
  <2>4. Precede(InIo', Completed' \ lookups)
    BY <2>1, <2>3 DEF Precede
  <2>5. Precede(Completed' \cup InIo', Connecting' \ lookups)
    BY <1>3, <2>1, <2>3 DEF Precede
  <2> QED
    BY <1>12, <2>1, <2>2, <2>4, <2>5
<1>28. CASE OnResolved \/ OnConnected
  BY <1>27, <1>28, OnResolvedMoves, OnConnectedMoves
<1>29. CASE HttpWrite \/ HttpRead
  <2>1. /\ UNCHANGED <<queue, lookups>> /\ InWorker' = InWorker /\ Connecting' = Connecting
        /\ ReadyGets({}, {})
        /\ InIo' = InIo \/ InIo' = {}
        /\ InFlight' \subseteq InFlight
    BY <1>29, HttpMoves DEF Answered
  <2>2. Precede(Completed \ {}, {} \ lookups)
    BY DEF Precede
  <2>3. Completed' = Completed
    BY <1>10, <2>1, <2>2
  <2>4. /\ Precede(InIo', Completed' \ lookups)
        /\ Precede(Completed' \cup InIo', Connecting' \ lookups)
    BY <1>3, <2>1, <2>3 DEF Precede
  <2> QED
    BY <1>12, <2>1, <2>2, <2>4
<1> QED
  BY <1>14, <1>15, <1>16, <1>17, <1>19, <1>20, <1>21, <1>23, <1>24, <1>25, <1>26, <1>28, <1>29,
     StepCases

-----------------------------------------------------------------------------
(* The inductive invariant                                                 *)

IInv == Sane /\ Unknown /\ Order

LEMMA InitInv == Init => IInv
<1> SUFFICES ASSUME Init
             PROVE  IInv
  OBVIOUS
<1>1. /\ queue = <<>> /\ ready = <<>> /\ endpoints = "unknown" /\ lookups = {} /\ resolving = {}
      /\ submitted = {} /\ excused = {} /\ cancels = 0 /\ dtor = "none"
      /\ pc = [worker |-> "idle", io |-> "test"]
      /\ req = [worker |-> NoRequest, io |-> NoRequest]
      /\ sock = Closed /\ stopped = FALSE /\ interruptIoServiceTask = FALSE
      /\ resolverTimer = [expired |-> TRUE, waiting |-> FALSE, for |-> NoRequest]
      /\ socketTimer = resolverTimer
      /\ calls = [r \in Requests |-> <<>>]
  BY DEF Init
<1>2. /\ Waiting = {} /\ Completed = {} /\ Connecting = {} /\ InWorker = {} /\ InIo = {}
      /\ InFlight = {}
  BY <1>1, EmptyFacts DEF Waiting, ToSet, Completed, Connecting, Closed, InWorker, InIo, InFlight,
                          WorkerHolds, IoHolds
<1>3. Typing
  <2>1. queue \in Seq(Requests) /\ ready \in Seq(Handlers) /\ ready \in Seq(HandlerType)
    BY <1>1, EmptyFacts, HandlersAreTyped
  <2>2. calls \in [Requests -> Seq({"timeout"} \cup Outcomes)]
    BY <1>1
  <2>3. /\ pc \in [{"worker", "io"} -> WorkerPlaces \cup IoPlaces]
        /\ req \in [{"worker", "io"} -> Requests \cup {NoRequest}]
        /\ pc.worker = "idle" /\ pc.io = "test"
    BY <1>1 DEF WorkerPlaces, IoPlaces
  <2>4. resolverTimer \in TimerType /\ socketTimer \in TimerType
    BY <1>1 DEF TimerType
  <2>5. /\ sock \in [st : {"closed", "connecting", "open", "connected"},
                     owner : Requests \cup {NoRequest}, written : Requests \cup {NoRequest}]
        /\ sock.st # "connecting"
    BY <1>1 DEF Closed
  <2>6. cancels \in 0..MaxCancels
    BY <1>1, ChannelAssumption
  <2> QED
    BY <1>1, <2>1, <2>2, <2>3, <2>4, <2>5, <2>6 DEF Typing, TypeOK, WorkerHolds, IoHolds
<1>4. Accounting
  <2>1. Sorted(queue) /\ Solo(ready)
    BY <1>1, EmptyFacts DEF Sorted
  <2> QED
    BY <1>1, <1>2, <2>1 DEF Accounting, Apart
<1>5. Lookups
  BY <1>1, <1>2, EmptyFacts DEF Lookups
<1>6. Unknown
  BY <1>1, <1>2, EmptyFacts DEF Unknown, IoHolds
<1>7. Order
  BY <1>1, <1>2, EmptyFacts DEF Order, Precede
<1> QED
  BY <1>3, <1>4, <1>5, <1>6, <1>7 DEF IInv, Sane

LEMMA NextInv == IInv /\ [Next]_vars => IInv'
  BY TypingKept, AccountingKept, LookupsKept, UnknownKept, OrderKept DEF IInv, Sane

LEMMA Invariance == Spec => []IInv
  BY InitInv, NextInv, PTL DEF Spec

\* Every variable has its type.
THEOREM TypeCorrect == Spec => []TypeOK
<1>1. IInv => TypeOK
  BY DEF IInv, Sane, Typing
<1> QED
  BY <1>1, Invariance, PTL

-----------------------------------------------------------------------------
(* Each unanswered request is in one place                                 *)

LEMMA OnePlace ==
  ASSUME Sane, NEW r \in Requests
  PROVE  Places(r) = Count(r \in submitted /\ calls[r] = <<>>)
<1> DEFINE indices == {i \in DOMAIN ready : ready[i].r = r}
<1>1. Typing /\ Apart /\ Solo(ready) /\ ready \in Seq(Handlers) /\ queue \in Seq(Requests)
  BY DEF Sane, Accounting, Typing, TypeOK
<1>2. InFlight = Waiting \cup InWorker \cup resolving \cup Connecting \cup Completed \cup InIo
  BY DEF Sane, Accounting
<1>3. (\E i \in DOMAIN queue : queue[i] = r) <=> r \in Waiting
  BY DEF Waiting, ToSet
<1>4. (pc.worker \in {"resolve", "cached", "close", "connect"} /\ req.worker = r) <=> r \in InWorker
  BY DEF InWorker, WorkerHolds
<1>5. (sock.st = "connecting" /\ sock.owner = r) <=> r \in Connecting
  BY DEF Connecting
<1>6. (pc.io \in {"close", "connect", "write", "read"} /\ req.io = r) <=> r \in InIo
  BY DEF InIo, IoHolds
<1>7. (r \in submitted /\ calls[r] = <<>>) <=> r \in InFlight
  BY DEF InFlight
<1>8. Cardinality(indices) = Count(r \in Completed)
  <2>1. DOMAIN ready = 1..Len(ready)
    BY <1>1, LenProperties
  <2>2. \A i, k \in indices : i = k
    BY <1>1, <2>1 DEF Solo
  <2>3. r \in Completed <=> indices # {}
    BY DEF Completed, RequestsOf, ToSet
  <2>4. CASE indices = {}
    BY <2>3, <2>4, FS_EmptySet DEF Count
  <2>5. CASE indices # {}
    <3>1. PICK i \in indices : indices = {i}
      BY <2>2, <2>5
    <3> HIDE DEF indices
    <3> QED
      BY <2>3, <3>1, FS_Singleton DEF Count
  <2> QED
    BY <2>4, <2>5
<1>9. Places(r) = Count(r \in Waiting) + Count(r \in InWorker) + Count(r \in resolving)
                  + Count(r \in Connecting) + Count(r \in Completed) + Count(r \in InIo)
  BY <1>3, <1>4, <1>5, <1>6, <1>8 DEF Places, Count
<1>10. Places(r) = Count(r \in InFlight)
  BY <1>1, <1>2, <1>9 DEF Apart, Count
<1> QED
  BY <1>7, <1>10 DEF Count

\* However requests abort one another, none is forgotten and none is processed
\* twice: an unanswered request is in exactly one of the worker's queue, the
\* hands of a thread, a resolution, a connection attempt and a completed
\* handler, and an answered one in none.
THEOREM RequestsAreAccounted == Spec => []Accounted
<1>1. IInv => Accounted
  BY OnePlace DEF IInv, Accounted
<1> QED
  BY <1>1, Invariance, PTL

-----------------------------------------------------------------------------
(* The asynchronous commands keep what CommandService promises             *)

\* What a step does to what clients can observe.
LEMMA Observed ==
  ASSUME Sane, [Next]_vars
  PROVE  \/ UNCHANGED <<submitted, lookups, endpoints, calls>>
         \/ \E r \in Requests : Submit(r)
         \/ TakeJob \/ OnResolved \/ OnConnected \/ HttpWrite \/ HttpRead
<1>1. CASE QuietStep
  BY <1>1, QuietMoves DEF AllStay
<1>2. CASE Resolve
  BY <1>2, ResolveMoves
<1>3. ASSUME NEW t \in Threads, SetupClose(t) \/ SetupConnect(t)
      PROVE  UNCHANGED <<submitted, lookups, endpoints, calls>>
  BY <1>3, SetupCloseMoves, SetupConnectMoves
<1>4. CASE OnResolverDeadline \/ OnSocketDeadline
  BY <1>4, OnResolverDeadlineMoves, OnSocketDeadlineMoves
<1>5. ASSUME NEW r \in Requests, NEW e \in {"ok", "error"}, ResolverCompletes(r, e)
      PROVE  UNCHANGED <<submitted, lookups, endpoints, calls>>
  BY <1>5, ResolverCompletesMoves
<1>6. ASSUME NEW e \in {"ok", "error"}, ConnectCompletes(e)
      PROVE  UNCHANGED <<submitted, lookups, endpoints, calls>>
  BY <1>6, ConnectCompletesMoves
<1>7. CASE Cancel \/ DtorCancel
  BY <1>7, CancelMoves
<1> QED
  BY <1>1, <1>2, <1>3, <1>4, <1>5, <1>6, <1>7, StepCases

\* Whoever is about to be answered comes first among those that look up no
\* endpoints.
LEMMA EarlierLookUp ==
  ASSUME Sane, Order, NEW r \in Completed \cup InIo, InIo \subseteq {r},
         Precede({r}, (Completed \ {r}) \ lookups)
  PROVE  \A q \in InFlight : q < r => q \in lookups
<1> SUFFICES ASSUME NEW q \in InFlight, q < r, q \notin lookups
             PROVE  FALSE
  OBVIOUS
<1>1. /\ InFlight = Waiting \cup InWorker \cup resolving \cup Connecting \cup Completed \cup InIo
      /\ Apart /\ resolving \subseteq lookups /\ InFlight \subseteq Requests
  BY DEF Sane, Accounting, Lookups, InFlight, Typing, TypeOK
<1>2. r \in Nat /\ q \in Nat /\ ~(r < q)
  BY <1>1, Numbers
<1>3. r \in InFlight \ (Waiting \cup InWorker)
  BY <1>1 DEF Apart
<1>4. q \notin Waiting /\ q \notin InWorker
  BY <1>2, <1>3 DEF Order, Precede
<1>5. q \notin Connecting
  BY <1>2 DEF Order, Precede
<1>6. q # r
  BY <1>2
<1>7. q \notin Completed
  BY <1>2, <1>6 DEF Precede
<1> QED
  BY <1>1, <1>4, <1>5, <1>6, <1>7

\* A step that answers r is the service's reply.
LEMMA ReplyOf ==
  ASSUME IInv, NEW r \in Completed \cup InIo, InIo \subseteq {r},
         Precede({r}, (Completed \ {r}) \ lookups), Answered(r),
         endpoints # "unknown" \/ r \in lookups, endpoints' # "unknown",
         UNCHANGED <<submitted, lookups>>
  PROVE  Service!Reply(r)
<1>1. \A q \in InFlight : q < r => q \in lookups
  BY EarlierLookUp DEF IInv
<1>2. r \in Service!Pending /\ Service!Earlier(r) \subseteq lookups
  BY <1>1 DEF Answered, InFlight, Service!Pending, Service!Earlier
<1>3. \E a \in Service!Answers(r) : calls' = [calls EXCEPT ![r] = a]
  BY DEF Answered, Answers, Service!Answers, Verdicts
<1> QED
  BY <1>2, <1>3 DEF Service!Reply

LEMMA ServiceInit == Init => Service!Init
  BY DEF Init, Service!Init

LEMMA ServiceNext == IInv /\ [Next]_vars => [Service!Next]_(Service!vars)
<1> SUFFICES ASSUME IInv, [Next]_vars
             PROVE  Service!Next \/ UNCHANGED Service!vars
  OBVIOUS
<1>1. Sane /\ Unknown /\ Order
  BY DEF IInv
<1>2. InFlight \subseteq Requests /\ Completed \subseteq InFlight /\ InIo \subseteq InFlight
  BY <1>1 DEF Sane, Accounting, InFlight, Typing, TypeOK
<1>3. CASE UNCHANGED <<submitted, lookups, endpoints, calls>>
  BY <1>3 DEF Service!vars
<1>4. ASSUME NEW r \in Requests, Submit(r)
      PROVE  Service!Next
  BY <1>1, <1>4, SubmitMoves DEF Service!Next, Service!Submit
<1>5. CASE TakeJob
  <2>1. PICK j \in Waiting :
          /\ Waiting' = Waiting \ {j} /\ Precede({j}, Waiting')
          /\ lookups' = IF endpoints = "unknown" THEN lookups \cup {j} ELSE lookups
          /\ UNCHANGED <<endpoints, calls, submitted>>
    BY <1>1, <1>5, TakeJobMoves
  <2>2. CASE endpoints # "unknown"
    BY <2>1, <2>2 DEF Service!vars
  <2>3. CASE endpoints = "unknown"
    <3>1. /\ submitted = Waiting \cup lookups /\ lookups \subseteq submitted \ Waiting
          /\ Waiting \subseteq InFlight
      BY <1>1, <2>3 DEF Unknown, Sane, Accounting, Lookups
    <3>2. \A q \in InFlight : q < j => q \in lookups
      <4> SUFFICES ASSUME NEW q \in InFlight, q < j, q \notin lookups
                   PROVE  FALSE
        OBVIOUS
      <4>1. q \in Nat /\ j \in Nat /\ q # j /\ ~(j < q)
        BY <1>2, <3>1, Numbers
      <4>2. q \in Waiting'
        BY <2>1, <3>1, <4>1 DEF InFlight
      <4> QED
        BY <2>1, <4>1, <4>2 DEF Precede
    <3>3. j \in Service!Pending \ lookups /\ Service!Earlier(j) \subseteq lookups /\ j \in Requests
      BY <1>2, <3>1, <3>2 DEF InFlight, Service!Pending, Service!Earlier
    <3>4. Service!LookUp(j)
      BY <2>1, <2>3, <3>3 DEF Service!LookUp
    <3> QED
      BY <3>3, <3>4 DEF Service!Next
  <2> QED
    BY <2>2, <2>3
<1>6. ASSUME NEW r, HandlerRan(r), Answered(r),
             endpoints # "unknown" \/ r \in lookups, endpoints' # "unknown"
      PROVE  Service!Next
  <2>1. /\ r \in Completed /\ InIo = {} /\ Precede({r}, (Completed \ {r}) \ lookups)
        /\ UNCHANGED <<submitted, lookups>>
    BY <1>1, <1>6 DEF HandlerRan, Order
  <2>2. Service!Reply(r)
    BY <1>6, <2>1, ReplyOf
  <2> QED
    BY <1>2, <2>1, <2>2 DEF Service!Next
<1>7. CASE OnResolved
  <2>1. PICK m \in ToSet(ready) :
          m.h = "resolved" /\ HandlerRan(m.r) /\ endpoints' \in {"good", "empty"}
    BY <1>1, <1>7, OnResolvedMoves
  <2>2. m.r \in lookups
    BY <1>1, <2>1 DEF Sane, Lookups
  <2>3. CASE Answered(m.r)
    BY <1>6, <2>1, <2>2, <2>3
  <2>4. CASE calls' = calls
    <3>1. UNCHANGED <<submitted, lookups, calls>> /\ lookups # {}
      BY <2>1, <2>2, <2>4 DEF HandlerRan
    <3>2. CASE endpoints = "unknown"
      BY <2>1, <3>1, <3>2 DEF Service!Next, Service!Learn
    <3>3. CASE endpoints # "unknown"
      BY <2>1, <3>1, <3>3 DEF Service!vars
    <3> QED
      BY <3>2, <3>3
  <2> QED
    BY <2>1, <2>3, <2>4 DEF HandlerRan
<1>8. CASE OnConnected
  <2>1. PICK m \in ToSet(ready) :
          m.h = "connected" /\ HandlerRan(m.r) /\ endpoints' = endpoints
    BY <1>1, <1>8, OnConnectedMoves
  <2>2. endpoints # "unknown"
    BY <1>1, <2>1 DEF Unknown
  <2>3. CASE Answered(m.r)
    BY <1>6, <2>1, <2>2, <2>3
  <2>4. CASE calls' = calls
    BY <2>1, <2>4 DEF HandlerRan, Service!vars
  <2> QED
    BY <2>1, <2>3, <2>4 DEF HandlerRan
<1>9. CASE HttpWrite \/ HttpRead
  <2>1. /\ pc.io \in {"write", "read"} /\ InIo = {req.io}
        /\ UNCHANGED <<lookups, endpoints, submitted>>
        /\ calls' = calls \/ Answered(req.io)
    BY <1>1, <1>9, HttpMoves
  <2>2. endpoints # "unknown"
    BY <1>1, <2>1 DEF Unknown, IoHolds
  <2>3. CASE Answered(req.io)
    <3>1. Precede({req.io}, (Completed \ {req.io}) \ lookups)
      BY <1>1, <2>1 DEF Order, Precede
    <3>2. Service!Reply(req.io)
      BY <2>1, <2>2, <2>3, <3>1, ReplyOf
    <3> QED
      BY <1>2, <2>1, <3>2 DEF Service!Next
  <2>4. CASE calls' = calls
    BY <2>1, <2>4 DEF Service!vars
  <2> QED
    BY <2>1, <2>3, <2>4
<1> QED
  BY <1>1, <1>3, <1>4, <1>5, <1>7, <1>8, <1>9, Observed

\* Every request that is answered is answered once, and in the order of
\* submission but for those that look up the endpoints: the worker's queue, the
\* shared resolver and socket, the timers and the io_service implement the
\* service of CommandService.
THEOREM ChannelImplementsService == Spec => ImplementsService
<1>1. Spec => Service!Spec
  BY ServiceInit, ServiceNext, Invariance, PTL DEF Spec, Service!Spec
<1> QED
  BY <1>1 DEF ImplementsService

-----------------------------------------------------------------------------
(* After the stop only the exchange in progress calls back                 *)

LEMMA StoppingKept ==
  ASSUME Typing, Stopping, [Next]_vars
  PROVE  Stopping'
<1>1. pc \in [Threads -> WorkerPlaces \cup IoPlaces]
  BY PcFacts
<1> USE <1>1 DEF Stopping, Goto, Threads
<1>2. CASE IoTest \/ IoRunReturns \/ IoBlock \/ IoSpuriousWake \/ IoReset
  BY <1>2 DEF IoTest, IoRunReturns, IoBlock, IoSpuriousWake, IoReset, LoopAgain, clientVars
<1>3. CASE NotifyIo \/ DtorStop \/ DtorNotify \/ DtorJoin \/ DtorJoinWorker
  BY <1>3 DEF NotifyIo, DtorStop, DtorNotify, DtorJoin, DtorJoinWorker, destroyFrame, WakeIo,
              clientVars, threadVars
<1>15. CASE WorkerRests \/ DtorNotifyWorker
  <2>1. /\ pc'.io = pc.io /\ UNCHANGED <<stopped, interruptIoServiceTask>>
        /\ dtor' = dtor \/ dtor = "notifyWorker"
    BY <1>15, RestFacts, RestingStays DEF destroyFrame, IoStays, DtorNotifyWorker
  <2> QED
    BY <2>1
<1>4. CASE DtorCancel \/ Cancel
  BY <1>4 DEF DtorCancel, Cancel, threadVars
<1>5. ASSUME NEW r, Submit(r)
      PROVE  Stopping'
  BY <1>5, RestFacts, RestingStays DEF Submit, IoStays
<1>6. CASE TakeJob
  BY <1>6 DEF TakeJob, clientVars
<1>7. CASE Resolve \/ ArmResolver \/ UseCache
  BY <1>7 DEF Resolve, ArmResolver, UseCache, clientVars
<1>8. ASSUME NEW t \in Threads, SetupClose(t) \/ SetupConnect(t) \/ SetupArm(t)
      PROVE  Stopping'
  BY <1>8 DEF SetupClose, SetupConnect, SetupArm, clientVars
<1>9. CASE OnResolved \/ OnConnected \/ OnResolverDeadline \/ OnSocketDeadline
  BY <1>9 DEF OnResolved, OnConnected, OnResolverDeadline, OnSocketDeadline, handlerFrame,
              clientVars, threadVars
<1>10. CASE HttpWrite \/ HttpRead
  BY <1>10 DEF HttpWrite, HttpRead, exchangeFrame, handlerFrame, clientVars
<1>11. ASSUME NEW r, NEW e, ResolverCompletes(r, e) \/ ConnectCompletes(e)
       PROVE  Stopping'
  BY <1>11 DEF ResolverCompletes, ConnectCompletes, envFrame, clientVars, threadVars
<1>12. CASE ResolverTimerExpires \/ SocketTimerExpires
  BY <1>12 DEF ResolverTimerExpires, SocketTimerExpires, envFrame, clientVars, threadVars
<1>13. CASE UNCHANGED vars
  BY <1>13 DEF vars, clientVars, threadVars
<1>14. CASE QuietStep
  BY <1>2, <1>3, <1>7, <1>8, <1>12, <1>13, <1>14, <1>15 DEF QuietStep
<1> QED
  BY <1>4, <1>5, <1>6, <1>7, <1>8, <1>9, <1>10, <1>11, <1>14, StepCases

LEMMA StopIsFinalStep ==
  ASSUME Sane, Stopping, [Next]_vars, dtor \notin {"none", "stop"}, calls' # calls
  PROVE  pc.io \in {"write", "read"}
<1>1. CASE HttpWrite \/ HttpRead
  BY <1>1, HttpMoves
<1>2. CASE OnResolved \/ OnConnected
  <2>1. pc.io = "run" /\ ~stopped
    BY <1>2 DEF OnResolved, OnConnected, Running
  <2> QED
    BY <2>1 DEF Stopping
<1>3. CASE TakeJob
  BY <1>3 DEF TakeJob
<1>4. ASSUME NEW r \in Requests, Submit(r)
      PROVE  FALSE
  BY <1>4 DEF Submit
<1> QED
  BY <1>1, <1>2, <1>3, <1>4, Observed

\* After ioService.stop() only the exchange in progress still calls back: the
\* handlers left in the io_service never run, even when the io thread resets
\* the service after the stop, for it tests the interruption before it runs.
THEOREM NothingRunsAfterTheStop == Spec => StopIsFinal
<1>1. Init => Stopping
  BY DEF Init, Stopping
<1>2. IInv /\ Stopping /\ [Next]_vars => Stopping'
  BY StoppingKept DEF IInv, Sane
<1>3. IInv /\ Stopping /\ [Next]_vars =>
        [(dtor \notin {"none", "stop"} /\ calls' # calls)
           => (pc.io \in {"write", "read"})]_vars
  BY StopIsFinalStep DEF IInv
<1> QED
  BY <1>1, <1>2, <1>3, Invariance, PTL DEF Spec, StopIsFinal

-----------------------------------------------------------------------------
(* An attempt loses its deadline to another only                           *)

\* A strike of the socket's deadline that waits to be handled goes on waiting.
StrikeStays == \A m \in ToSet(ready) : m.h = "socketDeadline" => m \in ToSet(ready')

LEMMA StrikeStaysWhenJoined ==
  ASSUME Typing, NEW s \in Seq(Handlers), ready' = ready \o s
  PROVE  StrikeStays /\ ToSet(s) \subseteq ToSet(ready')
<1>1. ToSet(ready \o s) = ToSet(ready) \cup ToSet(s)
  BY JoinFacts DEF Typing
<1> QED
  BY <1>1 DEF StrikeStays

LEMMA StrikeStaysWhenRan ==
  ASSUME Typing, NEW s \in Seq(Handlers), ready # <<>>, Head(ready).h # "socketDeadline",
         ready' = Tail(ready) \o s
  PROVE  StrikeStays
<1> DEFINE q == Tail(ready)
<1>1. q \in Seq(Handlers) /\ ToSet(ready) = {Head(ready)} \cup ToSet(q)
  BY TailFacts DEF Typing
<1> HIDE DEF q
<1>2. ToSet(q \o s) = ToSet(q) \cup ToSet(s)
  BY <1>1, JoinFacts
<1> QED
  BY <1>1, <1>2 DEF StrikeStays, q

\* The completion that runs is that of another attempt than the one in progress.
LosesToAnother == OnConnected /\ Head(ready).r # sock.owner

LEMMA GuardedKept ==
  ASSUME Sane, Guarded, [Next]_vars, ~LosesToAnother
  PROVE  Guarded'
<1>1. Typing /\ ready \in Seq(Handlers) /\ pc \in [Threads -> WorkerPlaces \cup IoPlaces]
  BY PcFacts DEF Sane, Typing
<1>2. \A t, h : h \in Deadlines => TimerAbort(t, h) \in Seq(Handlers)
  BY TimerAbortFacts
<1>3. "resolverDeadline" \in Deadlines /\ "socketDeadline" \in Deadlines
  BY Distinct
\* Steps that leave the attempt, its timer and its strike alone.
<1>4. ASSUME sock' = sock, socketTimer' = socketTimer, StrikeStays,
             \A t \in Threads : pc[t] = "arm" => pc'[t] = "arm"
      PROVE  Guarded'
  BY <1>4 DEF Guarded, StrikeStays, Threads
<1>5. ready' = ready => StrikeStays
  BY DEF StrikeStays
<1>6. ASSUME sock'.st # "connecting"
      PROVE  Guarded'
  BY <1>6 DEF Guarded
<1>7. ASSUME Connecting = {}, sock'.st = sock.st
      PROVE  Guarded'
  BY <1>6, <1>7 DEF Connecting
<1>8. \A s \in Seq(Handlers) : ready' = ready \o s => StrikeStays
  BY <1>1, StrikeStaysWhenJoined
<1>10. CASE ArmResolver \/ UseCache \/ ResolverTimerExpires
  <2>1. /\ sock' = sock /\ socketTimer' = socketTimer
        /\ \A t \in Threads : pc[t] = "arm" => pc'[t] = "arm"
        /\ ready' = ready \o TimerAbort(resolverTimer, "resolverDeadline")
    BY <1>1, <1>10 DEF ArmResolver, UseCache, ResolverTimerExpires, Goto, envFrame, threadVars,
                       Threads
  <2> QED
    BY <1>2, <1>3, <1>4, <1>8, <2>1
<1>11. CASE NotifyIo \/ DtorNotify
  BY <1>1, <1>4, <1>5, <1>11 DEF NotifyIo, DtorNotify, WakeIo, ioVars, Threads
<1>9. CASE WorkerRests \/ DtorNotifyWorker
  BY <1>1, <1>4, <1>5, <1>9, RestFacts, RestingStays DEF destroyFrame, ioVars
<1>12. ASSUME NEW t \in Threads, SetupArm(t)
       PROVE  Guarded'
  BY <1>12 DEF SetupArm, SocketArmed, Armed, Guarded
<1>13. CASE IoTest \/ IoRunReturns \/ IoBlock \/ IoSpuriousWake \/ IoReset
  BY <1>1, <1>4, <1>5, <1>13
     DEF IoTest, IoRunReturns, IoBlock, IoSpuriousWake, IoReset, LoopAgain, Goto, ioVars, Threads
<1>14. CASE SocketTimerExpires
  <2>1. /\ sock' = sock /\ pc' = pc /\ socketTimer'.expired
        /\ ready' = ready \o TimerAbort(socketTimer, "socketDeadline") /\ ~socketTimer.expired
    BY <1>14, TimerFacts DEF SocketTimerExpires, envFrame, threadVars, Sane, Typing, TypeOK
  <2>2. socketTimer.waiting => \E m \in ToSet(ready') : m.h = "socketDeadline"
    <3>1. ToSet(TimerAbort(socketTimer, "socketDeadline")) \subseteq ToSet(ready')
      BY <1>1, <1>2, <1>3, <2>1, StrikeStaysWhenJoined
    <3>2. socketTimer.waiting => Handler("socketDeadline", NoRequest, "aborted")
                                   \in ToSet(TimerAbort(socketTimer, "socketDeadline"))
      BY <1>3, TimerAbortFacts
    <3> QED
      BY <3>1, <3>2 DEF Handler
  <2> QED
    BY <2>1, <2>2 DEF Guarded
<1>15. CASE DtorStop \/ DtorJoin \/ DtorJoinWorker \/ UNCHANGED vars
  BY <1>4, <1>5, <1>15 DEF DtorStop, DtorJoin, DtorJoinWorker, destroyFrame, vars, threadVars, ioVars
<1>16. CASE QuietStep
  BY <1>9, <1>10, <1>11, <1>12, <1>13, <1>14, <1>15, <1>16 DEF QuietStep, Threads
<1>17. ASSUME NEW r \in Requests, Submit(r)
       PROVE  Guarded'
  BY <1>1, <1>4, <1>5, <1>17, RestFacts, RestingStays DEF Submit, ioVars
<1>18. CASE TakeJob \/ Resolve
  <2>1. /\ sock' = sock /\ socketTimer' = socketTimer /\ ready' = ready
        /\ \A t \in Threads : pc[t] = "arm" => pc'[t] = "arm"
    BY <1>1, <1>18 DEF TakeJob, Resolve, Goto, Threads
  <2> QED
    BY <1>4, <1>5, <2>1
<1>19. ASSUME NEW t \in Threads, SetupClose(t)
       PROVE  Guarded'
  BY <1>6, <1>19 DEF SetupClose, Closed
<1>20. ASSUME NEW t \in Threads, SetupConnect(t)
       PROVE  Guarded'
  <2>1. pc'[t] = "arm"
    BY <1>1, <1>20 DEF SetupConnect, Goto
  <2> QED
    BY <2>1 DEF Guarded, Threads
<1>21. CASE OnConnected
  <2>1. sock' = sock /\ Head(ready).r = sock.owner /\ Head(ready).r \in Completed
    BY <1>21, OnConnectedMoves DEF OnConnected, HandlerRan, LosesToAnother
  <2>2. sock.st # "connecting"
    BY <2>1 DEF Sane, Accounting, Apart, Connecting
  <2> QED
    BY <1>6, <2>1, <2>2
<1>28. CASE OnResolved
  <2>1. /\ sock' = sock /\ socketTimer' = socketTimer /\ ready # <<>>
        /\ Head(ready).h # "socketDeadline"
        /\ ready' = Tail(ready) \o TimerAbort(resolverTimer, "resolverDeadline")
        /\ \A t \in Threads : pc[t] = "arm" => pc'[t] = "arm"
    BY <1>1, <1>28 DEF OnResolved, Running, threadVars, Goto, Threads
  <2>2. StrikeStays
    BY <1>1, <1>2, <1>3, <2>1, StrikeStaysWhenRan
  <2> QED
    BY <1>4, <2>1, <2>2
<1>22. CASE OnResolverDeadline
  <2>1. /\ pc' = pc /\ sock' = sock /\ socketTimer' = socketTimer /\ ready # <<>>
        /\ Head(ready).h # "socketDeadline"
        /\ \/ ready' = Tail(ready) \o ResolverAbort
           \/ ready' = Tail(ready) \o <<>>
    BY <1>1, <1>22, TailIsJoin DEF OnResolverDeadline, Running, threadVars
  <2>2. ResolverAbort \in Seq(Handlers) /\ <<>> \in Seq(Handlers)
    BY ResolverAbortFacts, EmptyFacts DEF Sane, Typing, TypeOK
  <2>3. StrikeStays
    BY <1>1, <2>1, <2>2, StrikeStaysWhenRan
  <2> QED
    BY <1>4, <2>1, <2>3
<1>23. CASE OnSocketDeadline
  <2>1. CASE socketTimer.expired
    BY <1>6, <1>23, <2>1 DEF OnSocketDeadline, Closed
  <2>2. CASE ~socketTimer.expired
    <3>1. pc' = pc /\ sock' = sock /\ socketTimer' = socketTimer
      BY <1>23, <2>2 DEF OnSocketDeadline, threadVars
    <3> QED
      BY <2>2, <3>1 DEF Guarded
  <2> QED
    BY <2>1, <2>2
<1>24. CASE HttpWrite \/ HttpRead
  <2>1. /\ socketTimer' = socketTimer /\ ready' = ready /\ sock'.st = sock.st
        /\ \A t \in Threads : pc[t] = "arm" => pc'[t] = "arm"
    BY <1>1, <1>24 DEF HttpWrite, HttpRead, exchangeFrame, Goto, Threads, Sane, Typing, TypeOK
  <2> QED
    BY <1>1, <2>1 DEF Guarded, Threads
<1>25. ASSUME NEW r \in Requests, NEW e \in {"ok", "error"}, ResolverCompletes(r, e)
       PROVE  Guarded'
  <2>1. Handler("resolved", r, e) \in Handlers
    BY OneHandler
  <2>2. /\ sock' = sock /\ socketTimer' = socketTimer /\ pc' = pc
        /\ ready' = ready \o <<Handler("resolved", r, e)>>
    BY <1>1, <1>25, <2>1, AppendIsJoin DEF ResolverCompletes, envFrame, threadVars
  <2> QED
    BY <1>4, <1>8, <2>1, <2>2, OneFacts
<1>26. ASSUME NEW e \in {"ok", "error"}, ConnectCompletes(e)
       PROVE  Guarded'
  BY <1>6, <1>26, ConnectCompletesMoves DEF Connecting
<1>27. CASE Cancel \/ DtorCancel
  BY <1>6, <1>27 DEF Cancel, DtorCancel, CancelAll, Closed
<1> QED
  BY <1>16, <1>17, <1>18, <1>19, <1>20, <1>21, <1>22, <1>23, <1>24, <1>25, <1>26, <1>27, <1>28,
     StepCases

\* However many requests are in flight, an attempt in progress loses its deadline
\* in one way only: the completion of another attempt, which it aborted, runs and
\* calls the deadline off.
THEOREM DeadlinesAreLostToAnother == Spec => DeadlineIsLostToAnother
<1>1. Guarded <=> ~Unguarded
  BY DEF Guarded, Unguarded, ToSet
<1>2. Guarded' <=> ~Unguarded'
  BY DEF Guarded, Unguarded, ToSet
<1>3. IInv /\ [Next]_vars => [~Unguarded /\ Unguarded' => LosesToAnother]_vars
  BY <1>1, <1>2, GuardedKept DEF IInv
<1>4. IInv /\ [Next]_vars => [~Unguarded /\ Unguarded' => OnConnected /\ Head(ready).r # sock.owner]_vars
  BY <1>3 DEF LosesToAnother
<1> QED
  BY <1>4, Invariance, PTL DEF Spec, DeadlineIsLostToAnother

-----------------------------------------------------------------------------
(* A failed resolution is final                                            *)

\* Once the empty endpoints are kept for good, what a request that was not
\* submitted yet can still meet: the cache, a connection to no endpoint, and the
\* answer FAILED.
Doomed(r) ==
  /\ Poisoned
  /\ r \notin Connecting /\ r \notin InIo
  /\ \A m \in ToSet(ready) : m.r = r => m.h = "connected" /\ m.e = "notFound"
  /\ calls[r] \in {<<>>, <<"failed">>}

LEMMA DoomBegins ==
  ASSUME Sane, NEW r \in Requests, Poisoned, r \notin submitted
  PROVE  Doomed(r)
<1>1. /\ r \notin InFlight /\ Connecting \subseteq InFlight /\ InIo \subseteq InFlight
      /\ Completed \subseteq InFlight /\ calls[r] = <<>>
  BY DEF Sane, Accounting, InFlight
<1>2. \A m \in ToSet(ready) : m.r # r
  BY <1>1 DEF Completed, RequestsOf
<1> QED
  BY <1>1, <1>2 DEF Doomed

LEMMA DoomKept ==
  ASSUME Sane, NEW r \in Requests, Doomed(r), [Next]_vars
  PROVE  Doomed(r)'
<1>1. /\ endpoints = "empty" /\ resolving = {} /\ pc.worker \notin {"resolve", "armResolver"}
      /\ \A m \in ToSet(ready) : m.h # "resolved"
      /\ r \notin Connecting /\ r \notin InIo
      /\ \A m \in ToSet(ready) : m.r = r => m.h = "connected" /\ m.e = "notFound"
      /\ calls[r] \in {<<>>, <<"failed">>}
  BY DEF Doomed, Poisoned, ToSet
<1>2. Typing
  BY DEF Sane
\* It is enough to see what becomes of r.
<1>3. ASSUME NEW taken, NEW new, ReadyGets(taken, new), endpoints' = endpoints,
             resolving' = resolving, pc'.worker \notin {"resolve", "armResolver"},
             r \notin Connecting', r \notin InIo', calls'[r] \in {<<>>, <<"failed">>},
             \A m \in ToSet(ready') : m.r = r => m.h = "connected" /\ m.e = "notFound"
      PROVE  Doomed(r)'
  <2>1. \A m \in ToSet(ready') : m.h # "resolved"
    BY <1>1, <1>3 DEF ReadyGets, KindsStay
  <2> QED
    BY <1>1, <1>3, <2>1 DEF Doomed, Poisoned, ToSet
<1>4. ASSUME NEW taken, NEW new, ReadyGets(taken, new), r \notin new
      PROVE  \A m \in ToSet(ready') : m.r = r => m.h = "connected" /\ m.e = "notFound"
  BY <1>1, <1>4 DEF ReadyGets, OthersStay
<1>5. CASE QuietStep
  <2>1. pc'.worker \notin {"resolve", "armResolver"}
    BY <1>1, <1>2, <1>5, QuietPlaces DEF RestPlaces
  <2> QED
    BY <1>1, <1>3, <1>4, <1>5, <2>1, QuietMoves DEF AllStay
<1>6. ASSUME NEW s \in Requests, Submit(s)
      PROVE  Doomed(r)'
  <2>1. pc'.worker \notin {"resolve", "armResolver"}
    BY <1>1, <1>2, <1>6, RestFacts, RestingStays DEF RestPlaces, Submit
  <2> QED
    BY <1>1, <1>3, <1>4, <1>6, <2>1, SubmitMoves
<1>7. CASE TakeJob
  <2>1. pc'.worker = "cached"
    BY <1>1, <1>2, <1>7, PcFacts DEF TakeJob, Goto, Threads
  <2>2. /\ UNCHANGED <<resolving, endpoints, calls>>
        /\ Connecting' = Connecting /\ InIo' = InIo /\ ReadyGets({}, {})
    BY <1>7, TakeJobMoves
  <2> QED
    BY <1>1, <1>3, <1>4, <2>1, <2>2
<1>8. ~Resolve /\ ~OnResolved
  BY <1>1, OnResolvedMoves DEF Resolve, Goto
<1>9. ASSUME NEW t \in Threads, SetupClose(t)
      PROVE  Doomed(r)'
  <2>1. pc'.worker \notin {"resolve", "armResolver"}
    BY <1>1, <1>2, <1>9, PcFacts, SetupCloseMoves DEF Threads
  <2> QED
    BY <1>1, <1>3, <1>4, <1>9, <2>1, SetupCloseMoves
<1>10. ASSUME NEW t \in Threads, SetupConnect(t)
       PROVE  Doomed(r)'
  <2>1. /\ pc' = [pc EXCEPT ![t] = "arm"] /\ req[t] \in Requests
        /\ Holds(t)' = {} /\ Other(t)' = Other(t)
        /\ UNCHANGED <<resolving, endpoints, calls>>
        /\ Connecting' = Connecting /\ ReadyGets({}, Holds(t))
    BY <1>1, <1>10, SetupConnectMoves
  <2>2. pc'.worker \notin {"resolve", "armResolver"}
    BY <1>1, <1>2, <2>1, PcFacts DEF Threads
  <2>3. r \notin InIo'
    BY <1>1, <2>1 DEF Holds, Other
  <2>4. ToSet(ready') = ToSet(ready) \cup {Handler("connected", req[t], "notFound")}
    <3>1. Handler("connected", req[t], "notFound") \in Handlers /\ ready \in Seq(Handlers)
      BY <1>2, <2>1, OneHandler DEF Typing
    <3>2. ready' = ready \o <<Handler("connected", req[t], "notFound")>>
      BY <1>1, <1>10, <3>1, AppendIsJoin DEF SetupConnect
    <3> DEFINE m == Handler("connected", req[t], "notFound")
    <3> HIDE DEF m
    <3>3. <<m>> \in Seq(Handlers) /\ ToSet(<<m>>) = {m}
      BY <3>1, OneFacts DEF m
    <3>4. ToSet(ready \o <<m>>) = ToSet(ready) \cup ToSet(<<m>>)
      BY <3>1, <3>3, JoinFacts
    <3> QED
      BY <3>2, <3>3, <3>4 DEF m
  <2>5. \A m \in ToSet(ready') : m.r = r => m.h = "connected" /\ m.e = "notFound"
    BY <1>1, <2>4 DEF Handler
  <2> QED
    BY <1>1, <1>3, <2>1, <2>2, <2>3, <2>5
<1>11. CASE OnConnected
  <2>1. PICK m \in ToSet(ready) :
          /\ m = Head(ready) /\ HandlerRan(m.r) /\ endpoints' = endpoints
          /\ pc' = pc \/ pc' = [pc EXCEPT !["io"] = "write"]
    BY <1>11, OnConnectedMoves
  <2>2. /\ UNCHANGED <<resolving>> /\ Connecting' = Connecting /\ ReadyGets({m.r}, {})
        /\ pc'.worker \notin {"resolve", "armResolver"}
    BY <1>1, <1>2, <2>1, PcFacts DEF HandlerRan, Threads
  <2>3. CASE m.r = r
    <3>1. ConnectError(m) = "notFound" /\ "notFound" # "ok"
      BY <1>1, <2>1, <2>3 DEF ConnectError
    <3>2. Call(m.r, <<Result(ConnectError(m))>>) /\ UNCHANGED threadVars
      BY <1>11, <2>1, <3>1 DEF OnConnected
    <3>3. Call(r, <<"failed">>) /\ IoStays
      BY <2>3, <3>1, <3>2 DEF Result, threadVars, IoStays
    <3>4. calls \in [Requests -> Seq(Verdicts)] /\ calls[r] = <<>>
      BY <2>1, <2>3 DEF HandlerRan, Sane, Accounting, Typing, TypeOK, Verdicts, InFlight
    <3>5. calls'[r] = <<>> \o <<"failed">>
      BY <3>3, <3>4 DEF Call
    <3>6. calls'[r] = <<"failed">>
      BY <3>5
    <3>7. InIo' = InIo
      BY <3>3, HeldStays
    <3> QED
      BY <1>1, <1>3, <1>4, <2>1, <2>2, <3>6, <3>7
  <2>4. CASE m.r # r
    <3>1. calls'[r] = calls[r] /\ r \notin InIo'
      BY <1>1, <2>1, <2>4 DEF HandlerRan, Answered, Sane, Typing, TypeOK, Verdicts
    <3> QED
      BY <1>1, <1>3, <1>4, <2>1, <2>2, <3>1
  <2> QED
    BY <2>3, <2>4
<1>12. CASE OnResolverDeadline
  BY <1>1, <1>3, <1>4, <1>12, OnResolverDeadlineMoves
<1>13. CASE OnSocketDeadline
  BY <1>1, <1>3, <1>4, <1>13, OnSocketDeadlineMoves
<1>14. CASE HttpWrite \/ HttpRead
  <2>1. /\ InIo = {req.io} /\ pc'.worker = pc.worker /\ UNCHANGED <<resolving, endpoints>>
        /\ Connecting' = Connecting /\ ReadyGets({}, {}) /\ (InIo' = InIo \/ InIo' = {})
        /\ calls' = calls \/ Answered(req.io)
    BY <1>14, HttpMoves
  <2>2. calls'[r] = calls[r] /\ r \notin InIo'
    BY <1>1, <2>1 DEF Answered, Sane, Typing, TypeOK, Verdicts
  <2> QED
    BY <1>1, <1>3, <1>4, <2>1, <2>2
<1>15. ASSUME NEW s \in Requests, NEW e \in {"ok", "error"}, ResolverCompletes(s, e)
       PROVE  FALSE
  BY <1>1, <1>15 DEF ResolverCompletes
<1>16. ASSUME NEW e \in {"ok", "error"}, ConnectCompletes(e)
       PROVE  Doomed(r)'
  BY <1>1, <1>3, <1>4, <1>16, ConnectCompletesMoves
<1>17. CASE Cancel \/ DtorCancel
  BY <1>1, <1>3, <1>4, <1>17, CancelMoves
<1> QED
  BY <1>5, <1>6, <1>7, <1>8, <1>9, <1>10, <1>11, <1>12, <1>13, <1>14, <1>15, <1>16, <1>17,
     StepCases

\* Once a failed resolution has been cached and no other is under way, every
\* request submitted later fails, for as long as the object lives.
THEOREM FailedResolutionIsFinal == Spec => PoisonedCacheIsFinal
<1> SUFFICES ASSUME NEW r \in Requests
             PROVE  Spec => [](Poisoned /\ r \notin submitted
                                 => [](calls[r] \in {<<>>, <<"failed">>}))
  BY DEF PoisonedCacheIsFinal
<1>1. IInv /\ Poisoned /\ r \notin submitted => Doomed(r)
  BY DoomBegins DEF IInv
<1>2. IInv /\ Doomed(r) /\ [Next]_vars => Doomed(r)'
  BY DoomKept DEF IInv
<1>3. Doomed(r) => calls[r] \in {<<>>, <<"failed">>}
  BY DEF Doomed
<1> QED
  BY <1>1, <1>2, <1>3, Invariance, PTL DEF Spec
=============================================================================
