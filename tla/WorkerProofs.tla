---------------------------- MODULE WorkerProofs ----------------------------
(***************************************************************************)
(* Proofs about Worker, for every finite set of callers, every set of jobs *)
(* and every maxJob.                                                       *)
(***************************************************************************)
EXTENDS Worker, FiniteSetTheorems, SequenceTheorems, TLAPS

\* What every step of the system is, one disjunct per action.
LEMMA StepCases ==
  ASSUME [Next]_vars
  PROVE  \/ \E c \in Callers, j \in Jobs : Offer(c, j)
         \/ \E c \in Callers, j \in Jobs : Refuse(c, j)
         \/ \E c \in Callers : PushBack(c)
         \/ \E c \in Callers : Notify(c)
         \/ Test \/ Predicate \/ Block \/ SpuriousWake \/ Relock \/ Check
         \/ Swap \/ SwapSize \/ Invoke \/ InvokeThrows \/ EndBatch \/ Overrun
         \/ Interrupt \/ NotifyInterrupt \/ Join
         \/ UNCHANGED vars
  BY DEF Next, CallerStep, WorkerStep, DtorStep

\* A push_back that ends leaves the caller with its job, and what it makes of the
\* list is made of what was in it and of that job.
LEMMA PushBackFacts ==
  ASSUME TypeOK, NEW c \in Callers, PushBack(c)
  PROVE  /\ caller[c] = "link" /\ caller' = [caller EXCEPT ![c] = "notify"]
         /\ hand' = hand /\ hand[c] \in Jobs
         /\ Inside' = Inside \ {c} /\ c \in Inside
         /\ UNCHANGED <<interruptFlag, jobLock, worker, dtor>>
<1>1. At(c, "link") /\ Leave(c)
  BY DEF PushBack, Link, LinkAstray, LinkTorn
<1> QED
  BY <1>1 DEF At, Leave, Inside, TypeOK

\* What each of the three outcomes of a race makes of the chains.
LEMMA TornFacts ==
  ASSUME TypeOK, NEW c \in Callers, LinkTorn(c)
  PROVE  /\ hand[c] \in Jobs
         /\ \/ \E n \in 0..Len(jobs) :
                 /\ jobs' = Append(SubSeq(jobs, 1, n), hand[c]) /\ local' = local
                 /\ SubSeq(jobs, 1, n) \in Seq(Jobs)
            \/ jobs' = jobs /\ local' = local
            \/ jobs' = jobs /\ local' = Append(local, hand[c]) /\ worker \in {"count", "run"}
         /\ jobs' \in Seq(Jobs) /\ local' \in Seq(Jobs)
         /\ loose' \in BOOLEAN /\ broken' \in BOOLEAN /\ crashed' \in BOOLEAN
         /\ size' \in Nat /\ raced' = TRUE
<1>1. hand[c] \in Jobs /\ jobs \in Seq(Jobs) /\ local \in Seq(Jobs)
  BY DEF LinkTorn, At, TypeOK
<1>2. after[c] \in Nat /\ Len(jobs) \in Nat /\ seen[c] \subseteq Nat
  BY <1>1 DEF TypeOK
<1>3. \A n \in 0..Len(jobs) : SubSeq(jobs, 1, n) \in Seq(Jobs)
  <2> SUFFICES ASSUME NEW n \in 0..Len(jobs) PROVE SubSeq(jobs, 1, n) \in Seq(Jobs)
    OBVIOUS
  <2>1. \A i \in 1..n : jobs[i] \in Jobs
    BY <1>1, <1>2
  <2> QED
    BY <1>2, <2>1, SubSeqProperties
<1>4. \/ \E n \in 0..Len(jobs) :
            /\ jobs' = Append(SubSeq(jobs, 1, n), hand[c]) /\ local' = local /\ loose' = loose
            /\ SubSeq(jobs, 1, n) \in Seq(Jobs)
      \/ jobs' = jobs /\ local' = local /\ loose' = loose
      \/ /\ jobs' = jobs /\ local' = Append(local, hand[c]) /\ loose' = TRUE
         /\ worker \in {"count", "run"}
  <2>1. CASE \E n \in after[c]..Len(jobs) : jobs' = Append(SubSeq(jobs, 1, n), hand[c]) /\ UNCHANGED batchVars
    <3>1. PICK n \in after[c]..Len(jobs) : jobs' = Append(SubSeq(jobs, 1, n), hand[c]) /\ UNCHANGED batchVars
      BY <2>1
    <3>2. n \in 0..Len(jobs)
      BY <1>2
    <3> QED
      BY <1>3, <3>1, <3>2 DEF batchVars
  <2> QED
    BY <2>1 DEF LinkTorn, batchVars
<1>5. jobs' \in Seq(Jobs) /\ local' \in Seq(Jobs) /\ loose' \in BOOLEAN
  <2>1. \A s \in Seq(Jobs) : Append(s, hand[c]) \in Seq(Jobs)
    BY <1>1
  <2>2. jobs' \in Seq(Jobs) /\ local' \in Seq(Jobs)
    BY <1>1, <1>4, <2>1
  <2>3. loose \in BOOLEAN
    BY DEF TypeOK
  <2>4. loose' = loose \/ loose' = TRUE
    BY <1>4
  <2> QED
    BY <2>2, <2>3, <2>4
<1>6. size' \in Nat /\ broken' \in BOOLEAN /\ crashed' \in BOOLEAN /\ raced' = TRUE
  <2>1. PICK n \in seen[c] : size' = n + 1
    BY DEF LinkTorn
  <2>2. n \in Nat
    BY <1>2
  <2>3. crashed' \in BOOLEAN
    BY DEF LinkTorn
  <2> QED
    BY <2>1, <2>2, <2>3 DEF LinkTorn
<1> QED
  BY <1>1, <1>4, <1>5, <1>6

\* The bookkeeping of overlaps has its type.
LEMMA LeaveTyped ==
  ASSUME TypeOK, NEW c \in Callers, Leave(c), c \in Inside, size' \in Nat, jobs' \in Seq(Jobs)
  PROVE  /\ after' \in [Callers -> Nat] /\ seen' \in [Callers -> SUBSET Nat]
         /\ moved' \subseteq torn' /\ torn' \subseteq Inside'
<1>1. Len(jobs') \in Nat
  OBVIOUS
<1>2. Inside' = Inside \ {c}
  BY DEF Leave, Inside, TypeOK
<1> QED
  BY <1>1, <1>2 DEF Leave, TypeOK

\* A step that leaves the list alone leaves size() right.
LEMMA SizedStays ==
  ASSUME TypeOK, UNCHANGED <<jobs, local, size, broken, loose, raced>>,
         worker' = worker \/ (worker # "count" /\ worker' # "count")
  PROVE  raced' \/ Sized'
BY DEF TypeOK, Sized

\* Type correctness: pushJob, the worker loop and the destructor keep every
\* variable in its type, only callers inside push_back are ever torn, and size()
\* is the length of the list until two mutations have raced.
THEOREM TypeCorrect == Spec => []TypeOK
<1>1. Init => TypeOK
  <2> SUFFICES ASSUME Init PROVE TypeOK
    OBVIOUS
  <2>1. /\ jobs \in Seq(Jobs) /\ local \in Seq(Jobs) /\ Len(jobs) = 0
        /\ worker \in WorkerPc /\ fate \in [Jobs -> Fates]
    BY DEF Init, WorkerPc, Fates
  <2>2. /\ caller \in [Callers -> {"idle", "link", "notify"}]
        /\ hand \in [Callers -> Jobs \cup {NoJob}]
        /\ \A c \in Callers : hand[c] = NoJob <=> caller[c] = "idle"
        /\ after \in [Callers -> Nat] /\ seen \in [Callers -> SUBSET Nat]
    BY DEF Init
  <2> QED
    BY <2>1, <2>2 DEF Init, TypeOK, Sized
<1>2. TypeOK /\ [Next]_vars => TypeOK'
  <2> SUFFICES ASSUME TypeOK, [Next]_vars PROVE TypeOK'
    OBVIOUS
  <2>0. jobs \in Seq(Jobs) /\ local \in Seq(Jobs) /\ Len(jobs) \in Nat /\ Len(local) \in Nat
    BY DEF TypeOK
  <2>1. CASE \E c \in Callers, j \in Jobs : Offer(c, j)
    <3> PICK c \in Callers, j \in Jobs : Offer(c, j)
      BY <2>1
    <3>1. Inside \subseteq Inside'
      BY DEF Offer, Inside, At, TypeOK
    <3>2. after' \in [Callers -> Nat] /\ seen' \in [Callers -> SUBSET Nat]
      BY <2>0 DEF Offer, TypeOK
    <3>3. raced' \/ Sized'
      BY SizedStays DEF Offer, chainVars
    <3> QED
      BY <3>1, <3>2, <3>3, WorkerAssumption DEF Offer, At, chainVars, Fates, TypeOK
  <2>2. CASE \E c \in Callers, j \in Jobs : Refuse(c, j)
    <3>1. raced' \/ Sized'
      BY <2>2, SizedStays DEF Refuse, listVars, batchVars
    <3> QED
      BY <2>2, <3>1 DEF Refuse, At, listVars, overlapVars, batchVars, callerVars, Fates, Inside, TypeOK
  <2>3. CASE \E c \in Callers : PushBack(c)
    <3> PICK c \in Callers : PushBack(c)
      BY <2>3
    <3>1. /\ caller' = [caller EXCEPT ![c] = "notify"] /\ caller[c] = "link"
          /\ hand' = hand /\ hand[c] \in Jobs /\ c \in Inside
          /\ UNCHANGED <<interruptFlag, jobLock, worker, dtor>>
      BY PushBackFacts
    <3>2. /\ caller' \in [Callers -> {"idle", "link", "notify"}]
          /\ hand' \in [Callers -> Jobs \cup {NoJob}]
          /\ \A d \in Callers : hand'[d] = NoJob <=> caller'[d] = "idle"
      BY <3>1 DEF TypeOK
    <3>3. /\ jobs' \in Seq(Jobs) /\ local' \in Seq(Jobs) /\ size' \in Nat /\ raced' \in BOOLEAN
          /\ loose' \in BOOLEAN /\ broken' \in BOOLEAN /\ crashed' \in BOOLEAN
          /\ raced' \/ Sized'
      <4>1. CASE Link(c)
        <5>1. Len(Append(jobs, hand[c])) = Len(jobs) + 1 /\ Append(jobs, hand[c]) \in Seq(Jobs)
          BY <2>0, <3>1
        <5> QED
          BY <3>1, <4>1, <5>1 DEF Link, AtBack, batchVars, TypeOK, Sized
      <4>2. CASE LinkAstray(c)
        BY <3>1, <4>2 DEF LinkAstray, chainVars, TypeOK, Sized
      <4>3. CASE LinkTorn(c)
        BY <4>3, TornFacts
      <4> QED
        BY <4>1, <4>2, <4>3 DEF PushBack
    <3>4. fate' \in [Jobs -> Fates]
      BY <3>1 DEF PushBack, Link, LinkAstray, LinkTorn, Fates, TypeOK
    <3>5. Leave(c)
      BY DEF PushBack, Link, LinkAstray, LinkTorn
    <3>6. /\ after' \in [Callers -> Nat] /\ seen' \in [Callers -> SUBSET Nat]
          /\ moved' \subseteq torn' /\ torn' \subseteq Inside'
      BY <3>1, <3>3, <3>5, LeaveTyped
    <3> QED
      BY <3>1, <3>2, <3>3, <3>4, <3>6 DEF TypeOK
  <2>4. CASE \E c \in Callers : Notify(c)
    <3> PICK c \in Callers : Notify(c)
      BY <2>4
    <3>1. Inside' = Inside
      BY DEF Notify, At, Inside, TypeOK
    <3>2. raced' \/ Sized'
      BY SizedStays DEF Notify, listVars, batchVars, WakeWorker
    <3> QED
      BY <3>1, <3>2 DEF Notify, At, WakeWorker, WorkerPc, listVars, overlapVars, batchVars, TypeOK
  <2>5. CASE Test \/ Predicate \/ Block \/ SpuriousWake \/ Relock \/ Check
    <3>1. raced' \/ Sized'
      BY <2>5, SizedStays DEF Test, Predicate, Block, SpuriousWake, Relock, Check, Goto,
         workerFrame, listVars, batchVars
    <3> QED
      BY <2>5, <3>1 DEF Test, Predicate, Block, SpuriousWake, Relock, Check, Goto, WorkerPc,
                  workerFrame, listVars, overlapVars, batchVars, callerVars, Inside, TypeOK
  <2>6. CASE Swap
    <3>1. /\ jobs' = <<>> /\ local' = jobs /\ worker' = "count" /\ worker = "swap"
          /\ UNCHANGED <<workerFrame, size, seen, raced, jobLock, fate>>
          /\ loose' = broken /\ broken' = FALSE
      BY <2>6 DEF Swap, TakeList, Goto
    <3>2. torn' = torn \cup Inside /\ moved' = moved \cup Inside /\ Inside' = Inside
      BY <2>6 DEF Swap, workerFrame, callerVars, Inside
    <3>3. jobs' \in Seq(Jobs) /\ local' \in Seq(Jobs) /\ after' \in [Callers -> Nat]
      BY <2>6, <3>1 DEF Swap, TypeOK
    <3>4. raced' \/ Sized'
      BY <2>6 DEF Swap, TakeList, Goto, TypeOK, Sized
    <3> QED
      BY <3>1, <3>4, <3>2, <3>3 DEF WorkerPc, workerFrame, callerVars, TypeOK
  <2>7. CASE SwapSize
    <3>1. seen' \in [Callers -> SUBSET Nat] /\ Inside' = Inside
      BY <2>7 DEF SwapSize, workerFrame, callerVars, Inside, TypeOK
    <3>2. raced' \/ Sized'
      BY <2>7 DEF SwapSize, Goto, TypeOK, Sized, chainVars
    <3> QED
      BY <2>7, <3>1, <3>2 DEF SwapSize, Goto, WorkerPc, workerFrame, callerVars, chainVars, TypeOK
  <2>8. CASE Invoke
    <3>1. Head(local) \in Jobs /\ Tail(local) \in Seq(Jobs)
      BY <2>0, <2>8 DEF Invoke
    <3>4. raced' \/ Sized'
      BY <2>8 DEF Invoke, StayInBatch, Goto, TypeOK, Sized, workerFrame, listVars
    <3> QED
      BY <2>8, <3>1, <3>4 DEF Invoke, StayInBatch, Goto, WorkerPc, Fates, workerFrame, listVars,
                        overlapVars, callerVars, Inside, TypeOK
  <2>9. CASE InvokeThrows
    <3>1. fate' \in [Jobs -> Fates] /\ local' \in Seq(Jobs) /\ crashed' \in BOOLEAN
      BY <2>9 DEF InvokeThrows, Fates, TypeOK
    <3>4. raced' \/ Sized'
      BY <2>9 DEF InvokeThrows, Goto, TypeOK, Sized, listVars
    <3> QED
      BY <2>9, <3>1, <3>4 DEF InvokeThrows, Goto, WorkerPc, listVars, overlapVars, callerVars, Inside,
                        TypeOK
  <2>10. CASE EndBatch \/ Overrun
    <3>1. raced' \/ Sized'
      BY <2>10, SizedStays DEF EndBatch, Overrun, Goto, workerFrame, listVars, batchVars
    <3> QED
      BY <2>10, <3>1 DEF EndBatch, Overrun, Goto, WorkerPc, workerFrame, listVars, overlapVars, batchVars,
                   callerVars, Inside, TypeOK
  <2>11. CASE Interrupt \/ NotifyInterrupt
    <3>1. raced' \/ Sized'
      BY <2>11, SizedStays DEF Interrupt, NotifyInterrupt, WakeWorker, listVars, batchVars
    <3> QED
      BY <2>11, <3>1 DEF Interrupt, NotifyInterrupt, WakeWorker, WorkerPc, listVars, overlapVars,
                   batchVars, callerVars, Inside, TypeOK
  <2>12. CASE Join
    <3>1. fate' \in [Jobs -> Fates] /\ jobs' \in Seq(Jobs) /\ size' \in Nat
      BY <2>12 DEF Join, Fates, TypeOK
    <3>4. raced' \/ Sized'
      BY <2>12 DEF Join, TypeOK, Sized, batchVars
    <3> QED
      BY <2>12, <3>1, <3>4 DEF Join, callerVars, batchVars, overlapVars, Inside, TypeOK
  <2>13. CASE UNCHANGED vars
    <3>1. raced' \/ Sized'
      BY <2>13, SizedStays DEF vars
    <3> QED
      BY <2>13, <3>1 DEF vars, Inside, TypeOK
  <2> QED
    BY StepCases, <2>1, <2>2, <2>3, <2>4, <2>5, <2>6, <2>7, <2>8, <2>9, <2>10, <2>11,
       <2>12, <2>13
<1> QED
  BY <1>1, <1>2, PTL DEF Spec

-----------------------------------------------------------------------------
\* Each caller that passed the size test and has not linked yet may still add
\* one job, so the callers inside push_back count against the bound.
BoundInv == raced \/ Len(jobs) + Cardinality(Inside) <= MaxJob + Cardinality(Callers)

\* The callers inside push_back are finitely many, and no more than all.
LEMMA InsideFinite ==
  /\ IsFiniteSet(Inside) /\ Cardinality(Inside) \in Nat
  /\ Cardinality(Callers) \in Nat
  /\ Cardinality(Inside) <= Cardinality(Callers)
<1>1. Inside \subseteq Callers
  BY DEF Inside
<1> QED
  BY <1>1, WorkerAssumption, FS_Subset, FS_CardinalityType

\* The same of the next state.
LEMMA InsideFiniteNext ==
  /\ IsFiniteSet(Inside') /\ Cardinality(Inside') \in Nat
  /\ Cardinality(Inside') <= Cardinality(Callers)
<1>1. Inside' \subseteq Callers
  BY DEF Inside
<1> QED
  BY <1>1, WorkerAssumption, FS_Subset, FS_CardinalityType

\* A race is not forgotten.
LEMMA RacedStays ==
  ASSUME [Next]_vars, raced
  PROVE  raced'
BY StepCases DEF Offer, Refuse, PushBack, Link, LinkAstray, LinkTorn, Notify, Test, Predicate,
   Block, SpuriousWake, Relock, Check, Swap, SwapSize, Invoke, InvokeThrows, EndBatch, Overrun,
   Interrupt, NotifyInterrupt, Join, workerFrame, listVars, vars

\* Until two mutations of the list have raced, it holds at most maxJob jobs and
\* one more per calling thread, whatever the interleaving of the unprotected
\* size tests.
THEOREM QueueBounded == Spec => []QueueBound
<1>1. Init => BoundInv
  <2> SUFFICES ASSUME Init PROVE BoundInv
    OBVIOUS
  <2>1. Len(jobs) = 0
    BY DEF Init
  <2> QED
    BY <2>1, InsideFinite, WorkerAssumption DEF BoundInv
<1>2. TypeOK /\ BoundInv /\ [Next]_vars => BoundInv'
  <2> SUFFICES ASSUME TypeOK, BoundInv, [Next]_vars, ~raced' PROVE BoundInv'
    BY DEF BoundInv
  <2> USE DEF BoundInv
  <2>a. ~raced /\ Sized
    BY RacedStays DEF TypeOK
  <2>0. Len(jobs) \in Nat /\ MaxJob \in Nat
    BY WorkerAssumption DEF TypeOK
  <2>1. CASE \E c \in Callers, j \in Jobs : Offer(c, j)
    <3>1. Len(jobs') <= MaxJob /\ jobs' = jobs
      BY <2>0, <2>1, <2>a DEF Offer, HasRoom, chainVars, Sized
    <3> QED
      BY <2>0, <3>1, InsideFinite, InsideFiniteNext
  <2>2. CASE \E c \in Callers : PushBack(c)
    <3> PICK c \in Callers : PushBack(c)
      BY <2>2
    <3>1. c \in Inside /\ Inside' = Inside \ {c} /\ hand[c] \in Jobs
      BY PushBackFacts
    <3>2. Cardinality(Inside') = Cardinality(Inside) - 1
      BY <3>1, InsideFinite, FS_RemoveElement
    <3>3. Len(jobs') = Len(jobs) + 1
      <4>1. Link(c)
        BY <2>a DEF PushBack, LinkAstray, LinkTorn, Sized
      <4> QED
        BY <2>0, <3>1, <4>1 DEF Link, AtBack, TypeOK
    <3> QED
      BY <2>0, <2>a, <3>2, <3>3, InsideFinite
  <2>3. CASE Swap \/ Join
    <3>1. Len(jobs') = 0 /\ Inside' = Inside
      BY <2>3 DEF Swap, TakeList, Join, workerFrame, callerVars, Inside
    <3> QED
      BY <2>0, <2>a, <3>1, InsideFinite
  <2>4. CASE \E c \in Callers : Notify(c)
    <3>1. jobs' = jobs /\ Inside' = Inside
      BY <2>4 DEF Notify, At, listVars, Inside, TypeOK
    <3> QED
      BY <2>0, <2>a, <3>1, InsideFinite
  <2>5. CASE \/ \E c \in Callers, j \in Jobs : Refuse(c, j)
             \/ Test \/ Predicate \/ Block \/ SpuriousWake \/ Relock \/ Check
             \/ SwapSize \/ Invoke \/ InvokeThrows \/ EndBatch \/ Overrun
             \/ Interrupt \/ NotifyInterrupt
             \/ UNCHANGED vars
    <3>1. jobs' = jobs /\ caller' = caller
      BY <2>5 DEF Refuse, Test, Predicate, Block, SpuriousWake, Relock, Check, SwapSize, Invoke,
                  InvokeThrows, EndBatch, Overrun, Interrupt, NotifyInterrupt, workerFrame,
                  listVars, chainVars, callerVars, vars
    <3> QED
      BY <2>a, <3>1 DEF Inside
  <2> QED
    BY StepCases, <2>1, <2>2, <2>3, <2>4, <2>5
<1>3. TypeOK /\ BoundInv => QueueBound
  <2> SUFFICES ASSUME TypeOK, BoundInv PROVE QueueBound
    OBVIOUS
  <2>1. Len(jobs) \in Nat
    BY DEF TypeOK
  <2> QED
    BY <2>1, InsideFinite, WorkerAssumption DEF BoundInv, QueueBound
<1> QED
  BY <1>1, <1>2, <1>3, TypeCorrect, PTL DEF Spec

-----------------------------------------------------------------------------
(***************************************************************************)
(* No job is duplicated or forgotten, and Worker implements JobQueue.      *)
(***************************************************************************)

\* The jobs that have been queued and not begun: the batch, then the list.
Waiting == local \o jobs

Distinct(s) == \A i, k \in 1..Len(s) : s[i] = s[k] => i = k

-----------------------------------------------------------------------------
(* Sequences without repetition                                            *)

\* A sequence grows by one element at its end.
LEMMA AppendFacts ==
  ASSUME NEW s \in Seq(Jobs), NEW j \in Jobs
  PROVE  /\ Append(s, j) \in Seq(Jobs)
         /\ Elems(Append(s, j)) = Elems(s) \cup {j}
         /\ Distinct(s) /\ j \notin Elems(s) => Distinct(Append(s, j))
<1> DEFINE t == Append(s, j)
<1>1. /\ t \in Seq(Jobs) /\ Len(t) = Len(s) + 1 /\ Len(s) \in Nat
      /\ \A i \in 1..Len(s) : t[i] = s[i]
      /\ t[Len(s) + 1] = j
      /\ DOMAIN t = 1..(Len(s) + 1) /\ DOMAIN s = 1..Len(s)
  BY AppendProperties, LenProperties
<1> HIDE DEF t
<1>2. Elems(t) = Elems(s) \cup {j}
  BY <1>1 DEF Elems
<1>3. Distinct(s) /\ j \notin Elems(s) => Distinct(t)
  BY <1>1 DEF Distinct, Elems
<1> QED
  BY <1>1, <1>2, <1>3 DEF t

\* A sequence loses its first n elements, and nothing else.
LEMMA SuffixFacts ==
  ASSUME NEW s \in Seq(Jobs), Distinct(s), NEW n \in 1..Len(s)
  PROVE  LET t == SubSeq(s, n + 1, Len(s))
         IN  /\ t \in Seq(Jobs) /\ Distinct(t)
             /\ Elems(t) = {j \in Elems(s) : \A i \in 1..n : j # s[i]}
<1> DEFINE t == SubSeq(s, n + 1, Len(s))
<1>0. Len(s) \in Nat /\ DOMAIN s = 1..Len(s) /\ \A i \in 1..Len(s) : s[i] \in Jobs
  BY LenProperties
<1>1. /\ t \in Seq(Jobs) /\ Len(t) = Len(s) - n
      /\ \A i \in 1..(Len(s) - n) : t[i] = s[n + i]
  <2>1. \A i \in (n + 1)..Len(s) : s[i] \in Jobs
    BY <1>0
  <2>2. n + 1 \in Int /\ Len(s) \in Int
    BY <1>0
  <2>3. /\ t \in Seq(Jobs)
        /\ Len(t) = IF n + 1 <= Len(s) THEN Len(s) - (n + 1) + 1 ELSE 0
        /\ \A i \in 1..(Len(s) - (n + 1) + 1) : t[i] = s[(n + 1) + i - 1]
    BY <2>1, <2>2, SubSeqProperties
  <2> HIDE DEF t
  <2>4. Len(t) = Len(s) - n
    <3>0. n \in Nat /\ Len(s) \in Nat /\ n <= Len(s)
      BY <1>0
    <3>1. CASE n # Len(s)
      <4>1. n + 1 <= Len(s)
        BY <3>0, <3>1
      <4>2. Len(t) = Len(s) - (n + 1) + 1
        BY <2>3, <4>1
      <4> QED
        BY <3>0, <4>2
    <3>2. CASE n = Len(s)
      <4>1. Len(s) < n + 1
        BY <3>0, <3>2
      <4>2. t = <<>>
        BY <2>2, <4>1, SubSeqEmpty DEF t
      <4>3. Len(t) = 0
        BY <4>2
      <4> QED
        BY <3>0, <3>2, <4>3
    <3> QED
      BY <3>1, <3>2
  <2>5. \A i \in 1..(Len(s) - n) : t[i] = s[n + i]
    <3> SUFFICES ASSUME NEW i \in 1..(Len(s) - n) PROVE t[i] = s[n + i]
      OBVIOUS
    <3>1. i \in 1..(Len(s) - (n + 1) + 1) /\ (n + 1) + i - 1 = n + i
      BY <1>0
    <3> QED
      BY <2>3, <3>1
  <2> QED
    BY <2>3, <2>4, <2>5
<1>2. DOMAIN t = 1..Len(t)
  BY <1>1, LenProperties
<1> HIDE DEF t
<1>3. Distinct(t)
  BY <1>0, <1>1 DEF Distinct
<1>4. Elems(t) \subseteq {j \in Elems(s) : \A i \in 1..n : j # s[i]}
  <2> SUFFICES ASSUME NEW k \in 1..Len(t)
               PROVE  t[k] \in Elems(s) /\ \A i \in 1..n : t[k] # s[i]
    BY <1>2 DEF Elems
  <2>1. n + k \in 1..Len(s) /\ t[k] = s[n + k]
    BY <1>0, <1>1
  <2>2. \A i \in 1..n : s[n + k] # s[i]
    BY <1>0, <2>1 DEF Distinct
  <2> QED
    BY <1>0, <2>1, <2>2 DEF Elems
<1>5. {j \in Elems(s) : \A i \in 1..n : j # s[i]} \subseteq Elems(t)
  <2> SUFFICES ASSUME NEW k \in 1..Len(s), \A i \in 1..n : s[k] # s[i]
               PROVE  s[k] \in Elems(t)
    BY <1>0 DEF Elems
  <2>1. k - n \in 1..Len(t) /\ t[k - n] = s[k]
    BY <1>0, <1>1
  <2> QED
    BY <1>2, <2>1 DEF Elems
<1> QED
  BY <1>1, <1>3, <1>4, <1>5 DEF t

\* A part of a sequence.
LEMMA PartFacts ==
  ASSUME NEW s \in Seq(Jobs), NEW m \in 1..(Len(s) + 1), NEW n \in 0..Len(s), m <= n + 1
  PROVE  LET t == SubSeq(s, m, n)
         IN  /\ t \in Seq(Jobs) /\ Len(t) = n - m + 1
             /\ \A i \in 1..(n - m + 1) : t[i] = s[m + i - 1]
<1>1. Len(s) \in Nat /\ \A i \in m..n : s[i] \in Jobs
  BY LenProperties
<1>2. m \in Int /\ n \in Int
  BY <1>1
<1> DEFINE t == SubSeq(s, m, n)
<1>3. /\ t \in Seq(Jobs) /\ Len(t) = IF m <= n THEN n - m + 1 ELSE 0
      /\ \A i \in 1..(n - m + 1) : t[i] = s[m + i - 1]
  BY <1>1, <1>2, SubSeqProperties
<1> HIDE DEF t
<1>4. Len(t) = n - m + 1
  <2>1. CASE m <= n
    BY <1>3, <2>1
  <2>2. CASE m = n + 1
    <3>1. ~(m <= n)
      BY <1>1, <2>2
    <3> QED
      BY <1>1, <1>3, <2>2, <3>1
  <2> QED
    BY <1>1, <2>1, <2>2
<1> QED
  BY <1>3, <1>4 DEF t

\* The first n elements of a sequence, and one that is new.
CutOff(s, j, n) == Append(SubSeq(s, 1, n), j)

LEMMA CutOffFacts ==
  ASSUME NEW s \in Seq(Jobs), NEW j \in Jobs, NEW n \in 0..Len(s)
  PROVE  LET t == CutOff(s, j, n)
         IN  /\ t \in Seq(Jobs) /\ Len(t) = n + 1
             /\ \A i \in 1..n : t[i] = s[i]
             /\ t[n + 1] = j
<1> DEFINE u == SubSeq(s, 1, n)
<1>1. Len(s) \in Nat /\ 1 \in 1..(Len(s) + 1) /\ 1 <= n + 1 /\ n - 1 + 1 = n
      /\ \A i \in 1..n : 1 + i - 1 = i
  BY LenProperties
<1>2. u \in Seq(Jobs) /\ Len(u) = n /\ \A i \in 1..n : u[i] = s[i]
  BY <1>1, PartFacts
<1> HIDE DEF u
<1>3. /\ Append(u, j) \in Seq(Jobs) /\ Len(Append(u, j)) = n + 1
      /\ \A i \in 1..n : Append(u, j)[i] = u[i]
      /\ Append(u, j)[n + 1] = j
  BY <1>2, AppendProperties
<1> QED
  BY <1>2, <1>3 DEF u, CutOff

\* The same, with the rest of the sequence behind it.
GetAhead(s, j, n) == CutOff(s, j, n) \o SubSeq(s, n + 1, Len(s))

LEMMA GetAheadFacts ==
  ASSUME NEW s \in Seq(Jobs), NEW j \in Jobs, NEW n \in 0..Len(s)
  PROVE  LET t == GetAhead(s, j, n)
         IN  /\ t \in Seq(Jobs) /\ Len(t) = Len(s) + 1
             /\ \A i \in 1..n : t[i] = s[i]
             /\ t[n + 1] = j
             /\ \A i \in (n + 2)..(Len(s) + 1) : t[i] = s[i - 1]
<1> DEFINE u == CutOff(s, j, n)
           v == SubSeq(s, n + 1, Len(s))
<1>0. Len(s) \in Nat /\ n \in Nat /\ n <= Len(s)
  BY LenProperties
<1>1. u \in Seq(Jobs) /\ Len(u) = n + 1 /\ u[n + 1] = j /\ \A i \in 1..n : u[i] = s[i]
  BY CutOffFacts
<1>2. /\ v \in Seq(Jobs) /\ Len(v) = Len(s) - n
      /\ \A i \in 1..(Len(s) - n) : v[i] = s[n + i]
  <2>1. n + 1 \in 1..(Len(s) + 1) /\ Len(s) \in 0..Len(s) /\ n + 1 <= Len(s) + 1
    BY <1>0
  <2>2. Len(s) - (n + 1) + 1 = Len(s) - n /\ \A i \in 1..(Len(s) - n) : (n + 1) + i - 1 = n + i
    BY <1>0
  <2>3. /\ v \in Seq(Jobs) /\ Len(v) = Len(s) - (n + 1) + 1
        /\ \A i \in 1..(Len(s) - (n + 1) + 1) : v[i] = s[(n + 1) + i - 1]
    BY <2>1, PartFacts
  <2> HIDE DEF v
  <2> QED
    BY <2>2, <2>3
<1> HIDE DEF u, v
<1>3. /\ u \o v \in Seq(Jobs) /\ Len(u \o v) = (n + 1) + (Len(s) - n)
      /\ \A i \in 1..((n + 1) + (Len(s) - n)) :
            (u \o v)[i] = IF i <= n + 1 THEN u[i] ELSE v[i - (n + 1)]
  <2>1. /\ u \o v \in Seq(Jobs) /\ Len(u \o v) = Len(u) + Len(v)
        /\ \A i \in 1..(Len(u) + Len(v)) :
              (u \o v)[i] = IF i <= Len(u) THEN u[i] ELSE v[i - Len(u)]
    BY <1>1, <1>2, ConcatProperties
  <2> QED
    BY <1>1, <1>2, <2>1
<1>4. Len(u \o v) = Len(s) + 1
  BY <1>0, <1>3
<1>5. \A i \in 1..n : (u \o v)[i] = s[i]
  BY <1>0, <1>1, <1>3
<1>6. (u \o v)[n + 1] = j
  BY <1>0, <1>1, <1>3
<1>7. \A i \in (n + 2)..(Len(s) + 1) : (u \o v)[i] = s[i - 1]
  <2> SUFFICES ASSUME NEW i \in (n + 2)..(Len(s) + 1) PROVE (u \o v)[i] = s[i - 1]
    OBVIOUS
  <2>1. /\ i \in 1..((n + 1) + (Len(s) - n)) /\ ~(i <= n + 1)
        /\ i - (n + 1) \in 1..(Len(s) - n) /\ n + (i - (n + 1)) = i - 1
    BY <1>0
  <2> QED
    BY <1>2, <1>3, <2>1
<1> QED
  BY <1>3, <1>4, <1>5, <1>6, <1>7 DEF GetAhead, u, v

\* Neither puts a new element at two places.
LEMMA NewAtOnePlace ==
  ASSUME NEW s \in Seq(Jobs), Distinct(s), NEW j \in Jobs, j \notin Elems(s), NEW n \in 0..Len(s)
  PROVE  /\ Distinct(CutOff(s, j, n)) /\ Distinct(GetAhead(s, j, n))
         /\ Elems(CutOff(s, j, n)) = {s[k] : k \in 1..n} \cup {j}
         /\ Elems(GetAhead(s, j, n)) = Elems(s) \cup {j}
<1> DEFINE t == CutOff(s, j, n)
           u == GetAhead(s, j, n)
<1>0. /\ Len(s) \in Nat /\ n \in Nat /\ n <= Len(s) /\ DOMAIN s = 1..Len(s)
      /\ \A i \in 1..Len(s) : s[i] # j
  BY LenProperties DEF Elems
<1>1. /\ t \in Seq(Jobs) /\ Len(t) = n + 1 /\ t[n + 1] = j /\ \A i \in 1..n : t[i] = s[i]
      /\ DOMAIN t = 1..(n + 1)
  <2>1. t \in Seq(Jobs) /\ Len(t) = n + 1 /\ t[n + 1] = j /\ \A i \in 1..n : t[i] = s[i]
    BY CutOffFacts
  <2> HIDE DEF t
  <2> QED
    BY <2>1, LenProperties
<1>2. /\ u \in Seq(Jobs) /\ Len(u) = Len(s) + 1 /\ u[n + 1] = j
      /\ \A i \in 1..n : u[i] = s[i]
      /\ \A i \in (n + 2)..(Len(s) + 1) : u[i] = s[i - 1]
      /\ DOMAIN u = 1..(Len(s) + 1)
  <2>1. /\ u \in Seq(Jobs) /\ Len(u) = Len(s) + 1 /\ u[n + 1] = j
        /\ \A i \in 1..n : u[i] = s[i]
        /\ \A i \in (n + 2)..(Len(s) + 1) : u[i] = s[i - 1]
    BY GetAheadFacts
  <2> HIDE DEF u
  <2> QED
    BY <2>1, LenProperties
<1> HIDE DEF t, u
<1>3. Distinct(t)
  BY <1>0, <1>1 DEF Distinct
<1>4. Distinct(u)
  <2> SUFFICES ASSUME NEW i \in 1..(Len(s) + 1), NEW k \in 1..(Len(s) + 1), u[i] = u[k]
               PROVE  i = k
    BY <1>2 DEF Distinct
  <2> DEFINE old(x) == IF x <= n THEN x ELSE x - 1
  <2>1. \A x \in 1..(Len(s) + 1) : x # n + 1 => old(x) \in 1..Len(s) /\ u[x] = s[old(x)]
    <3> SUFFICES ASSUME NEW x \in 1..(Len(s) + 1), x # n + 1
                 PROVE  old(x) \in 1..Len(s) /\ u[x] = s[old(x)]
      OBVIOUS
    <3>1. x \in 1..n \/ x \in (n + 2)..(Len(s) + 1)
      BY <1>0
    <3> QED
      BY <1>0, <1>2, <3>1
  <2>2. CASE i # n + 1 /\ k # n + 1
    <3>1. old(i) = old(k)
      BY <2>1, <2>2 DEF Distinct
    <3> QED
      BY <1>0, <2>2, <3>1
  <2>3. CASE i = n + 1 \/ k = n + 1
    <3> HIDE DEF old
    <3> QED
      BY <1>0, <1>2, <2>1, <2>3
  <2> QED
    BY <2>2, <2>3
<1>5. Elems(t) = {s[k] : k \in 1..n} \cup {j}
  <2>1. \A i \in 1..(n + 1) : i \in 1..n \/ i = n + 1
    BY <1>0
  <2>2. n + 1 \in 1..(n + 1) /\ \A i \in 1..n : i \in 1..(n + 1)
    BY <1>0
  <2> QED
    BY <1>1, <2>1, <2>2 DEF Elems
<1>6. Elems(u) \subseteq Elems(s) \cup {j}
  <2> SUFFICES ASSUME NEW i \in 1..(Len(s) + 1) PROVE u[i] \in Elems(s) \cup {j}
    BY <1>2 DEF Elems
  <2>1. i \in 1..n \/ i = n + 1 \/ i \in (n + 2)..(Len(s) + 1)
    BY <1>0
  <2>2. i \in 1..n => i \in 1..Len(s)
    BY <1>0
  <2>3. i \in (n + 2)..(Len(s) + 1) => i - 1 \in 1..Len(s)
    BY <1>0
  <2> QED
    BY <1>0, <1>2, <2>1, <2>2, <2>3 DEF Elems
<1>7. Elems(s) \cup {j} \subseteq Elems(u)
  <2>1. n + 1 \in DOMAIN u
    BY <1>0, <1>2
  <2>2. ASSUME NEW k \in 1..Len(s) PROVE s[k] \in Elems(u)
    <3>1. CASE k <= n
      <4>1. k \in 1..n /\ k \in DOMAIN u
        BY <1>0, <1>2, <3>1
      <4> QED
        BY <1>2, <4>1 DEF Elems
    <3>2. CASE k > n
      <4>1. k + 1 \in (n + 2)..(Len(s) + 1) /\ k + 1 \in DOMAIN u /\ (k + 1) - 1 = k
        BY <1>0, <1>2, <3>2
      <4> QED
        BY <1>2, <4>1 DEF Elems
    <3> QED
      BY <1>0, <3>1, <3>2
  <2> QED
    BY <1>0, <1>2, <2>1, <2>2 DEF Elems
<1> QED
  BY <1>3, <1>4, <1>5, <1>6, <1>7 DEF t, u

\* What is cut off behind another sequence.
LEMMA CutOffBehind ==
  ASSUME NEW s \in Seq(Jobs), NEW t \in Seq(Jobs), NEW j \in Jobs, NEW n \in 0..Len(t)
  PROVE  /\ Len(s) + n \in 0..Len(s \o t)
         /\ s \o CutOff(t, j, n) = CutOff(s \o t, j, Len(s) + n)
<1> DEFINE w == s \o t
           u == CutOff(t, j, n)
           m == Len(s) + n
           v == CutOff(w, j, m)
<1>0. Len(s) \in Nat /\ Len(t) \in Nat /\ n \in Nat /\ n <= Len(t)
  BY LenProperties
<1>1. /\ w \in Seq(Jobs) /\ Len(w) = Len(s) + Len(t)
      /\ \A i \in 1..(Len(s) + Len(t)) : w[i] = IF i <= Len(s) THEN s[i] ELSE t[i - Len(s)]
  BY ConcatProperties
<1>2. u \in Seq(Jobs) /\ Len(u) = n + 1 /\ u[n + 1] = j /\ \A i \in 1..n : u[i] = t[i]
  BY CutOffFacts
<1>3. m \in 0..Len(w)
  BY <1>0, <1>1
<1> HIDE DEF w, u
<1>4. v \in Seq(Jobs) /\ Len(v) = m + 1 /\ v[m + 1] = j /\ \A i \in 1..m : v[i] = w[i]
  <2>1. ASSUME NEW k \in 0..Len(w)
        PROVE  /\ CutOff(w, j, k) \in Seq(Jobs) /\ Len(CutOff(w, j, k)) = k + 1
               /\ \A i \in 1..k : CutOff(w, j, k)[i] = w[i]
               /\ CutOff(w, j, k)[k + 1] = j
    BY <1>1, CutOffFacts
  <2> QED
    BY <1>3, <2>1
<1> HIDE DEF v
<1>5. /\ s \o u \in Seq(Jobs) /\ Len(s \o u) = Len(s) + Len(u)
      /\ \A i \in 1..(Len(s) + Len(u)) : (s \o u)[i] = IF i <= Len(s) THEN s[i] ELSE u[i - Len(s)]
  BY <1>2, ConcatProperties
<1>6. Len(s \o u) = Len(v)
  BY <1>0, <1>2, <1>4, <1>5
<1>7. \A i \in 1..Len(s \o u) : (s \o u)[i] = v[i]
  <2> SUFFICES ASSUME NEW i \in 1..(Len(s) + n + 1) PROVE (s \o u)[i] = v[i]
    BY <1>0, <1>2, <1>5
  <2>0. i \in 1..(Len(s) + Len(u)) /\ i \in Nat
    BY <1>0, <1>2
  <2>1. CASE i <= Len(s)
    <3>1. i \in 1..m /\ i \in 1..(Len(s) + Len(t))
      BY <1>0, <2>0, <2>1
    <3> QED
      BY <1>1, <1>4, <1>5, <2>0, <2>1, <3>1
  <2>2. CASE ~(i <= Len(s)) /\ i <= m
    <3>1. i \in 1..m /\ i \in 1..(Len(s) + Len(t)) /\ i - Len(s) \in 1..n
      BY <1>0, <2>0, <2>2
    <3>2. (s \o u)[i] = t[i - Len(s)]
      BY <1>2, <1>5, <2>0, <2>2, <3>1
    <3> QED
      BY <1>1, <1>4, <2>2, <3>1, <3>2
  <2>3. CASE i = m + 1
    <3>1. ~(i <= Len(s)) /\ i - Len(s) = n + 1
      BY <1>0, <2>3
    <3> QED
      BY <1>2, <1>4, <1>5, <2>0, <2>3, <3>1
  <2> QED
    BY <1>0, <2>0, <2>1, <2>2, <2>3
<1>8. s \o u = v
  BY <1>4, <1>5, <1>6, <1>7, SeqEqual
<1> QED
  BY <1>3, <1>8 DEF w, u, v

\* What ends the first of two sequences is ahead of the second.
LEMMA GetAheadBehind ==
  ASSUME NEW s \in Seq(Jobs), NEW t \in Seq(Jobs), NEW j \in Jobs
  PROVE  /\ Len(s) \in 0..Len(s \o t)
         /\ Append(s, j) \o t = GetAhead(s \o t, j, Len(s))
<1> DEFINE w == s \o t
           u == Append(s, j)
           v == GetAhead(w, j, Len(s))
<1>0. Len(s) \in Nat /\ Len(t) \in Nat
  BY LenProperties
<1>1. /\ w \in Seq(Jobs) /\ Len(w) = Len(s) + Len(t)
      /\ \A i \in 1..(Len(s) + Len(t)) : w[i] = IF i <= Len(s) THEN s[i] ELSE t[i - Len(s)]
  BY ConcatProperties
<1>2. /\ u \in Seq(Jobs) /\ Len(u) = Len(s) + 1 /\ u[Len(s) + 1] = j
      /\ \A i \in 1..Len(s) : u[i] = s[i]
  BY AppendProperties
<1>3. Len(s) \in 0..Len(w)
  BY <1>0, <1>1
<1> HIDE DEF w, u
<1>4. /\ v \in Seq(Jobs) /\ Len(v) = Len(w) + 1 /\ v[Len(s) + 1] = j
      /\ \A i \in 1..Len(s) : v[i] = w[i]
      /\ \A i \in (Len(s) + 2)..(Len(w) + 1) : v[i] = w[i - 1]
  <2>1. ASSUME NEW m \in 0..Len(w)
        PROVE  /\ GetAhead(w, j, m) \in Seq(Jobs) /\ Len(GetAhead(w, j, m)) = Len(w) + 1
               /\ \A i \in 1..m : GetAhead(w, j, m)[i] = w[i]
               /\ GetAhead(w, j, m)[m + 1] = j
               /\ \A i \in (m + 2)..(Len(w) + 1) : GetAhead(w, j, m)[i] = w[i - 1]
    BY <1>1, GetAheadFacts
  <2> QED
    BY <1>3, <2>1
<1> HIDE DEF v
<1>5. /\ u \o t \in Seq(Jobs) /\ Len(u \o t) = Len(u) + Len(t)
      /\ \A i \in 1..(Len(u) + Len(t)) : (u \o t)[i] = IF i <= Len(u) THEN u[i] ELSE t[i - Len(u)]
  BY <1>2, ConcatProperties
<1>6. Len(u \o t) = Len(v)
  BY <1>0, <1>1, <1>2, <1>4, <1>5
<1>7. \A i \in 1..Len(u \o t) : (u \o t)[i] = v[i]
  <2> SUFFICES ASSUME NEW i \in 1..(Len(s) + 1 + Len(t)) PROVE (u \o t)[i] = v[i]
    BY <1>0, <1>2, <1>5
  <2>0. i \in 1..(Len(u) + Len(t)) /\ i \in Nat
    BY <1>0, <1>2
  <2>1. CASE i <= Len(s)
    <3>1. i \in 1..Len(s) /\ i \in 1..(Len(s) + Len(t)) /\ i <= Len(u)
      BY <1>0, <1>2, <2>0, <2>1
    <3> QED
      BY <1>1, <1>2, <1>4, <1>5, <2>0, <2>1, <3>1
  <2>2. CASE i = Len(s) + 1
    <3>1. i <= Len(u)
      BY <1>0, <1>2, <2>2
    <3> QED
      BY <1>2, <1>4, <1>5, <2>0, <2>2, <3>1
  <2>3. CASE i > Len(s) + 1
    <3>1. /\ i \in (Len(s) + 2)..(Len(w) + 1) /\ i - 1 \in 1..(Len(s) + Len(t))
          /\ ~(i <= Len(u)) /\ ~(i - 1 <= Len(s)) /\ i - Len(u) = (i - 1) - Len(s)
      BY <1>0, <1>1, <1>2, <2>0, <2>3
    <3>2. (u \o t)[i] = t[i - Len(u)]
      BY <1>5, <2>0, <3>1
    <3>3. v[i] = t[(i - 1) - Len(s)]
      BY <1>1, <1>4, <3>1
    <3> QED
      BY <3>1, <3>2, <3>3
  <2> QED
    BY <1>0, <2>0, <2>1, <2>2, <2>3
<1>8. u \o t = v
  BY <1>4, <1>5, <1>6, <1>7, SeqEqual
<1> QED
  BY <1>3, <1>8 DEF w, u, v

-----------------------------------------------------------------------------
(* What a step does to the waiting jobs                                    *)

\* The batch is empty but while it is being run.
BatchInv == worker \notin {"count", "run"} => local = <<>>

LEMMA BatchInvHolds == Spec => []BatchInv
<1>1. Init => BatchInv
  BY DEF Init, BatchInv
<1>2. BatchInv /\ [Next]_vars => BatchInv'
  <2> SUFFICES ASSUME BatchInv, [Next]_vars PROVE BatchInv'
    OBVIOUS
  <2>1. CASE \E c \in Callers : PushBack(c)
    BY <2>1 DEF BatchInv, PushBack, Link, LinkAstray, LinkTorn, Leave, batchVars, chainVars
  <2>2. CASE ~\E c \in Callers : PushBack(c)
    BY <2>2, StepCases DEF BatchInv, Offer, Refuse, Notify, Test, Predicate, Block,
       SpuriousWake, Relock, Check, Swap, SwapSize, Invoke, InvokeThrows, EndBatch, Overrun,
       Interrupt, NotifyInterrupt, Join, Goto, StayInBatch, WakeWorker, batchVars, chainVars, vars
  <2> QED
    BY <2>1, <2>2
<1> QED
  BY <1>1, <1>2, PTL DEF Spec

\* The sequences of the state, and their elements.
LEMMA WaitingFacts ==
  ASSUME TypeOK
  PROVE  /\ Waiting \in Seq(Jobs)
         /\ Elems(Waiting) = Elems(jobs) \cup Elems(local)
         /\ Len(Waiting) = Len(local) + Len(jobs)
         /\ \A i \in 1..Len(local) : Waiting[i] = local[i]
<1>1. /\ local \in Seq(Jobs) /\ jobs \in Seq(Jobs)
      /\ Len(local) \in Nat /\ Len(jobs) \in Nat
      /\ DOMAIN local = 1..Len(local) /\ DOMAIN jobs = 1..Len(jobs)
  BY LenProperties DEF TypeOK
<1>2. /\ Waiting \in Seq(Jobs) /\ Len(Waiting) = Len(local) + Len(jobs)
      /\ \A i \in 1..(Len(local) + Len(jobs)) :
            Waiting[i] = IF i <= Len(local) THEN local[i] ELSE jobs[i - Len(local)]
  BY <1>1, ConcatProperties DEF Waiting
<1>3. DOMAIN Waiting = 1..(Len(local) + Len(jobs))
  BY <1>2, LenProperties
<1>4. Elems(Waiting) \subseteq Elems(jobs) \cup Elems(local)
  <2> SUFFICES ASSUME NEW k \in 1..(Len(local) + Len(jobs))
               PROVE  Waiting[k] \in Elems(jobs) \cup Elems(local)
    BY <1>3 DEF Elems
  <2>1. CASE k <= Len(local)
    BY <1>1, <1>2, <2>1 DEF Elems
  <2>2. CASE k > Len(local)
    <3>1. k - Len(local) \in 1..Len(jobs) /\ Waiting[k] = jobs[k - Len(local)]
      BY <1>1, <1>2, <2>2
    <3> QED
      BY <1>1, <3>1 DEF Elems
  <2> QED
    BY <1>1, <2>1, <2>2
<1>5. Elems(local) \subseteq Elems(Waiting)
  BY <1>1, <1>2, <1>3 DEF Elems
<1>6. Elems(jobs) \subseteq Elems(Waiting)
  <2> SUFFICES ASSUME NEW k \in 1..Len(jobs) PROVE jobs[k] \in Elems(Waiting)
    BY <1>1 DEF Elems
  <2>1. /\ Len(local) + k \in 1..(Len(local) + Len(jobs))
        /\ ~(Len(local) + k <= Len(local)) /\ (Len(local) + k) - Len(local) = k
    BY <1>1
  <2>2. Waiting[Len(local) + k] = jobs[k]
    BY <1>2, <2>1
  <2> QED
    BY <1>3, <2>1, <2>2 DEF Elems
<1> QED
  BY <1>1, <1>2, <1>4, <1>5, <1>6

\* The worker takes the first jobs that wait: one, or one that throws and the
\* rest of its batch.
Taken(n) ==
  /\ n \in 1..Len(Waiting)
  /\ Waiting' = SubSeq(Waiting, n + 1, Len(Waiting))
  /\ fate' = [j \in Jobs |-> IF j = Waiting[1] THEN "ran"
                             ELSE IF \E i \in 2..n : j = Waiting[i] THEN "dropped"
                             ELSE fate[j]]

LEMMA InvokeTakes ==
  ASSUME TypeOK, Invoke
  PROVE  Taken(1)
<1>1. /\ local \in Seq(Jobs) /\ jobs \in Seq(Jobs) /\ local # <<>>
      /\ local' = Tail(local) /\ jobs' = jobs
      /\ fate' = [fate EXCEPT ![Head(local)] = "ran"]
  BY DEF Invoke, listVars, TypeOK
<1>2. /\ Len(local) \in Nat \ {0} /\ Len(jobs) \in Nat /\ Head(local) = local[1]
  BY <1>1, LenProperties
<1>3. /\ Waiting[1] = Head(local) /\ 1 \in 1..Len(Waiting)
      /\ Len(Waiting) = Len(local) + Len(jobs) /\ Waiting \in Seq(Jobs)
  BY <1>2, WaitingFacts
<1>4. Waiting' = Tail(local) \o jobs
  BY <1>1 DEF Waiting
<1>5. Tail(local) = SubSeq(local, 2, Len(local))
  BY <1>1, TailIsSubSeq
<1>6. Waiting # <<>> /\ Tail(Waiting) = SubSeq(Waiting, 2, Len(Waiting))
  BY <1>3, TailIsSubSeq
<1>7. Tail(local) \o jobs = Tail(Waiting)
  <2>1. /\ Tail(local) \in Seq(Jobs) /\ Len(Tail(local)) = Len(local) - 1
        /\ \A i \in 1..(Len(local) - 1) : Tail(local)[i] = local[i + 1]
    BY <1>1, HeadTailProperties
  <2>2. /\ Tail(Waiting) \in Seq(Jobs) /\ Len(Tail(Waiting)) = Len(Waiting) - 1
        /\ \A i \in 1..(Len(Waiting) - 1) : Tail(Waiting)[i] = Waiting[i + 1]
    BY <1>3, <1>6, HeadTailProperties
  <2>3. \A i \in 1..(Len(local) + Len(jobs)) :
          Waiting[i] = IF i <= Len(local) THEN local[i] ELSE jobs[i - Len(local)]
    BY <1>1, ConcatProperties DEF Waiting
  <2>4. /\ Tail(local) \o jobs \in Seq(Jobs)
        /\ Len(Tail(local) \o jobs) = Len(local) - 1 + Len(jobs)
        /\ \A i \in 1..(Len(local) - 1 + Len(jobs)) :
             (Tail(local) \o jobs)[i] = IF i <= Len(local) - 1 THEN Tail(local)[i]
                                        ELSE jobs[i - (Len(local) - 1)]
    BY <1>1, <2>1, ConcatProperties
  <2>5. \A i \in 1..(Len(local) - 1 + Len(jobs)) : (Tail(local) \o jobs)[i] = Tail(Waiting)[i]
    <3> SUFFICES ASSUME NEW i \in 1..(Len(local) - 1 + Len(jobs))
                 PROVE  (Tail(local) \o jobs)[i] = Tail(Waiting)[i]
      OBVIOUS
    <3>1. Tail(Waiting)[i] = Waiting[i + 1] /\ i + 1 \in 1..(Len(local) + Len(jobs))
      BY <1>2, <1>3, <2>2
    <3>2. CASE i <= Len(local) - 1
      <4>1. i \in 1..(Len(local) - 1) /\ i + 1 <= Len(local)
        BY <1>2, <3>2
      <4>2. (Tail(local) \o jobs)[i] = local[i + 1]
        BY <2>1, <2>4, <4>1
      <4>3. Waiting[i + 1] = local[i + 1]
        BY <2>3, <3>1, <4>1
      <4> QED
        BY <3>1, <4>2, <4>3
    <3>3. CASE i > Len(local) - 1
      <4>1. Waiting[i + 1] = jobs[(i + 1) - Len(local)]
        BY <1>2, <2>3, <3>1, <3>3
      <4>2. (Tail(local) \o jobs)[i] = jobs[i - (Len(local) - 1)]
        BY <1>2, <2>4, <3>3
      <4>3. (i + 1) - Len(local) = i - (Len(local) - 1)
        BY <1>2
      <4> QED
        BY <3>1, <4>1, <4>2, <4>3
    <3>4. i <= Len(local) - 1 \/ i > Len(local) - 1
      BY <1>2
    <3> QED
      BY <3>2, <3>3, <3>4
  <2> QED
    BY <1>2, <1>3, <2>2, <2>4, <2>5, SeqEqual
<1>8. fate' = [j \in Jobs |-> IF j = Waiting[1] THEN "ran" ELSE fate[j]]
  BY <1>1, <1>3 DEF TypeOK
<1>9. Waiting' = SubSeq(Waiting, 1 + 1, Len(Waiting))
  <2>1. 1 + 1 = 2
    OBVIOUS
  <2>2. Waiting' = SubSeq(Waiting, 2, Len(Waiting))
    BY <1>4, <1>6, <1>7
  <2> QED
    BY <2>1, <2>2
<1>10. fate' = [j \in Jobs |-> IF j = Waiting[1] THEN "ran"
                              ELSE IF \E i \in 2..1 : j = Waiting[i] THEN "dropped"
                              ELSE fate[j]]
  <2>1. 2..1 = {}
    OBVIOUS
  <2> QED
    BY <1>8, <2>1
<1> QED
  BY <1>3, <1>9, <1>10 DEF Taken

LEMMA InvokeThrowsTakes ==
  ASSUME TypeOK, InvokeThrows
  PROVE  Taken(Len(local))
<1>1. /\ local \in Seq(Jobs) /\ jobs \in Seq(Jobs) /\ local # <<>>
      /\ local' = <<>> /\ jobs' = jobs
      /\ fate' = [j \in Jobs |-> IF j = Head(local) THEN "ran"
                                 ELSE IF j \in Elems(Tail(local)) THEN "dropped" ELSE fate[j]]
  BY DEF InvokeThrows, listVars, TypeOK
<1>2. /\ Len(local) \in Nat \ {0} /\ Len(jobs) \in Nat /\ Head(local) = local[1]
  BY <1>1, LenProperties
<1>3. /\ Waiting[1] = Head(local) /\ Len(local) \in 1..Len(Waiting)
      /\ Len(Waiting) = Len(local) + Len(jobs) /\ Waiting \in Seq(Jobs)
      /\ \A i \in 1..Len(local) : Waiting[i] = local[i]
  BY <1>2, WaitingFacts
<1>4. Waiting' = jobs
  BY <1>1, ConcatEmptySeq DEF Waiting
<1>5. SubSeq(Waiting, Len(local) + 1, Len(Waiting)) = jobs
  BY <1>1, <1>3, SubSeqOfConcat2 DEF Waiting
<1>6. Elems(Tail(local)) = {local[i] : i \in 2..Len(local)}
  <2>1. /\ Len(Tail(local)) = Len(local) - 1
        /\ \A i \in 1..(Len(local) - 1) : Tail(local)[i] = local[i + 1]
        /\ DOMAIN Tail(local) = 1..(Len(local) - 1)
    BY <1>1, HeadTailProperties, LenProperties
  <2>2. Elems(Tail(local)) \subseteq {local[i] : i \in 2..Len(local)}
    BY <1>2, <2>1 DEF Elems
  <2>3. {local[i] : i \in 2..Len(local)} \subseteq Elems(Tail(local))
    <3> SUFFICES ASSUME NEW i \in 2..Len(local) PROVE local[i] \in Elems(Tail(local))
      OBVIOUS
    <3>1. i - 1 \in 1..(Len(local) - 1) /\ Tail(local)[i - 1] = local[i]
      BY <1>2, <2>1
    <3> QED
      BY <2>1, <3>1 DEF Elems
  <2> QED
    BY <2>2, <2>3
<1>7. \A j : j \in Elems(Tail(local)) <=> \E i \in 2..Len(local) : j = Waiting[i]
  BY <1>2, <1>3, <1>6
<1> QED
  BY <1>1, <1>3, <1>4, <1>5, <1>7 DEF Taken

-----------------------------------------------------------------------------
(* What a race does to the waiting jobs                                    *)

\* A push_back that is overlapped loses its job, cuts off jobs that were linked
\* before, or puts its job ahead of some; what it leaves behind is lost.
LEMMA TornWaiting ==
  ASSUME TypeOK, NEW c \in Callers, LinkTorn(c)
  PROVE  /\ \/ Waiting' = Waiting
            \/ \E n \in 0..Len(Waiting) : \/ Waiting' = CutOff(Waiting, hand[c], n)
                                          \/ Waiting' = GetAhead(Waiting, hand[c], n)
         /\ fate' = [j \in Jobs |-> IF j \in Elems(Waiting') THEN "queued"
                                    ELSE IF j = hand[c] \/ j \in Elems(Waiting) THEN "lost"
                                    ELSE fate[j]]
<1> DEFINE j == hand[c]
<1>0. j \in Jobs /\ jobs \in Seq(Jobs) /\ local \in Seq(Jobs)
  BY TornFacts DEF TypeOK
<1>4. \/ Waiting' = Waiting
      \/ \E n \in 0..Len(Waiting) : Waiting' = CutOff(Waiting, j, n) \/ Waiting' = GetAhead(Waiting, j, n)
  <2> HIDE DEF j
  <2>1. CASE \E n \in 0..Len(jobs) : jobs' = Append(SubSeq(jobs, 1, n), j) /\ local' = local
    <3> PICK n \in 0..Len(jobs) : jobs' = Append(SubSeq(jobs, 1, n), j) /\ local' = local
      BY <2>1
    <3>1. Waiting' = local \o CutOff(jobs, j, n)
      BY DEF Waiting, CutOff
    <3>2. Len(local) + n \in 0..Len(Waiting) /\ Waiting' = CutOff(Waiting, j, Len(local) + n)
      BY <1>0, <3>1, CutOffBehind DEF Waiting
    <3> QED
      BY <3>2
  <2>2. CASE jobs' = jobs /\ local' = local
    BY <2>2 DEF Waiting
  <2>3. CASE jobs' = jobs /\ local' = Append(local, j)
    <3>1. Waiting' = Append(local, j) \o jobs
      BY <2>3 DEF Waiting
    <3>2. Len(local) \in 0..Len(Waiting) /\ Waiting' = GetAhead(Waiting, j, Len(local))
      BY <1>0, <3>1, GetAheadBehind DEF Waiting
    <3> QED
      BY <3>2
  <2> QED
    BY <2>1, <2>2, <2>3, TornFacts DEF j
<1>5. Elems(local) \subseteq Elems(Waiting')
  <2>0. jobs' \in Seq(Jobs) /\ local' \in Seq(Jobs)
    BY TornFacts
  <2>1. /\ Len(local) \in Nat /\ DOMAIN local = 1..Len(local)
        /\ Len(local') \in Nat /\ Len(jobs') \in Nat
    BY <1>0, <2>0, LenProperties
  <2>2. Len(local) <= Len(local') /\ \A i \in 1..Len(local) : local'[i] = local[i]
    <3>1. local' = local \/ local' = Append(local, j)
      BY TornFacts
    <3>2. CASE local' = Append(local, j)
      <4>1. /\ Len(Append(local, j)) = Len(local) + 1
            /\ \A i \in 1..Len(local) : Append(local, j)[i] = local[i]
        BY <1>0, AppendProperties
      <4> QED
        BY <2>1, <3>2, <4>1
    <3> QED
      BY <2>1, <3>1, <3>2
  <2>3. /\ Waiting' \in Seq(Jobs) /\ Len(Waiting') = Len(local') + Len(jobs')
        /\ \A i \in 1..(Len(local') + Len(jobs')) :
              Waiting'[i] = IF i <= Len(local') THEN local'[i] ELSE jobs'[i - Len(local')]
    BY <2>0, ConcatProperties DEF Waiting
  <2>4. DOMAIN Waiting' = 1..Len(Waiting')
    BY <2>3, LenProperties
  <2>5. \A i \in 1..Len(local) : i \in DOMAIN Waiting' /\ Waiting'[i] = local[i]
    BY <2>1, <2>2, <2>3, <2>4
  <2> QED
    BY <2>1, <2>5 DEF Elems
<1>6. Elems(Waiting) = Elems(jobs) \cup Elems(local)
  BY WaitingFacts
<1>7. fate' = [k \in Jobs |-> IF k \in Elems(Waiting') THEN "queued"
                              ELSE IF k = j \/ k \in Elems(jobs) THEN "lost" ELSE fate[k]]
  BY DEF LinkTorn, Waiting
<1>8. \A k : k \notin Elems(Waiting') => (k \in Elems(jobs) <=> k \in Elems(Waiting))
  BY <1>5, <1>6
<1>9. fate' = [k \in Jobs |-> IF k \in Elems(Waiting') THEN "queued"
                              ELSE IF k = j \/ k \in Elems(Waiting) THEN "lost" ELSE fate[k]]
  BY <1>7, <1>8, Zenon
<1> QED
  BY <1>4, <1>9

-----------------------------------------------------------------------------
(* No job is duplicated or forgotten                                       *)

\* Conservation, with what keeps it: a job in a hand has been offered, so that
\* nobody can offer it again, and is queued only when its hand lets go of it.
HandInv ==
  /\ \A c \in Callers : caller[c] = "link" => fate[hand[c]] = "offered"
  /\ \A c \in Callers : hand[c] # NoJob => fate[hand[c]] # "fresh"
  /\ \A c, d \in Callers : hand[c] = hand[d] /\ hand[c] # NoJob => c = d

QueueInv ==
  /\ \A j \in Jobs : fate[j] = "queued" <=> j \in Elems(Waiting)
  /\ Distinct(Waiting)
  /\ raced \/ \A j \in Jobs : fate[j] # "lost"

\* What is taken from the front leaves the rest as it was.
LEMMA TakenKeeps ==
  ASSUME TypeOK, HandInv, QueueInv, NEW n \in 1..Len(Waiting), Taken(n),
         UNCHANGED <<callerVars, raced>>
  PROVE  HandInv' /\ QueueInv'
<1>1. /\ Waiting \in Seq(Jobs) /\ Distinct(Waiting) /\ Len(Waiting) \in Nat
      /\ DOMAIN Waiting = 1..Len(Waiting)
  BY WaitingFacts, LenProperties DEF QueueInv
<1>2. /\ Distinct(Waiting')
      /\ Elems(Waiting') = {j \in Elems(Waiting) : \A i \in 1..n : j # Waiting[i]}
  BY <1>1, SuffixFacts DEF Taken
<1>3. \A j \in Jobs : fate'[j] = IF \E i \in 1..n : j = Waiting[i]
                                 THEN IF j = Waiting[1] THEN "ran" ELSE "dropped"
                                 ELSE fate[j]
  <2>1. 1 \in 1..n /\ \A i \in 1..n : i = 1 \/ i \in 2..n
    BY <1>1
  <2>2. \A i \in 2..n : i \in 1..n
    BY <1>1
  <2> QED
    BY <2>1, <2>2 DEF Taken
<1>4. \A i \in 1..n : Waiting[i] \in Jobs /\ fate[Waiting[i]] = "queued"
  <2> SUFFICES ASSUME NEW i \in 1..n PROVE Waiting[i] \in Jobs /\ fate[Waiting[i]] = "queued"
    OBVIOUS
  <2>1. i \in 1..Len(Waiting)
    BY <1>1
  <2>2. Waiting[i] \in Jobs /\ Waiting[i] \in Elems(Waiting)
    BY <1>1, <2>1 DEF Elems
  <2> QED
    BY <2>2 DEF QueueInv
<1>5. QueueInv'
  BY <1>2, <1>3, <1>4 DEF QueueInv
<1>6. HandInv'
  <2>1. \A j \in Jobs : fate[j] # "queued" => fate'[j] = fate[j]
    BY <1>3, <1>4
  <2>2. \A j \in Jobs : fate[j] = "queued" => fate'[j] # "fresh"
    BY <1>3
  <2> QED
    BY <2>1, <2>2 DEF HandInv, callerVars, TypeOK
<1> QED
  BY <1>5, <1>6

\* What was in no race goes to the end of what waits.
LEMMA LinkAppends ==
  ASSUME TypeOK, NEW c \in Callers, Link(c)
  PROVE  Waiting' = Append(Waiting, hand[c])
<1>1. local' = local /\ jobs' = Append(jobs, hand[c]) /\ hand[c] \in Jobs
  BY DEF Link, At, AtBack, batchVars, TypeOK
<1>2. local \in Seq(Jobs) /\ jobs \in Seq(Jobs) /\ <<hand[c]>> \in Seq(Jobs)
  BY <1>1 DEF TypeOK
<1>3. /\ Append(jobs, hand[c]) = jobs \o <<hand[c]>>
      /\ Append(local \o jobs, hand[c]) = (local \o jobs) \o <<hand[c]>>
  BY <1>1, <1>2, AppendIsConcat, ConcatProperties
<1> QED
  BY <1>1, <1>2, <1>3, ConcatAssociative DEF Waiting

\* The other callers keep what they hold when one caller lets go of its job.
LEMMA HandsKept ==
  ASSUME TypeOK, HandInv, NEW c \in Callers, caller[c] = "link",
         caller' = [caller EXCEPT ![c] = "notify"], hand' = hand,
         fate'[hand[c]] # "fresh",
         \A k \in Jobs : k # hand[c] => fate'[k] = fate[k] \/ (fate[k] = "queued" /\ fate'[k] = "lost")
  PROVE  HandInv'
<1>1. \A d \in Callers : caller'[d] = "link" => caller[d] = "link" /\ hand[d] # hand[c]
  BY WorkerAssumption DEF HandInv, TypeOK
<1>2. \A d \in Callers : hand[d] # NoJob => hand[d] \in Jobs
  BY DEF TypeOK
<1>3. \A d \in Callers : caller[d] = "link" => hand[d] # NoJob
  BY DEF TypeOK
<1> QED
  BY <1>1, <1>2, <1>3 DEF HandInv

LEMMA QueueInvHolds == Spec => [](HandInv /\ QueueInv)
<1>1. Init => HandInv /\ QueueInv
  <2> SUFFICES ASSUME Init PROVE HandInv /\ QueueInv
    OBVIOUS
  <2>1. Waiting = <<>> /\ Len(Waiting) = 0 /\ Elems(Waiting) = {}
    BY DEF Init, Waiting, Elems
  <2> QED
    BY <2>1 DEF Init, HandInv, QueueInv, Distinct
<1>2. TypeOK /\ TypeOK' /\ BatchInv /\ HandInv /\ QueueInv /\ [Next]_vars => HandInv' /\ QueueInv'
  <2> SUFFICES ASSUME TypeOK, TypeOK', BatchInv, HandInv, QueueInv, [Next]_vars
               PROVE  HandInv' /\ QueueInv'
    OBVIOUS
  <2>1. CASE \E c \in Callers, j \in Jobs : Offer(c, j)
    <3> PICK c \in Callers, j \in Jobs : Offer(c, j)
      BY <2>1
    <3>1. /\ fate[j] = "fresh" /\ fate' = [fate EXCEPT ![j] = "offered"]
          /\ caller[c] = "idle" /\ caller' = [caller EXCEPT ![c] = "link"]
          /\ hand' = [hand EXCEPT ![c] = j] /\ Waiting' = Waiting /\ raced' = raced
      BY DEF Offer, At, chainVars, Waiting
    <3>2. QueueInv'
      BY <3>1 DEF QueueInv, TypeOK
    <3>3. HandInv'
      <4>1. \A d \in Callers : d # c => hand'[d] = hand[d] /\ caller'[d] = caller[d] /\ hand[d] # j
        BY <3>1, WorkerAssumption DEF HandInv, TypeOK
      <4>2. hand'[c] = j /\ fate'[j] = "offered"
        BY <3>1 DEF TypeOK
      <4>3. \A d \in Callers : hand[d] # NoJob => hand[d] \in Jobs
        BY DEF TypeOK
      <4>4. \A k \in Jobs : k # j => fate'[k] = fate[k]
        BY <3>1 DEF TypeOK
      <4>5. \A d \in Callers : caller[d] = "link" => hand[d] # NoJob
        BY DEF TypeOK
      <4> QED
        BY <4>1, <4>2, <4>3, <4>4, <4>5 DEF HandInv
    <3> QED
      BY <3>2, <3>3
  <2>2. CASE \E c \in Callers, j \in Jobs : Refuse(c, j)
    <3> PICK c \in Callers, j \in Jobs : Refuse(c, j)
      BY <2>2
    <3>1. /\ fate[j] = "fresh" /\ fate' = [fate EXCEPT ![j] = "refused"]
          /\ UNCHANGED <<caller, hand, raced>> /\ Waiting' = Waiting
      BY DEF Refuse, listVars, batchVars, callerVars, Waiting
    <3> QED
      BY <3>1 DEF HandInv, QueueInv, TypeOK
  <2>3. CASE \E c \in Callers : PushBack(c)
    <3> PICK c \in Callers : PushBack(c)
      BY <2>3
    <3>1. /\ caller[c] = "link" /\ caller' = [caller EXCEPT ![c] = "notify"]
          /\ hand' = hand /\ hand[c] \in Jobs /\ fate[hand[c]] = "offered"
      BY PushBackFacts DEF HandInv
    <3>2. hand[c] \notin Elems(Waiting)
      BY <3>1 DEF QueueInv
    <3>3. CASE Link(c)
      <4>1. fate' = [fate EXCEPT ![hand[c]] = "queued"] /\ raced' = raced
        BY <3>3 DEF Link
      <4>2. Waiting' = Append(Waiting, hand[c])
        BY <3>3, LinkAppends
      <4>3. /\ Elems(Waiting') = Elems(Waiting) \cup {hand[c]} /\ Distinct(Waiting')
        BY <3>1, <3>2, <4>2, WaitingFacts, AppendFacts DEF QueueInv
      <4>4. QueueInv'
        BY <3>1, <4>1, <4>3 DEF QueueInv, TypeOK
      <4>5. \A k \in Jobs : k # hand[c] => fate'[k] = fate[k]
        BY <4>1 DEF TypeOK
      <4>6. fate'[hand[c]] = "queued"
        BY <3>1, <4>1 DEF TypeOK
      <4> QED
        BY <3>1, <4>4, <4>5, <4>6, HandsKept
    <3>4. CASE LinkAstray(c)
      <4>1. fate' = [fate EXCEPT ![hand[c]] = "lost"] /\ raced' = raced /\ raced /\ Waiting' = Waiting
        BY <3>4 DEF LinkAstray, chainVars, TypeOK, Sized, Waiting
      <4>2. QueueInv'
        BY <3>1, <3>2, <4>1 DEF QueueInv, TypeOK
      <4>3. \A k \in Jobs : k # hand[c] => fate'[k] = fate[k]
        BY <4>1 DEF TypeOK
      <4>4. fate'[hand[c]] = "lost"
        BY <3>1, <4>1 DEF TypeOK
      <4> QED
        BY <3>1, <4>2, <4>3, <4>4, HandsKept
    <3>5. CASE LinkTorn(c)
      <4>1. raced' = TRUE
        BY <3>5 DEF LinkTorn
      <4>2. Waiting \in Seq(Jobs) /\ Distinct(Waiting)
        BY WaitingFacts DEF QueueInv
      <4>3. \A k \in Jobs : fate'[k] = IF k \in Elems(Waiting') THEN "queued"
                                       ELSE IF k = hand[c] \/ k \in Elems(Waiting) THEN "lost"
                                       ELSE fate[k]
        BY <3>5, TornWaiting
      <4>4. Distinct(Waiting') /\ Elems(Waiting') \subseteq Elems(Waiting) \cup {hand[c]}
        <5>1. CASE Waiting' = Waiting
          BY <4>2, <5>1
        <5>2. ASSUME NEW n \in 0..Len(Waiting),
                     Waiting' = CutOff(Waiting, hand[c], n) \/ Waiting' = GetAhead(Waiting, hand[c], n)
              PROVE  Distinct(Waiting') /\ Elems(Waiting') \subseteq Elems(Waiting) \cup {hand[c]}
          <6>1. /\ Distinct(CutOff(Waiting, hand[c], n)) /\ Distinct(GetAhead(Waiting, hand[c], n))
                /\ Elems(CutOff(Waiting, hand[c], n)) = {Waiting[k] : k \in 1..n} \cup {hand[c]}
                /\ Elems(GetAhead(Waiting, hand[c], n)) = Elems(Waiting) \cup {hand[c]}
            BY <3>1, <3>2, <4>2, NewAtOnePlace
          <6>2. {Waiting[k] : k \in 1..n} \subseteq Elems(Waiting)
            <7>1. DOMAIN Waiting = 1..Len(Waiting) /\ Len(Waiting) \in Nat
              BY <4>2, LenProperties
            <7> QED
              BY <7>1 DEF Elems
          <6> QED
            BY <5>2, <6>1, <6>2
        <5> QED
          BY <3>5, <5>1, <5>2, TornWaiting
      <4>5. QueueInv'
        <5>1. \A k \in Jobs : fate'[k] = "queued" <=> k \in Elems(Waiting')
          BY <3>1, <4>3 DEF QueueInv
        <5> QED
          BY <4>1, <4>4, <5>1 DEF QueueInv
      <4>6. \A k \in Jobs : k # hand[c] => fate'[k] = fate[k] \/ (fate[k] = "queued" /\ fate'[k] = "lost")
        BY <4>3, <4>4 DEF QueueInv
      <4>7. fate'[hand[c]] \in {"queued", "lost"}
        BY <3>1, <4>3
      <4> QED
        BY <3>1, <4>5, <4>6, <4>7, HandsKept
    <3> QED
      BY <3>3, <3>4, <3>5 DEF PushBack
  <2>4. CASE \E c \in Callers : Notify(c)
    <3> PICK c \in Callers : Notify(c)
      BY <2>4
    <3>1. /\ caller' = [caller EXCEPT ![c] = "idle"] /\ hand' = [hand EXCEPT ![c] = NoJob]
          /\ fate' = fate /\ Waiting' = Waiting /\ raced' = raced
      BY DEF Notify, listVars, batchVars, Waiting
    <3>2. QueueInv'
      BY <3>1 DEF QueueInv
    <3>3. HandInv'
      BY <3>1 DEF HandInv, TypeOK
    <3> QED
      BY <3>2, <3>3
  <2>5. CASE Swap
    <3>1. /\ local = <<>> /\ local' = jobs /\ jobs' = <<>>
          /\ UNCHANGED <<fate, raced, callerVars>>
      BY <2>5 DEF Swap, TakeList, Goto, BatchInv, workerFrame
    <3>2. jobs \in Seq(Jobs)
      BY DEF TypeOK
    <3>3. Waiting' = Waiting
      BY <3>1, <3>2, ConcatEmptySeq DEF Waiting
    <3> QED
      BY <3>1, <3>3 DEF HandInv, QueueInv, callerVars
  <2>6. CASE Invoke
    <3>1. Taken(1) /\ 1 \in 1..Len(Waiting)
      BY <2>6, InvokeTakes DEF Taken
    <3> QED
      BY <2>6, <3>1, TakenKeeps DEF Invoke, workerFrame, listVars
  <2>7. CASE InvokeThrows
    <3>1. Taken(Len(local)) /\ Len(local) \in 1..Len(Waiting)
      BY <2>7, InvokeThrowsTakes DEF Taken
    <3> QED
      BY <2>7, <3>1, TakenKeeps DEF InvokeThrows, listVars, callerVars
  <2>8. CASE Join
    <3>1. /\ local = <<>> /\ local' = <<>> /\ jobs' = <<>> /\ UNCHANGED <<callerVars, raced>>
          /\ fate' = [j \in Jobs |-> IF j \in Elems(jobs) THEN "dropped" ELSE fate[j]]
      BY <2>8 DEF Join, BatchInv, batchVars
    <3>2. Waiting' = <<>> /\ Len(Waiting') = 0 /\ Elems(Waiting') = {}
      BY <3>1 DEF Waiting, Elems
    <3>3. Elems(Waiting) = Elems(jobs)
      <4>1. Elems(local) = {}
        BY <3>1 DEF Elems
      <4> QED
        BY <4>1, WaitingFacts
    <3>4. QueueInv'
      BY <3>1, <3>2, <3>3 DEF QueueInv, Distinct
    <3>5. HandInv'
      BY <3>1, <3>3 DEF HandInv, QueueInv, callerVars, TypeOK
    <3> QED
      BY <3>4, <3>5
  <2>9. CASE \/ Test \/ Predicate \/ Block \/ SpuriousWake \/ Relock \/ Check \/ SwapSize
             \/ EndBatch \/ Overrun \/ Interrupt \/ NotifyInterrupt
             \/ UNCHANGED vars
    <3>1. UNCHANGED <<jobs, local, fate, raced, callerVars>>
      BY <2>9 DEF Test, Predicate, Block, SpuriousWake, Relock, Check, SwapSize, EndBatch, Overrun,
                  Interrupt, NotifyInterrupt, workerFrame, listVars, batchVars, chainVars,
                  callerVars, vars
    <3> QED
      BY <3>1 DEF HandInv, QueueInv, Waiting, callerVars
  <2> QED
    BY StepCases, <2>1, <2>2, <2>3, <2>4, <2>5, <2>6, <2>7, <2>8, <2>9
<1> QED
  BY <1>1, <1>2, TypeCorrect, BatchInvHolds, PTL DEF Spec

\* A job accepted by pushJob is in the list or in the batch, at one place, until
\* it has run or been dropped; it is forgotten only when two mutations of the
\* list have raced.
THEOREM JobsConserved == Spec => []Conservation
<1>1. TypeOK /\ HandInv /\ QueueInv => Conservation
  <2> SUFFICES ASSUME TypeOK, HandInv, QueueInv PROVE Conservation
    OBVIOUS
  <2>1. /\ Waiting \in Seq(Jobs) /\ Elems(Waiting) = Elems(jobs) \cup Elems(local)
        /\ DOMAIN Waiting = 1..Len(Waiting)
    BY WaitingFacts, LenProperties
  <2>2. \A i, k \in DOMAIN Waiting : Waiting[i] = Waiting[k] => i = k
    BY <2>1 DEF QueueInv, Distinct
  <2> QED
    BY <2>1, <2>2 DEF Conservation, HandInv, QueueInv, Waiting
<1> QED
  BY <1>1, QueueInvHolds, TypeCorrect, PTL

-----------------------------------------------------------------------------
(* Worker implements JobQueue                                              *)

\* The map of the state of one job.
LEMMA PromisedIs ==
  ASSUME NEW j \in Jobs
  PROVE  /\ fate[j] = "offered" => Promised[j] = "fresh"
         /\ fate[j] = "lost" => Promised[j] = "dropped"
         /\ fate[j] \notin {"offered", "lost"} => Promised[j] = fate[j]
         /\ fate'[j] = "offered" => Promised'[j] = "fresh"
         /\ fate'[j] = "lost" => Promised'[j] = "dropped"
         /\ fate'[j] \notin {"offered", "lost"} => Promised'[j] = fate'[j]
  BY DEF Promised

\* Running the first jobs that wait is JobQueue's Run.
LEMMA TakenRuns ==
  ASSUME TypeOK, QueueInv, NEW n \in 1..Len(Waiting), Taken(n), UNCHANGED raced
  PROVE  Queue!Next
<1>1. /\ Waiting \in Seq(Jobs) /\ Len(Waiting) \in Nat /\ DOMAIN Waiting = 1..Len(Waiting)
  BY WaitingFacts, LenProperties
<1>2. Promised' = [j \in Jobs |-> IF j = Waiting[1] THEN "ran"
                                  ELSE IF \E i \in 2..n : j = Waiting[i] THEN "dropped"
                                  ELSE Promised[j]]
  <2> SUFFICES ASSUME NEW j \in Jobs
               PROVE  Promised'[j] = IF j = Waiting[1] THEN "ran"
                                     ELSE IF \E i \in 2..n : j = Waiting[i] THEN "dropped"
                                     ELSE Promised[j]
    BY DEF Promised
  <2>1. fate'[j] = IF j = Waiting[1] THEN "ran"
                   ELSE IF \E i \in 2..n : j = Waiting[i] THEN "dropped" ELSE fate[j]
    BY DEF Taken
  <2>2. CASE j = Waiting[1]
    BY <2>1, <2>2, PromisedIs
  <2>3. CASE j # Waiting[1] /\ \E i \in 2..n : j = Waiting[i]
    BY <2>1, <2>3, PromisedIs
  <2>4. CASE j # Waiting[1] /\ ~\E i \in 2..n : j = Waiting[i]
    BY <2>1, <2>4, PromisedIs
  <2> QED
    BY <2>2, <2>3, <2>4
<1>3. Queue!Run(n)
  BY <1>2 DEF Taken, Queue!Run, Waiting
<1> QED
  BY <1>3 DEF Queue!Next, Waiting

\* A race over job j is JobQueue's Race.
LEMMA TornRaces ==
  ASSUME TypeOK, HandInv, QueueInv, NEW c \in Callers, LinkTorn(c)
  PROVE  Queue!Race(hand[c])
<1> DEFINE j == hand[c]
<1>1. j \in Jobs /\ fate[j] = "offered" /\ raced' = TRUE /\ Promised[j] = "fresh"
  BY PromisedIs DEF LinkTorn, At, HandInv, TypeOK
<1>2. /\ Waiting \in Seq(Jobs) /\ Distinct(Waiting) /\ Len(Waiting) \in Nat
      /\ DOMAIN Waiting = 1..Len(Waiting) /\ j \notin Elems(Waiting)
  BY <1>1, WaitingFacts, LenProperties DEF QueueInv
<1>3. \A k \in Jobs : fate'[k] = IF k \in Elems(Waiting') THEN "queued"
                                 ELSE IF k = j \/ k \in Elems(Waiting) THEN "lost" ELSE fate[k]
  BY TornWaiting
<1>4. \A k \in Jobs : k \in Elems(Waiting) => Promised[k] = "queued"
  BY PromisedIs DEF QueueInv
<1> HIDE DEF j
<1>5. CASE Waiting' = Waiting
  <2>1. Promised' = [Promised EXCEPT ![j] = "dropped"]
    <3> SUFFICES ASSUME NEW k \in Jobs
                 PROVE  Promised'[k] = IF k = j THEN "dropped" ELSE Promised[k]
      BY DEF Promised
    <3>1. fate'[k] = IF k \in Elems(Waiting) THEN "queued" ELSE IF k = j THEN "lost" ELSE fate[k]
      BY <1>3, <1>5
    <3> QED
      BY <1>2, <1>4, <3>1, PromisedIs
  <2>2. Queue!Lose(j)
    BY <1>5, <2>1 DEF Queue!Lose, Waiting
  <2> QED
    BY <1>1, <2>2 DEF Queue!Race, j
<1>6. ASSUME NEW n \in 0..Len(Waiting), Waiting' = CutOff(Waiting, j, n)
      PROVE  Queue!Race(j)
  <2>1. Elems(Waiting') = {Waiting[k] : k \in 1..n} \cup {j}
    BY <1>1, <1>2, <1>6, NewAtOnePlace
  <2>2. \A k \in Jobs : (k \in Elems(Waiting) /\ k \notin Elems(Waiting')) <=>
                         (k # j /\ \E i \in (n + 1)..Len(Waiting) : k = Waiting[i])
    <3> SUFFICES ASSUME NEW k \in Jobs
                 PROVE  (k \in Elems(Waiting) /\ k \notin Elems(Waiting')) <=>
                        (k # j /\ \E i \in (n + 1)..Len(Waiting) : k = Waiting[i])
      OBVIOUS
    <3>1. ASSUME NEW i \in (n + 1)..Len(Waiting), k = Waiting[i]
          PROVE  k \in Elems(Waiting) /\ k # j /\ \A m \in 1..n : k # Waiting[m]
      <4>1. i \in 1..Len(Waiting) /\ \A m \in 1..n : m \in 1..Len(Waiting) /\ m # i
        BY <1>2
      <4> QED
        BY <1>2, <3>1, <4>1 DEF Elems, Distinct
    <3>2. ASSUME k \in Elems(Waiting), k \notin Elems(Waiting')
          PROVE  k # j /\ \E i \in (n + 1)..Len(Waiting) : k = Waiting[i]
      <4>1. PICK i \in 1..Len(Waiting) : k = Waiting[i]
        BY <1>2, <3>2 DEF Elems
      <4>2. i \in 1..n \/ i \in (n + 1)..Len(Waiting)
        BY <1>2
      <4> QED
        BY <2>1, <3>2, <4>1, <4>2
    <3> QED
      BY <2>1, <3>1, <3>2
  <2>3. Promised' = [k \in Jobs |-> IF k = j THEN "queued"
                                    ELSE IF \E i \in (n + 1)..Len(Waiting) : k = Waiting[i]
                                    THEN "dropped" ELSE Promised[k]]
    <3> SUFFICES ASSUME NEW k \in Jobs
                 PROVE  Promised'[k] = IF k = j THEN "queued"
                                       ELSE IF \E i \in (n + 1)..Len(Waiting) : k = Waiting[i]
                                       THEN "dropped" ELSE Promised[k]
      BY DEF Promised
    <3>1. CASE k = j
      BY <1>3, <2>1, <3>1, PromisedIs
    <3>2. CASE k # j /\ \E i \in (n + 1)..Len(Waiting) : k = Waiting[i]
      <4>1. fate'[k] = "lost"
        BY <1>3, <2>2, <3>2
      <4> QED
        BY <3>2, <4>1, PromisedIs
    <3>3. CASE k # j /\ ~\E i \in (n + 1)..Len(Waiting) : k = Waiting[i]
      <4>1. fate'[k] = IF k \in Elems(Waiting') THEN "queued" ELSE fate[k]
        BY <1>3, <2>2, <3>3
      <4>2. k \in Elems(Waiting') => k \in Elems(Waiting)
        <5>1. \A i \in 1..n : i \in DOMAIN Waiting
          BY <1>2
        <5> QED
          BY <2>1, <3>3, <5>1 DEF Elems
      <4> QED
        BY <1>4, <3>3, <4>1, <4>2, PromisedIs
    <3> QED
      BY <3>1, <3>2, <3>3
  <2>4. Queue!CutOff(j, n)
    BY <1>6, <2>3 DEF Queue!CutOff, CutOff, Waiting
  <2> QED
    BY <1>1, <2>4 DEF Queue!Race, Waiting, j
<1>7. ASSUME NEW n \in 0..Len(Waiting), Waiting' = GetAhead(Waiting, j, n)
      PROVE  Queue!Race(j)
  <2>1. Elems(Waiting') = Elems(Waiting) \cup {j}
    BY <1>1, <1>2, <1>7, NewAtOnePlace
  <2>2. Promised' = [Promised EXCEPT ![j] = "queued"]
    <3> SUFFICES ASSUME NEW k \in Jobs
                 PROVE  Promised'[k] = IF k = j THEN "queued" ELSE Promised[k]
      BY DEF Promised
    <3>1. fate'[k] = IF k \in Elems(Waiting) \cup {j} THEN "queued" ELSE fate[k]
      BY <1>3, <2>1
    <3> QED
      BY <1>4, <3>1, PromisedIs
  <2>3. Queue!GetAhead(j, n)
    BY <1>7, <2>2 DEF Queue!GetAhead, GetAhead, CutOff, Waiting
  <2> QED
    BY <1>1, <2>3 DEF Queue!Race, Waiting, j
<1> QED
  BY <1>5, <1>6, <1>7, TornWaiting DEF j

\* The promise of JobQueue: what pushJob accepts starts at most once; and in the
\* order of acceptance, all of it, and is refused only for a list that is full,
\* until two mutations of the list have raced.
THEOREM WorkerImplementsQueue == Spec => ImplementsQueue
<1>1. Init => Queue!Init
  <2> SUFFICES ASSUME Init PROVE Queue!Init
    OBVIOUS
  <2>1. local \o jobs = <<>>
    BY DEF Init
  <2>2. Promised = [j \in Jobs |-> "fresh"]
    BY DEF Init, Promised
  <2>3. ~raced = TRUE
    BY DEF Init
  <2> QED
    BY <2>1, <2>2, <2>3 DEF Queue!Init
<1>2. TypeOK /\ BatchInv /\ HandInv /\ QueueInv /\ [Next]_vars => [Queue!Next]_(Queue!vars)
  <2> SUFFICES ASSUME TypeOK, BatchInv, HandInv, QueueInv, [Next]_vars
               PROVE  Queue!Next \/ (Waiting' = Waiting /\ Promised' = Promised /\ raced' = raced)
    <3> SUFFICES ASSUME Waiting' = Waiting, Promised' = Promised, raced' = raced
                 PROVE  UNCHANGED Queue!vars
      OBVIOUS
    <3>1. UNCHANGED (local \o jobs)
      BY DEF Waiting
    <3>2. UNCHANGED (~raced)
      OBVIOUS
    <3> QED
      BY <3>1, <3>2 DEF Queue!vars
  <2>1. CASE \E c \in Callers, j \in Jobs : Offer(c, j)
    <3> PICK c \in Callers, j \in Jobs : Offer(c, j)
      BY <2>1
    <3>1. /\ fate[j] = "fresh" /\ fate' = [fate EXCEPT ![j] = "offered"]
          /\ Waiting' = Waiting /\ raced' = raced
      BY DEF Offer, chainVars, Waiting
    <3>2. Promised' = Promised
      BY <3>1, PromisedIs DEF Promised, TypeOK
    <3> QED
      BY <3>1, <3>2
  <2>2. CASE \E c \in Callers, j \in Jobs : Refuse(c, j)
    <3> PICK c \in Callers, j \in Jobs : Refuse(c, j)
      BY <2>2
    <3>1. /\ fate[j] = "fresh" /\ fate' = [fate EXCEPT ![j] = "refused"]
          /\ Waiting' = Waiting /\ raced' = raced /\ ~(size <= MaxJob)
      BY DEF Refuse, HasRoom, listVars, batchVars, Waiting
    <3>2. ~raced => Len(Waiting) > MaxJob
      <4>1. Len(local) \in Nat /\ Len(jobs) \in Nat /\ MaxJob \in Nat /\ size \in Nat
        BY WorkerAssumption, LenProperties DEF TypeOK
      <4>2. ~raced => size <= Len(local) + Len(jobs)
        <5>1. ~raced => size = Len(local) \/ size = Len(jobs)
          BY DEF TypeOK, Sized
        <5> QED
          BY <4>1, <5>1
      <4> QED
        BY <3>1, <4>1, <4>2, WaitingFacts
    <3>3. Promised[j] = "fresh" /\ Promised' = [Promised EXCEPT ![j] = "refused"]
      BY <3>1, PromisedIs DEF Promised, TypeOK
    <3>4. Queue!Refuse(j)
      BY <3>1, <3>2, <3>3 DEF Queue!Refuse, Waiting
    <3> QED
      BY <3>4 DEF Queue!Next
  <2>3. CASE \E c \in Callers : PushBack(c)
    <3> PICK c \in Callers : PushBack(c)
      BY <2>3
    <3> DEFINE j == hand[c]
    <3>1. j \in Jobs /\ fate[j] = "offered" /\ Promised[j] = "fresh"
      BY PushBackFacts, PromisedIs DEF HandInv
    <3>2. CASE Link(c)
      <4>1. fate' = [fate EXCEPT ![j] = "queued"] /\ raced' = raced
        BY <3>2 DEF Link
      <4>2. Waiting' = Append(Waiting, j)
        BY <3>2, LinkAppends
      <4>3. Promised' = [Promised EXCEPT ![j] = "queued"]
        <5> HIDE DEF j
        <5> QED
          BY <3>1, <4>1, PromisedIs DEF Promised, TypeOK
      <4>4. Queue!Accept(j)
        BY <3>1, <4>1, <4>2, <4>3 DEF Queue!Accept, Waiting
      <4> QED
        BY <3>1, <4>4 DEF Queue!Next
    <3>3. CASE LinkAstray(c)
      <4>1. fate' = [fate EXCEPT ![j] = "lost"] /\ raced' = raced /\ raced /\ Waiting' = Waiting
        BY <3>3 DEF LinkAstray, chainVars, TypeOK, Sized, Waiting
      <4>2. Promised' = [Promised EXCEPT ![j] = "dropped"]
        <5> HIDE DEF j
        <5> QED
          BY <3>1, <4>1, PromisedIs DEF Promised, TypeOK
      <4>3. Queue!Race(j)
        BY <3>1, <4>1, <4>2 DEF Queue!Race, Queue!Lose, Waiting
      <4> QED
        BY <3>1, <4>3 DEF Queue!Next
    <3>4. CASE LinkTorn(c)
      BY <3>1, <3>4, TornRaces DEF Queue!Next
    <3> QED
      BY <3>2, <3>3, <3>4 DEF PushBack
  <2>4. CASE Swap
    <3>1. /\ local = <<>> /\ local' = jobs /\ jobs' = <<>> /\ jobs \in Seq(Jobs)
          /\ fate' = fate /\ raced' = raced
      BY <2>4 DEF Swap, TakeList, Goto, BatchInv, TypeOK
    <3>2. Waiting' = Waiting
      BY <3>1, ConcatEmptySeq DEF Waiting
    <3> QED
      BY <3>1, <3>2 DEF Promised
  <2>5. CASE Invoke
    BY <2>5, InvokeTakes, TakenRuns DEF Taken, Invoke, listVars
  <2>6. CASE InvokeThrows
    BY <2>6, InvokeThrowsTakes, TakenRuns DEF Taken, InvokeThrows, listVars
  <2>7. CASE Join
    <3>1. /\ local = <<>> /\ local' = <<>> /\ jobs' = <<>> /\ jobs \in Seq(Jobs)
          /\ fate' = [j \in Jobs |-> IF j \in Elems(jobs) THEN "dropped" ELSE fate[j]]
          /\ raced' = raced
      BY <2>7 DEF Join, BatchInv, batchVars, TypeOK
    <3>2. Waiting' = <<>> /\ Waiting = jobs
      BY <3>1, ConcatEmptySeq DEF Waiting
    <3>3. Promised' = [j \in Jobs |-> IF j \in Elems(Waiting) THEN "dropped" ELSE Promised[j]]
      BY <3>1, <3>2, PromisedIs DEF Promised
    <3>4. Queue!Close
      BY <3>1, <3>2, <3>3 DEF Queue!Close, Queue!Queued, Elems, Waiting
    <3> QED
      BY <3>4 DEF Queue!Next
  <2>8. CASE \/ \E c \in Callers : Notify(c)
             \/ Test \/ Predicate \/ Block \/ SpuriousWake \/ Relock \/ Check \/ SwapSize
             \/ EndBatch \/ Overrun \/ Interrupt \/ NotifyInterrupt
             \/ UNCHANGED vars
    <3>1. UNCHANGED <<jobs, local, fate, raced>>
      BY <2>8 DEF Notify, Test, Predicate, Block, SpuriousWake, Relock, Check, SwapSize, EndBatch,
                  Overrun, Interrupt, NotifyInterrupt, workerFrame, listVars, batchVars, chainVars,
                  vars
    <3> QED
      BY <3>1 DEF Waiting, Promised
  <2> QED
    BY StepCases, <2>1, <2>2, <2>3, <2>4, <2>5, <2>6, <2>7, <2>8
<1> QED
  BY <1>1, <1>2, TypeCorrect, BatchInvHolds, QueueInvHolds, PTL
     DEF Spec, ImplementsQueue, Queue!Spec
=============================================================================
