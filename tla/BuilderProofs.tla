---------------------------- MODULE BuilderProofs ----------------------------
(***************************************************************************)
(* Proofs about DataLinkBuilder, for every set of builders, every number of*)
(* streams the device serves and every maxJob: what becomes of the handles,*)
(* and when the callback of StartScan can outlive its link.                *)
(***************************************************************************)
EXTENDS DataLinkBuilder, SequenceTheorems, TLAPS

-----------------------------------------------------------------------------
(* The commands on their way: the worker's list, what it handed over, and  *)
(* the command being answered.                                             *)

BuilderCommands(c) == HandleCommands \cup {RequestOf(c)}

Jobs == {job \in [client : Builders \cup {Operator}, command : CommandNames, lookup : BOOLEAN] :
           IF job.client = Operator THEN job.command \in OtherCommands
                                    ELSE job.command \in BuilderCommands(job.client)}

Is(job, c, command) == job.client = c /\ job.command = command

Listed(q, c, command) == \E i \in 1..Len(q) : Is(q[i], c, command)
Answering(c, command) == io.at = "answering" /\ Is(io.job, c, command)

OnItsWay(c, command) == Listed(jobs, c, command) \/ Listed(pending, c, command)
                        \/ Answering(c, command)

\* A builder has each command at most once in a list.
Unique(q) == \A i, k \in 1..Len(q) :
               q[i].client \in Builders /\ Is(q[k], q[i].client, q[i].command) => i = k

\* StartScan, when it does not look up the endpoints, and what is submitted after
\* it.
Start(c) == Job(c, "StartScanOutput")
Later == {"StopScanOutput", "ReleaseHandle"}

In(q, job) == \E i \in 1..Len(q) : q[i] = job

InOrder(q) == \A c \in Builders, command \in Later : \A i, k \in 1..Len(q) :
                q[i] = Start(c) /\ Is(q[k], c, command) => i < k

-----------------------------------------------------------------------------
(* What pushing, handing over and taking do to a list.                     *)

LEMMA JobIsJob ==
  ASSUME NEW c \in Builders \cup {Operator}, NEW command \in CommandNames,
         IF c = Operator THEN command \in OtherCommands ELSE command \in BuilderCommands(c)
  PROVE  /\ Job(c, command) \in Jobs
         /\ Job(c, command).client = c /\ Job(c, command).command = command
         /\ ~Job(c, command).lookup
  BY DEF Job, Jobs

LEMMA AppendFacts ==
  ASSUME NEW q \in Seq(Jobs), NEW job \in Jobs
  PROVE  LET longer == Append(q, job)
         IN  /\ longer \in Seq(Jobs) /\ Len(longer) = Len(q) + 1
             /\ \A c, command :
                  Listed(longer, c, command) <=> Listed(q, c, command) \/ Is(job, c, command)
             /\ \A other : In(longer, other) <=> In(q, other) \/ other = job
             /\ Unique(q) /\ (job.client \in Builders => ~Listed(q, job.client, job.command))
                  => Unique(longer)
             /\ InOrder(q) /\ (\A c \in Builders, command \in Later :
                                 job = Start(c) => ~Listed(q, c, command) /\ ~Is(job, c, command))
                  => InOrder(longer)
             /\ \A i \in 1..Len(longer) : longer[i] = IF i = Len(longer) THEN job ELSE q[i]
<1> DEFINE longer == Append(q, job)
<1>1. /\ longer \in Seq(Jobs) /\ Len(longer) = Len(q) + 1 /\ Len(q) \in Nat
      /\ \A i \in 1..Len(longer) : longer[i] = IF i = Len(longer) THEN job ELSE q[i]
  BY AppendProperties, LenProperties
<1> HIDE DEF longer
<1>2. /\ \A c, command :
           Listed(longer, c, command) <=> Listed(q, c, command) \/ Is(job, c, command)
      /\ \A other : In(longer, other) <=> In(q, other) \/ other = job
  BY <1>1 DEF Listed, In
<1>3. Unique(q) /\ (job.client \in Builders => ~Listed(q, job.client, job.command))
        => Unique(longer)
  BY <1>1 DEF Unique, Listed, Is
<1>4. InOrder(q) /\ (\A c \in Builders, command \in Later :
                       job = Start(c) => ~Listed(q, c, command) /\ ~Is(job, c, command))
        => InOrder(longer)
  BY <1>1 DEF InOrder, Listed
<1> QED
  BY <1>1, <1>2, <1>3, <1>4 DEF longer

LEMMA RemoveFacts ==
  ASSUME NEW q \in Seq(Jobs), NEW n \in 1..Len(q)
  PROVE  LET shorter == RemoveAt(q, n)
         IN  /\ shorter \in Seq(Jobs) /\ q[n] \in Jobs
             /\ \A c, command :
                  Listed(q, c, command) <=> Listed(shorter, c, command) \/ Is(q[n], c, command)
             /\ \A other : In(shorter, other) => \E i \in (1..Len(q)) \ {n} : q[i] = other
             /\ Unique(q) => /\ Unique(shorter)
                             /\ q[n].client \in Builders
                                  => ~Listed(shorter, q[n].client, q[n].command)
             /\ InOrder(q) => InOrder(shorter)
<1> DEFINE shorter == RemoveAt(q, n)
           From(i) == IF i < n THEN i ELSE i + 1
<1>1. /\ shorter \in Seq(Jobs) /\ Len(shorter) = Len(q) - 1 /\ Len(q) \in Nat
      /\ \A i \in 1..Len(shorter) : shorter[i] = q[From(i)]
  <2> DEFINE front == SubSeq(q, 1, n - 1)
             back == SubSeq(q, n + 1, Len(q))
  <2>1. Len(q) \in Nat /\ \A i \in 1..Len(q) : q[i] \in Jobs
    BY LenProperties, ElementOfSeq
  <2>2. front \in Seq(Jobs) /\ Len(front) = n - 1 /\ \A i \in 1..(n - 1) : front[i] = q[i]
    BY <2>1, SubSeqProperties
  <2>3. /\ back \in Seq(Jobs) /\ Len(back) = Len(q) - n
        /\ \A i \in 1..(Len(q) - n) : back[i] = q[n + i]
    BY <2>1, SubSeqProperties
  <2>4. shorter = front \o back
    BY DEF RemoveAt
  <2> HIDE DEF front, back, shorter
  <2>5. /\ shorter \in Seq(Jobs) /\ Len(shorter) = Len(front) + Len(back)
        /\ \A i \in 1..Len(front) + Len(back) :
             shorter[i] = IF i <= Len(front) THEN front[i] ELSE back[i - Len(front)]
    BY <2>2, <2>3, <2>4, ConcatProperties
  <2>6. \A i \in 1..Len(q) - 1 : /\ i <= n - 1 => i \in 1..(n - 1)
                                 /\ i > n - 1 => /\ i - (n - 1) \in 1..(Len(q) - n)
                                                 /\ n + (i - (n - 1)) = i + 1
    BY <2>1
  <2>7. Len(shorter) = Len(q) - 1
    BY <2>1, <2>2, <2>3, <2>5
  <2>8. ASSUME NEW i \in 1..Len(shorter)
        PROVE  shorter[i] = q[From(i)]
    <3>1. CASE i <= n - 1
      BY <3>1, <2>2, <2>3, <2>5, <2>6, <2>7
    <3>2. CASE i > n - 1
      <4>1. shorter[i] = back[i - (n - 1)]
        BY <3>2, <2>2, <2>5
      <4>2. back[i - (n - 1)] = q[i + 1]
        BY <3>2, <2>3, <2>6, <2>7
      <4> QED
        BY <3>2, <4>1, <4>2
    <3> QED
      BY <3>1, <3>2
  <2> QED
    BY <2>1, <2>5, <2>7, <2>8
<1> HIDE DEF shorter
<1>2. \A i \in 1..Len(shorter) : From(i) \in (1..Len(q)) \ {n}
  BY <1>1
<1>3. \A k \in (1..Len(q)) \ {n} : \E i \in 1..Len(shorter) : From(i) = k
  <2> TAKE k \in (1..Len(q)) \ {n}
  <2> DEFINE i == IF k < n THEN k ELSE k - 1
  <2>1. i \in 1..Len(shorter) /\ From(i) = k
    BY <1>1
  <2> QED
    BY <2>1
<1>4. \A i, k \in 1..Len(shorter) : From(i) < From(k) <=> i < k
  BY <1>1
<1> HIDE DEF From
<1>5. q[n] \in Jobs
  BY ElementOfSeq
<1>6. /\ \A c, command :
           Listed(q, c, command) <=> Listed(shorter, c, command) \/ Is(q[n], c, command)
      /\ \A other : In(shorter, other) => \E i \in (1..Len(q)) \ {n} : q[i] = other
  BY <1>1, <1>2, <1>3 DEF Listed, In
<1>7. Unique(q) => /\ Unique(shorter)
                   /\ q[n].client \in Builders => ~Listed(shorter, q[n].client, q[n].command)
  <2> SUFFICES ASSUME Unique(q)
               PROVE  /\ Unique(shorter)
                      /\ q[n].client \in Builders
                           => ~Listed(shorter, q[n].client, q[n].command)
    OBVIOUS
  <2>1. Unique(shorter)
    <3> SUFFICES ASSUME NEW i \in 1..Len(shorter), NEW k \in 1..Len(shorter),
                        shorter[i].client \in Builders,
                        Is(shorter[k], shorter[i].client, shorter[i].command)
                 PROVE  i = k
      BY DEF Unique
    <3>1. From(i) = From(k)
      BY <1>1, <1>2 DEF Unique
    <3> QED
      BY <3>1, <1>1 DEF From
  <2>2. q[n].client \in Builders => ~Listed(shorter, q[n].client, q[n].command)
    BY <1>1, <1>2 DEF Unique, Listed
  <2> QED
    BY <2>1, <2>2
<1>8. InOrder(q) => InOrder(shorter)
  BY <1>1, <1>2, <1>4 DEF InOrder
<1> QED
  BY <1>1, <1>5, <1>6, <1>7, <1>8 DEF shorter

\* The worker hands over its list behind the commands that are pending.
LEMMA HandOverFacts ==
  ASSUME jobs \in Seq(Jobs), pending \in Seq(Jobs), NEW n \in Int,
         \A i \in 1..Len(jobs) : ~jobs[i].lookup
  PROVE  LET all == HandedOver(n)
         IN  /\ all \in Seq(Jobs)
             /\ \A c, command :
                  Listed(all, c, command)
                  <=> Listed(pending, c, command) \/ Listed(jobs, c, command)
             /\ \A c \in Builders : In(all, Start(c)) => In(pending, Start(c)) \/ In(jobs, Start(c))
             /\ Unique(pending) /\ Unique(jobs)
                  /\ (\A c \in Builders, command \in CommandNames :
                        ~(Listed(pending, c, command) /\ Listed(jobs, c, command)))
                  => Unique(all)
             /\ InOrder(pending) /\ InOrder(jobs)
                  /\ (\A c \in Builders, command \in Later :
                        ~(In(jobs, Start(c)) /\ Listed(pending, c, command)))
                  => InOrder(all)
<1> DEFINE all == HandedOver(n)
           marked == [i \in DOMAIN jobs |-> [jobs[i] EXCEPT !.lookup = (i <= n)]]
           Same(a, b) == a.client = b.client /\ a.command = b.command
<1>1. /\ Len(jobs) \in Nat /\ Len(pending) \in Nat /\ DOMAIN jobs = 1..Len(jobs)
      /\ \A i \in 1..Len(jobs) : jobs[i] \in Jobs
      /\ \A i \in 1..Len(pending) : pending[i] \in Jobs
  BY LenProperties, ElementOfSeq
<1>2. \A i \in 1..Len(jobs) : /\ marked[i] \in Jobs /\ Same(marked[i], jobs[i])
                              /\ \A c : marked[i] = Start(c) => jobs[i] = Start(c)
  <2> TAKE i \in 1..Len(jobs)
  <2>1. jobs[i] = [client |-> jobs[i].client, command |-> jobs[i].command, lookup |-> FALSE]
    BY <1>1 DEF Jobs
  <2>2. marked[i] = [client |-> jobs[i].client, command |-> jobs[i].command, lookup |-> (i <= n)]
    BY <1>1, <2>1
  <2>3. Same(marked[i], jobs[i])
    BY <2>2
  <2>4. marked[i] \in Jobs
    <3>1. /\ jobs[i].client \in Builders \cup {Operator} /\ jobs[i].command \in CommandNames
          /\ IF jobs[i].client = Operator THEN jobs[i].command \in OtherCommands
                                          ELSE jobs[i].command \in BuilderCommands(jobs[i].client)
      BY <1>1 DEF Jobs
    <3>2. \E mark \in BOOLEAN : marked[i] = [client |-> jobs[i].client,
                                            command |-> jobs[i].command, lookup |-> mark]
      <4>1. CASE i <= n
        <5>1. (i <= n) = TRUE
          BY <4>1
        <5> QED
          BY <5>1, <2>2, Zenon
      <4>2. CASE ~(i <= n)
        <5>1. (i <= n) = FALSE
          BY <4>2
        <5> QED
          BY <5>1, <2>2, Zenon
      <4> QED
        BY <4>1, <4>2
    <3>3. marked[i] \in [client : Builders \cup {Operator}, command : CommandNames,
                         lookup : BOOLEAN]
      BY <3>1, <3>2
    <3> QED
      BY <2>3, <3>1, <3>3 DEF Jobs
  <2>5. ASSUME NEW c, marked[i] = Start(c)
        PROVE  jobs[i] = Start(c)
    <3>1. jobs[i].client = c /\ jobs[i].command = "StartScanOutput"
      BY <2>2, <2>5 DEF Start, Job
    <3> QED
      BY <2>1, <3>1 DEF Start, Job
  <2> QED
    BY <2>3, <2>4, <2>5
<1>3. marked \in Seq(Jobs) /\ Len(marked) = Len(jobs)
  BY <1>1, <1>2, IsASeq
<1>4. all = pending \o marked
  BY DEF HandedOver
<1> HIDE DEF all, marked
<1>5. /\ all \in Seq(Jobs) /\ Len(all) = Len(pending) + Len(marked)
      /\ \A i \in 1..Len(pending) + Len(marked) :
           all[i] = IF i <= Len(pending) THEN pending[i] ELSE marked[i - Len(pending)]
  <2>1. pending \in Seq(Jobs) /\ marked \in Seq(Jobs)
    BY <1>3
  <2> HIDE DEF Jobs
  <2> QED
    BY ONLY <2>1, <1>4, ConcatProperties
<1> DEFINE InFront(i) == i \in 1..Len(pending) /\ all[i] = pending[i]
           At(i) == i - Len(pending)
           InBack(i) == /\ At(i) \in 1..Len(jobs) /\ i = Len(pending) + At(i)
                        /\ Same(all[i], jobs[At(i)])
                        /\ \A c : all[i] = Start(c) => jobs[At(i)] = Start(c)
<1>6. /\ \A i \in 1..Len(all) : InFront(i) \/ InBack(i)
      /\ \A i \in 1..Len(pending) : i \in 1..Len(all) /\ InFront(i)
      /\ \A i \in 1..Len(jobs) : Len(pending) + i \in 1..Len(all)
                                 /\ Same(all[Len(pending) + i], jobs[i])
  <2>1. ASSUME NEW i \in 1..Len(all), i > Len(pending)
        PROVE  InBack(i)
    <3>1. At(i) \in 1..Len(jobs) /\ i = Len(pending) + At(i) /\ all[i] = marked[At(i)]
      BY <2>1, <1>1, <1>3, <1>5
    <3> QED
      BY <3>1, <1>2
  <2>2. ASSUME NEW i \in 1..Len(pending)
        PROVE  i \in 1..Len(all) /\ InFront(i)
    BY <1>1, <1>3, <1>5
  <2>3. ASSUME NEW i \in 1..Len(jobs)
        PROVE  Len(pending) + i \in 1..Len(all) /\ Same(all[Len(pending) + i], jobs[i])
    <3>1. /\ Len(pending) + i \in 1..Len(all) /\ Len(pending) + i > Len(pending)
          /\ At(Len(pending) + i) = i
      BY <1>1, <1>3, <1>5
    <3> QED
      BY <3>1, <2>1
  <2> QED
    BY <2>1, <2>2, <2>3, <1>1, <1>3, <1>5
<1>7. \A i \in 1..Len(all) : all[i] \in Jobs
  BY <1>5, ElementOfSeq
<1> HIDE DEF At
<1>8. \A c, command :
        Listed(all, c, command) <=> Listed(pending, c, command) \/ Listed(jobs, c, command)
  <2> TAKE c, command
  <2>1. ASSUME NEW i \in 1..Len(all), Is(all[i], c, command)
        PROVE  Listed(pending, c, command) \/ Listed(jobs, c, command)
    BY <2>1, <1>6 DEF Listed, Is
  <2>2. Listed(pending, c, command) => Listed(all, c, command)
    BY <1>6 DEF Listed
  <2>3. ASSUME NEW i \in 1..Len(jobs), Is(jobs[i], c, command)
        PROVE  Listed(all, c, command)
    <3>1. Len(pending) + i \in 1..Len(all) /\ Same(all[Len(pending) + i], jobs[i])
      BY <1>6
    <3>2. Is(all[Len(pending) + i], c, command)
      BY <2>3, <3>1 DEF Is
    <3> QED
      BY <3>1, <3>2 DEF Listed
  <2> QED
    BY <2>1, <2>2, <2>3 DEF Listed
<1>9. \A c \in Builders : In(all, Start(c)) => In(pending, Start(c)) \/ In(jobs, Start(c))
  BY <1>6 DEF In
<1>10. ASSUME Unique(pending), Unique(jobs),
              \A c \in Builders, command \in CommandNames :
                ~(Listed(pending, c, command) /\ Listed(jobs, c, command))
       PROVE  Unique(all)
  <2> SUFFICES ASSUME NEW i \in 1..Len(all), NEW k \in 1..Len(all), all[i].client \in Builders,
                      Is(all[k], all[i].client, all[i].command)
               PROVE  i = k
    BY DEF Unique
  <2>1. all[i].command \in CommandNames
    BY <1>7 DEF Jobs
  <2>2. CASE InFront(i) /\ InFront(k)
    <3>1. /\ pending[i].client \in Builders
          /\ Is(pending[k], pending[i].client, pending[i].command)
      BY <2>2
    <3>2. Unique(pending)
      BY <1>10
    <3> QED
      BY <2>2, <3>1, <3>2 DEF Unique
  <2>3. ~(InFront(i) /\ InBack(k))
    BY <2>1, <1>10 DEF Listed, Is
  <2>4. ~(InBack(i) /\ InFront(k))
    BY <2>1, <1>10 DEF Listed, Is
  <2>5. CASE InBack(i) /\ InBack(k)
    <3>1. At(i) = At(k)
      BY <2>5, <1>10 DEF Unique, Is
    <3> QED
      BY <3>1, <2>5
  <2> QED
    BY <2>2, <2>3, <2>4, <2>5, <1>6
<1>11. ASSUME InOrder(pending), InOrder(jobs),
              \A c \in Builders, command \in Later :
                ~(In(jobs, Start(c)) /\ Listed(pending, c, command))
       PROVE  InOrder(all)
  <2> SUFFICES ASSUME NEW c \in Builders, NEW command \in Later,
                      NEW i \in 1..Len(all), NEW k \in 1..Len(all),
                      all[i] = Start(c), Is(all[k], c, command)
               PROVE  i < k
    BY DEF InOrder
  <2>1. CASE InFront(i) /\ InFront(k)
    BY <2>1, <1>11 DEF InOrder
  <2>2. CASE InFront(i) /\ InBack(k)
    BY <2>2, <1>1
  <2>3. ~(InBack(i) /\ InFront(k))
    BY <1>11 DEF Listed, In
  <2>4. CASE InBack(i) /\ InBack(k)
    <3>1. At(i) < At(k)
      BY <2>4, <1>11 DEF InOrder, Is
    <3> QED
      BY <2>4, <3>1, <1>1
  <2> QED
    BY <2>1, <2>2, <2>3, <2>4, <1>6
<1> QED
  BY <1>5, <1>8, <1>9, <1>10, <1>11 DEF all

\* What the list has beyond MaxJob was appended by as many clients.
Spread == \A i, j \in DOMAIN jobs : MaxJob < i /\ i < j => jobs[i].client # jobs[j].client

\* What a step that submits a command does to the worker's list, whether the
\* worker refuses it or not.
LEMMA PushFacts ==
  ASSUME jobs \in Seq(Jobs), Spread, NEW job \in Jobs, Push(job)
  PROVE  /\ jobs' \in Seq(Jobs) /\ Spread'
         /\ \A c, command :
              Listed(jobs', c, command) => Listed(jobs, c, command) \/ Is(job, c, command)
         /\ \A other : In(jobs', other) => In(jobs, other) \/ other = job
         /\ Unique(jobs) /\ (job.client \in Builders => ~Listed(jobs, job.client, job.command))
              => Unique(jobs')
         /\ InOrder(jobs) /\ (\A c \in Builders, command \in Later :
                                job = Start(c) => ~Listed(jobs, c, command) /\ ~Is(job, c, command))
              => InOrder(jobs')
         /\ \A i \in 1..Len(jobs') : jobs'[i] = job \/ (i \in 1..Len(jobs) /\ jobs'[i] = jobs[i])
<1> USE BuilderAssumption
<1>1. Len(jobs) \in Nat
  BY LenProperties
<1>2. CASE Refused
  <2>1. jobs' = jobs
    BY <1>2 DEF Refused
  <2> QED
    BY <2>1, <1>1 DEF Spread
<1>3. CASE Accepted(job)
  <2>1. jobs' = Append(jobs, job) /\ MayAppend(job.client)
    BY <1>3 DEF Accepted
  <2>2. jobs \in Seq(Jobs) /\ job \in Jobs
    OBVIOUS
  <2>3. Len(jobs') = Len(jobs) + 1
    BY ONLY <2>1, <2>2, AppendFacts
  <2>4. /\ jobs' \in Seq(Jobs)
        /\ \A c, command :
             Listed(jobs', c, command) <=> Listed(jobs, c, command) \/ Is(job, c, command)
        /\ \A other : In(jobs', other) <=> In(jobs, other) \/ other = job
        /\ \A i \in 1..Len(jobs') : jobs'[i] = IF i = Len(jobs') THEN job ELSE jobs[i]
    BY ONLY <2>1, <2>2, AppendFacts
  <2>5. Unique(jobs) /\ (job.client \in Builders => ~Listed(jobs, job.client, job.command))
          => Unique(jobs')
    BY ONLY <2>1, <2>2, AppendFacts
  <2>6. InOrder(jobs) /\ (\A c \in Builders, command \in Later :
                            job = Start(c) => ~Listed(jobs, c, command) /\ ~Is(job, c, command))
          => InOrder(jobs')
    BY ONLY <2>1, <2>2, AppendFacts
  <2>7. ASSUME NEW i \in 1..Len(jobs')
        PROVE  jobs'[i] = job \/ (i \in 1..Len(jobs) /\ jobs'[i] = jobs[i])
    <3>1. i = Len(jobs') \/ i \in 1..Len(jobs)
      BY <1>1, <2>3
    <3> QED
      BY <3>1, <2>3, <2>4
  <2>8. Spread'
    <3> SUFFICES ASSUME NEW i \in 1..Len(jobs'), NEW j \in 1..Len(jobs'), MaxJob < i, i < j
                 PROVE  jobs'[i].client # jobs'[j].client
      BY <2>4 DEF Spread
    <3>1. i \in 1..Len(jobs) /\ jobs'[i] = jobs[i] /\ i > MaxJob
      BY <1>1, <2>3, <2>4
    <3>2. CASE j = Len(jobs')
      <4>1. jobs'[j] = job
        BY <2>4, <3>2
      <4> QED
        BY <2>1, <3>1, <4>1 DEF MayAppend
    <3>3. CASE j # Len(jobs')
      <4>1. j \in 1..Len(jobs) /\ jobs'[j] = jobs[j]
        BY <1>1, <2>3, <2>4, <3>3
      <4> QED
        BY <3>1, <4>1 DEF Spread
    <3> QED
      BY <3>2, <3>3
  <2> QED
    BY <1>1, <2>1, <2>3, <2>4, <2>5, <2>6, <2>7, <2>8
<1> QED
  BY <1>2, <1>3 DEF Push

-----------------------------------------------------------------------------
(* The answers *)

LEMMA AnswerResults ==
  ASSUME NEW job \in Jobs, NEW outcome \in Outcomes
  PROVE  /\ AnswerTo(job, outcome).result \in Results
         /\ AnswerNow(job, outcome).result \in Results
  BY DEF Outcomes, AnswerTo, AnswerNow, Asynchronously, Synchronously, HttpGet, ExchangeOf, Whole,
         Parsed, requestResultFromCode, Unparsable, Failure, Answer, Results, NoStatus

\* An executor tells a result of the answer or throws, and a known version.
LEMMA Tellings ==
  ASSUME NEW command \in CommandNames, NEW a, a.result \in Results
  PROVE  /\ Completed(command, a).result \in Results \cup {"exception"}
         /\ Completed(command, a).version \in Versions
         /\ CompletedNow(command, a).result \in Results \cup {"exception"}
         /\ CompletedNow(command, a).version \in Versions
         /\ Delivered(command, a)[1].result \in Results \cup {"exception"}
         /\ Delivered(command, a)[1].version \in Versions
         /\ Len(Delivered(command, a)) = 1
<1>1. \A major, minor \in Nat : ProtocolVersion(major, minor) \in Versions
  BY DEF ProtocolVersion, Versions
<1>2. 0 \in Versions
  BY DEF Versions
<1> DEFINE Fine(t) == t.result \in Results \cup {"exception"} /\ t.version \in Versions
<1>3. \A fields : \A result \in Results \cup {"exception"} : Fine(Told(result, fields))
  BY <1>2 DEF Told
<1>4. Fine(Throws)
  BY <1>3 DEF Throws
<1>5. \A b : b.result \in Results =>
         Fine(ResultOnly(b)) /\ Fine(GetProtocolInfo(b)) /\ Fine(GetParameters(b))
         /\ Fine(FetchParameterList(b)) /\ Fine(RequestTcpHandle(b)) /\ Fine(RequestUdpHandle(b))
  BY <1>3, <1>4 DEF ResultOnly, GetProtocolInfo, GetParameters, FetchParameterList,
                    RequestTcpHandle, RequestUdpHandle, Extracted
<1>6. \A info : info.result \in Results => Fine(VersionOf(info))
  BY <1>1, <1>2, <1>4, VersionAssumption DEF VersionOf, Told
<1>7. \A b : b.result \in Results => Fine(GetProtocolVersion(b)) /\ Fine(GetProtocolVersionNow(b))
  <2> TAKE b
  <2> HAVE b.result \in Results
  <2>1. GetProtocolInfo(b).result \in Results
    BY DEF GetProtocolInfo, ResultOnly, Told
  <2> QED
    BY <1>5, <1>6, <2>1 DEF GetProtocolVersion, GetProtocolVersionNow
<1> HIDE DEF Fine
<1>8. \A b : b.result \in Results => Fine(Completed(command, b))
  BY <1>5, <1>7
     DEF Completed, ReleaseHandle, StartScanOutput, StopScanOutput, FeedWatchdog, SetParameters,
         FactoryResetDevice, RebootDevice, GetScanOutputConfig, SetScanOutputConfig,
         CommandNames, HandleCommands, RequestCommands, OtherCommands
<1>9. Fine(CompletedNow(command, a))
  BY <1>7, <1>8 DEF CompletedNow
<1>10. Fine(Delivered(command, a)[1]) /\ Len(Delivered(command, a)) = 1
  <2>1. Answer("FAILED", {}).result \in Results
    BY DEF Answer, Results
  <2> QED
    BY <1>8, <2>1 DEF Delivered
<1> QED
  BY <1>8, <1>9, <1>10 DEF Fine

-----------------------------------------------------------------------------
(* Types.  The parts of TypeOK are kept apart.                             *)

Phases == {"idle", "building", "linked", "failed", "stopping", "stopped", "unstopped",
           "releasing", "closed"}

Sets == dropped \cup held \cup revoked \cup lost \cup cut \subseteq Builders

Places == complete \in [Builders -> BOOLEAN] /\ phase \in [Builders -> Phases]
          /\ crashed \in BOOLEAN

\* The worker has not looked up anything for the commands it has not taken.
Queues == /\ jobs \in Seq(Jobs) /\ pending \in Seq(Jobs) /\ Spread
          /\ \A i \in 1..Len(jobs) : ~jobs[i].lookup

Completing == /\ io.at \in {"idle", "answering", "destroying"} /\ io.answer.result \in Results
              /\ io.at # "idle" => io.job \in Jobs

\* The promise of a build is not set before the build has ended.
Promises == /\ told = [c \in Builders |-> told[c]]
            /\ \A c \in Builders :
                 told[c] = <<>> \/ (phase[c] \notin {"idle", "building"} /\ Len(told[c]) = 1)

Operations == /\ operator.result \in Results \cup {"none", "refused", "exception"}
              /\ operator.version \in Versions /\ operations \in 0..MaxOperations

TypeInv == Sets /\ Places /\ Queues /\ Completing /\ Promises /\ Operations

\* What every step is: one action of the module.
LEMMA StepCases ==
  ASSUME [Next]_vars
  PROVE  \/ \E c \in Builders, outcome \in Outcomes : BuildNow(c, outcome)
         \/ \E c \in Builders : BuildThrows(c)
         \/ \E c \in Builders : BuildLater(c)
         \/ \E c \in Builders : Drop(c)
         \/ \E c \in Builders : DestroyLink(c)
         \/ \E c \in Builders : Release(c)
         \/ \E c \in Builders : Revoke(c)
         \/ WorkerTakes
         \/ LookupEnds
         \/ \E outcome \in Outcomes : IoTakes(outcome)
         \/ BuildAnswered \/ StartAnswered \/ StopAnswered \/ ReleaseAnswered \/ OperatorAnswered
         \/ \E command \in OtherCommands : Operate(command)
         \/ \E command \in OtherCommands, outcome \in Outcomes : OperateNow(command, outcome)
         \/ UNCHANGED vars
<1>1. CASE \E c \in Builders : BuilderStep(c)
  BY <1>1 DEF BuilderStep
<1>2. CASE IoStep
  BY <1>2 DEF IoStep, Callback
<1>3. CASE OperatorStep
  BY <1>3, BuilderAssumption DEF OperatorStep
<1> QED
  BY <1>1, <1>2, <1>3 DEF Next

\* The command on the io thread belongs to a builder, unless it is one of the
\* operator's.
LEMMA JobClients ==
  ASSUME NEW job \in Jobs
  PROVE  /\ job.command \in CommandNames
         /\ job.command \in OtherCommands <=> job.client = Operator
         /\ job.client # Operator => job.client \in Builders
         /\ job.command \in RequestCommands => job.command = RequestOf(job.client)
  BY BuilderAssumption
     DEF Jobs, BuilderCommands, RequestOf, CommandNames, HandleCommands, RequestCommands,
         OtherCommands

LEMMA SubmittedJobs ==
  ASSUME NEW c \in Builders
  PROVE  /\ \A command \in BuilderCommands(c) : Job(c, command) \in Jobs
         /\ \A command \in OtherCommands : Job(Operator, command) \in Jobs
  BY BuilderAssumption
     DEF Jobs, Job, BuilderCommands, RequestOf, CommandNames, HandleCommands, RequestCommands,
         OtherCommands

LEMMA SetsHold ==
  ASSUME Sets, Places, Queues, Completing, [Next]_vars
  PROVE  Sets'
<1> USE DEF Sets, deviceVars, historyVars, buildVars, operatorVars
<1>1. ASSUME NEW c \in Builders, NEW outcome \in Outcomes, BuildNow(c, outcome)
      PROVE  Sets'
  BY <1>1 DEF BuildNow, Serve, Job, RequestOf, RequestCommands, Goto
<1>2. ASSUME NEW c \in Builders, BuildThrows(c) \/ BuildLater(c) \/ Drop(c) \/ DestroyLink(c)
      PROVE  Sets'
  BY <1>2 DEF BuildThrows, BuildLater, Drop, DestroyLink
<1>3. ASSUME NEW c \in Builders, Release(c) \/ Revoke(c)
      PROVE  Sets'
  BY <1>3 DEF Release, Abandon, AskRelease, Revoke
<1>4. CASE WorkerTakes \/ LookupEnds
  BY <1>4 DEF WorkerTakes, LookupEnds
<1>5. ASSUME NEW outcome \in Outcomes, IoTakes(outcome)
      PROVE  Sets'
  <2>1. PICK i \in Turns : /\ Serve(pending[i], outcome)
                           /\ lost' = IF Loses(pending[i], outcome)
                                      THEN lost \cup {pending[i].client} ELSE lost
    BY <1>5 DEF IoTakes
  <2>2. pending[i] \in Jobs
    BY LenProperties, ElementOfSeq DEF Turns, Queues
  <2>3. pending[i].command \in RequestCommands => pending[i].client \in Builders
    BY <2>2, JobClients DEF RequestCommands, OtherCommands
  <2>4. held' \cup revoked' \subseteq Builders
    BY <2>1, <2>3 DEF Serve
  <2>5. Loses(pending[i], outcome) => pending[i].client \in Builders
    BY <2>3 DEF Loses
  <2> QED
    BY <1>5, <2>1, <2>4, <2>5 DEF IoTakes
<1>6. CASE BuildAnswered \/ StartAnswered \/ StopAnswered \/ ReleaseAnswered \/ OperatorAnswered
  BY <1>6 DEF BuildAnswered, StartAnswered, StopAnswered, ReleaseAnswered, OperatorAnswered
<1>7. ASSUME NEW command \in OtherCommands, Operate(command)
      PROVE  Sets'
  BY <1>7 DEF Operate
<1>8. ASSUME NEW command \in OtherCommands, NEW outcome \in Outcomes, OperateNow(command, outcome)
      PROVE  Sets'
  BY <1>8 DEF OperateNow, Serve, Job, RequestCommands, OtherCommands
<1>9. CASE UNCHANGED vars
  BY <1>9 DEF vars
<1> QED
  BY <1>1, <1>2, <1>3, <1>4, <1>5, <1>6, <1>7, <1>8, <1>9, StepCases

LEMMA PlacesHold ==
  ASSUME Places, [Next]_vars
  PROVE  Places'
<1> USE DEF Places, Phases, deviceVars, historyVars, buildVars, operatorVars
<1>1. ASSUME NEW c \in Builders, NEW outcome \in Outcomes, BuildNow(c, outcome)
      PROVE  Places'
  BY <1>1 DEF BuildNow, ConstructLink, Goto
<1>2. ASSUME NEW c \in Builders, BuildThrows(c) \/ BuildLater(c) \/ Drop(c) \/ DestroyLink(c)
      PROVE  Places'
  BY <1>2 DEF BuildThrows, BuildLater, Drop, DestroyLink, Goto, AfterRefusal
<1>3. ASSUME NEW c \in Builders, Release(c) \/ Revoke(c)
      PROVE  Places'
  BY <1>3 DEF Release, Abandon, AskRelease, Revoke
<1>4. CASE WorkerTakes \/ LookupEnds \/ \E outcome \in Outcomes : IoTakes(outcome)
  BY <1>4 DEF WorkerTakes, LookupEnds, IoTakes
<1>5. CASE BuildAnswered
  BY <1>5 DEF BuildAnswered, ConstructLink, Goto
<1>6. CASE StartAnswered \/ StopAnswered \/ ReleaseAnswered \/ OperatorAnswered
  BY <1>6 DEF StartAnswered, StopAnswered, ReleaseAnswered, OperatorAnswered, Goto
<1>7. ASSUME NEW command \in OtherCommands,
             Operate(command) \/ \E outcome \in Outcomes : OperateNow(command, outcome)
      PROVE  Places'
  BY <1>7 DEF Operate, OperateNow
<1>8. CASE UNCHANGED vars
  BY <1>8 DEF vars
<1> QED
  BY <1>1, <1>2, <1>3, <1>4, <1>5, <1>6, <1>7, <1>8, StepCases

\* Which steps submit a command, and which command.
LEMMA QueuesHold ==
  ASSUME Queues, Completing, [Next]_vars
  PROVE  Queues'
<1> USE DEF deviceVars, historyVars, buildVars, operatorVars
<1>1. ASSUME NEW job \in Jobs, ~job.lookup, Push(job), pending' = pending
      PROVE  Queues'
  <2>1. /\ jobs' \in Seq(Jobs) /\ Spread'
        /\ \A i \in 1..Len(jobs') : jobs'[i] = job \/ (i \in 1..Len(jobs) /\ jobs'[i] = jobs[i])
    BY <1>1, PushFacts DEF Queues
  <2> QED
    BY <1>1, <2>1 DEF Queues
<1>2. ASSUME jobs' = jobs, pending' = pending
      PROVE  Queues'
  BY <1>2 DEF Queues, Spread
<1>3. ASSUME NEW c \in Builders, NEW command \in BuilderCommands(c), Push(Job(c, command)),
             pending' = pending
      PROVE  Queues'
  <2>1. Job(c, command) \in Jobs /\ ~Job(c, command).lookup
    BY SubmittedJobs DEF Job
  <2> QED
    BY <1>1, <1>3, <2>1
<1>4. ASSUME NEW c \in Builders, NEW outcome \in Outcomes, BuildNow(c, outcome)
      PROVE  Queues'
  BY <1>2, <1>3, <1>4 DEF BuildNow, ConstructLink, BuilderCommands, HandleCommands
<1>5. ASSUME NEW c \in Builders, BuildThrows(c) \/ Drop(c) \/ Revoke(c)
      PROVE  Queues'
  BY <1>2, <1>5 DEF BuildThrows, Drop, Revoke
<1>6. ASSUME NEW c \in Builders, BuildLater(c) \/ DestroyLink(c) \/ Release(c)
      PROVE  Queues'
  BY <1>2, <1>3, <1>6 DEF BuildLater, DestroyLink, Release, Abandon, AskRelease, Push,
                          BuilderCommands, HandleCommands
<1>7. CASE WorkerTakes
  <2>1. PICK n \in Int : pending' = HandedOver(n)
    <3>1. Len(jobs) \in Nat
      BY LenProperties DEF Queues
    <3> QED
      BY <1>7, <3>1 DEF WorkerTakes
  <2>2. HandedOver(n) \in Seq(Jobs)
    BY HandOverFacts DEF Queues
  <2>3. jobs' = <<>> /\ jobs' \in Seq(Jobs) /\ Len(jobs') = 0
    BY <1>7, EmptySeq DEF WorkerTakes
  <2> QED
    BY <2>1, <2>2, <2>3, BuilderAssumption DEF Queues, Spread
<1>8. ASSUME NEW outcome \in Outcomes, IoTakes(outcome)
      PROVE  Queues'
  <2>1. PICK i \in 1..Len(pending) : pending' = RemoveAt(pending, i)
    BY <1>8, LenProperties DEF IoTakes, Turns, Queues
  <2>2. RemoveAt(pending, i) \in Seq(Jobs)
    BY RemoveFacts DEF Queues
  <2> QED
    BY <1>8, <2>1, <2>2 DEF IoTakes, Queues, Spread
<1>9. CASE BuildAnswered
  <2>1. io.job.client \in Builders
    BY <1>9, JobClients DEF BuildAnswered, Completes, Completing, RequestCommands, OtherCommands
  <2> QED
    BY <1>2, <1>3, <1>9, <2>1 DEF BuildAnswered, ConstructLink, BuilderCommands, HandleCommands
<1>10. CASE LookupEnds \/ StartAnswered \/ StopAnswered \/ ReleaseAnswered \/ OperatorAnswered
  BY <1>2, <1>10 DEF LookupEnds, StartAnswered, StopAnswered, ReleaseAnswered, OperatorAnswered
<1>11. ASSUME NEW command \in OtherCommands, Operate(command)
       PROVE  Queues'
  <2>1. Job(Operator, command) \in Jobs /\ ~Job(Operator, command).lookup
    BY BuilderAssumption DEF Job, Jobs, CommandNames
  <2> QED
    BY <1>1, <1>11, <2>1 DEF Operate, Push
<1>12. ASSUME NEW command \in OtherCommands, NEW outcome \in Outcomes, OperateNow(command, outcome)
       PROVE  Queues'
  BY <1>2, <1>12 DEF OperateNow
<1>13. CASE UNCHANGED vars
  BY <1>2, <1>13 DEF vars
<1> QED
  BY <1>4, <1>5, <1>6, <1>7, <1>8, <1>9, <1>10, <1>11, <1>12, <1>13, StepCases

LEMMA CompletingHolds ==
  ASSUME Queues, Completing, [Next]_vars
  PROVE  Completing'
<1> USE DEF deviceVars, historyVars, buildVars, operatorVars
<1>1. ASSUME io' = io \/ io' = IdleIo
      PROVE  Completing'
  <2>1. IdleIo.at = "idle" /\ IdleIo.answer.result \in Results
    BY DEF IdleIo, Answer, Results
  <2> QED
    BY <1>1, <2>1 DEF Completing
<1>2. ASSUME NEW c \in Builders,
             \/ \E outcome \in Outcomes : BuildNow(c, outcome)
             \/ BuildThrows(c) \/ BuildLater(c) \/ Drop(c) \/ DestroyLink(c) \/ Revoke(c)
      PROVE  Completing'
  BY <1>1, <1>2 DEF BuildNow, BuildThrows, BuildLater, Drop, DestroyLink, Revoke
<1>3. ASSUME NEW c \in Builders, Release(c)
      PROVE  Completing'
  BY <1>1, <1>3 DEF Release, Abandon, AskRelease
<1>4. CASE WorkerTakes \/ LookupEnds
  BY <1>1, <1>4 DEF WorkerTakes, LookupEnds
<1>5. ASSUME NEW outcome \in Outcomes, IoTakes(outcome)
      PROVE  Completing'
  <2>1. PICK i \in 1..Len(pending) :
          io' = [at |-> "answering", job |-> pending[i], answer |-> AnswerTo(pending[i], outcome)]
    BY <1>5, LenProperties DEF IoTakes, Turns, Queues
  <2>2. pending[i] \in Jobs
    BY ElementOfSeq DEF Queues
  <2>3. AnswerTo(pending[i], outcome).result \in Results
    BY <2>2, AnswerResults
  <2> QED
    BY <2>1, <2>2, <2>3 DEF Completing
<1>6. CASE BuildAnswered
  <2> DEFINE destroying == [IdleIo EXCEPT !.at = "destroying", !.job = io.job]
  <2>1. io' = IdleIo \/ io' = destroying
    BY <1>6 DEF BuildAnswered
  <2>2. io.job \in Jobs
    BY <1>6 DEF BuildAnswered, Completes, Completing
  <2>3. /\ destroying.at = "destroying" /\ destroying.job = io.job
        /\ destroying.answer = Answer("FAILED", {})
    BY DEF IdleIo
  <2>4. destroying.answer.result \in Results
    BY <2>3 DEF Answer, Results
  <2> HIDE DEF destroying
  <2> QED
    BY <1>1, <2>1, <2>2, <2>3, <2>4 DEF Completing
<1>7. CASE StartAnswered \/ StopAnswered \/ ReleaseAnswered \/ OperatorAnswered
  BY <1>1, <1>7 DEF StartAnswered, StopAnswered, ReleaseAnswered, OperatorAnswered
<1>8. ASSUME NEW command \in OtherCommands,
             Operate(command) \/ \E outcome \in Outcomes : OperateNow(command, outcome)
      PROVE  Completing'
  BY <1>1, <1>8 DEF Operate, OperateNow
<1>9. CASE UNCHANGED vars
  BY <1>1, <1>9 DEF vars
<1> QED
  BY <1>2, <1>3, <1>4, <1>5, <1>6, <1>7, <1>8, <1>9, StepCases

LEMMA PromisesHold ==
  ASSUME Places, Completing, Promises, [Next]_vars
  PROVE  Promises'
<1> USE DEF deviceVars, historyVars, buildVars, operatorVars, Places
<1>1. ASSUME told' = told,
             \A c \in Builders : phase[c] \notin {"idle", "building"}
                                   => phase'[c] \notin {"idle", "building"}
      PROVE  Promises'
  BY <1>1 DEF Promises
<1>2. ASSUME NEW c \in Builders, phase[c] \in {"idle", "building"},
             NEW telling, told' = [told EXCEPT ![c] = telling], Len(telling) = 1,
             \A d \in Builders : phase[d] \notin {"idle", "building"} \/ d = c
                                   => phase'[d] \notin {"idle", "building"}
      PROVE  Promises'
  BY <1>2 DEF Promises
<1>3. ASSUME NEW c \in Builders, \E outcome \in Outcomes : BuildNow(c, outcome)
      PROVE  Promises'
  BY <1>1, <1>3 DEF BuildNow, ConstructLink, Goto
<1>4. ASSUME NEW c \in Builders, BuildThrows(c)
      PROVE  Promises'
  BY <1>1, <1>4 DEF BuildThrows, Goto
<1>5. ASSUME NEW c \in Builders, BuildLater(c)
      PROVE  Promises'
  <2>1. phase[c] = "idle" /\ told[c] = <<>>
    BY <1>5 DEF BuildLater, Goto, Promises
  <2>2. CASE /\ told' = [told EXCEPT ![c] = Append(told[c], Told("FAILED", {}))]
             /\ phase' = [phase EXCEPT ![c] = "failed"]
    <3>1. Len(Append(told[c], Told("FAILED", {}))) = 1
      BY <2>1
    <3> QED
      BY <1>2, <2>1, <2>2, <3>1
  <2>3. CASE Goto(c, "idle", "building") /\ told' = told
    BY <1>1, <1>5, <2>3 DEF BuildLater, Goto
  <2> QED
    BY <1>5, <2>2, <2>3 DEF BuildLater, Goto
<1>6. ASSUME NEW c \in Builders, Drop(c) \/ Revoke(c)
      PROVE  Promises'
  BY <1>1, <1>6 DEF Drop, Revoke
<1>7. ASSUME NEW c \in Builders, DestroyLink(c) \/ Release(c)
      PROVE  Promises'
  BY <1>1, <1>7 DEF DestroyLink, Release, Abandon, AskRelease, Goto, AfterRefusal
<1>8. CASE WorkerTakes \/ LookupEnds \/ \E outcome \in Outcomes : IoTakes(outcome)
  BY <1>1, <1>8 DEF WorkerTakes, LookupEnds, IoTakes
<1>9. CASE BuildAnswered
  <2> DEFINE c == io.job.client
             results == Delivered(io.job.command, io.answer)
  <2>1. c \in Builders /\ io.job.command \in CommandNames
    BY <1>9, JobClients DEF BuildAnswered, Completes, Completing, RequestCommands, OtherCommands
  <2>2. phase[c] = "building"
    BY <1>9 DEF BuildAnswered, ConstructLink, Goto
  <2>3. phase' = [phase EXCEPT ![c] = "linked"] \/ phase' = [phase EXCEPT ![c] = "failed"]
    BY <1>9 DEF BuildAnswered, ConstructLink, Goto
  <2>4. told' = [told EXCEPT ![c] = told[c] \o results] /\ told[c] = <<>>
    BY <1>9, <2>1, <2>2 DEF BuildAnswered, Promises
  <2>5. Len(told[c] \o results) = 1
    BY <2>4 DEF Delivered
  <2> HIDE DEF c, results
  <2> QED
    BY <1>2, <2>1, <2>2, <2>3, <2>4, <2>5
<1>10. CASE StartAnswered \/ StopAnswered \/ ReleaseAnswered \/ OperatorAnswered
  BY <1>1, <1>10 DEF StartAnswered, StopAnswered, ReleaseAnswered, OperatorAnswered, Goto
<1>11. ASSUME NEW command \in OtherCommands,
              Operate(command) \/ \E outcome \in Outcomes : OperateNow(command, outcome)
       PROVE  Promises'
  BY <1>1, <1>11 DEF Operate, OperateNow
<1>12. CASE UNCHANGED vars
  BY <1>1, <1>12 DEF vars
<1> QED
  BY <1>3, <1>4, <1>5, <1>6, <1>7, <1>8, <1>9, <1>10, <1>11, <1>12, StepCases

LEMMA OperationsHold ==
  ASSUME Completing, Operations, [Next]_vars
  PROVE  Operations'
<1> USE BuilderAssumption DEF deviceVars, historyVars, buildVars, operatorVars
<1>1. ASSUME operator' = operator, operations' = operations
      PROVE  Operations'
  BY <1>1 DEF Operations
<1>2. ASSUME NEW c \in Builders, BuilderStep(c)
      PROVE  Operations'
  BY <1>1, <1>2 DEF BuilderStep, BuildNow, BuildThrows, BuildLater, Drop, DestroyLink, Release,
                    Revoke
<1>3. CASE WorkerTakes \/ LookupEnds \/ \E outcome \in Outcomes : IoTakes(outcome)
  BY <1>1, <1>3 DEF WorkerTakes, LookupEnds, IoTakes
<1>4. CASE BuildAnswered \/ StartAnswered \/ StopAnswered \/ ReleaseAnswered
  BY <1>1, <1>4 DEF BuildAnswered, StartAnswered, StopAnswered, ReleaseAnswered
<1>5. CASE OperatorAnswered
  <2> DEFINE results == Delivered(io.job.command, io.answer)
  <2>1. io.job.command \in CommandNames /\ io.answer.result \in Results
    BY <1>5, JobClients DEF OperatorAnswered, Completes, Completing
  <2>2. /\ results[1].result \in Results \cup {"exception"} /\ results[1].version \in Versions
        /\ Len(results) = 1
    BY <2>1, Tellings
  <2>3. operator' = results[Len(results)] /\ operations' = operations
    BY <1>5 DEF OperatorAnswered
  <2> HIDE DEF results
  <2>4. operator' = results[1]
    BY <2>2, <2>3
  <2> QED
    BY <2>2, <2>3, <2>4 DEF Operations
<1>6. ASSUME NEW command \in OtherCommands, Operate(command)
      PROVE  Operations'
  BY <1>6 DEF Operate, Operations, Told, Versions
<1>7. ASSUME NEW command \in OtherCommands, NEW outcome \in Outcomes, OperateNow(command, outcome)
      PROVE  Operations'
  <2> DEFINE job == Job(Operator, command)
  <2>1. job \in Jobs /\ command \in CommandNames
    BY DEF Job, Jobs, CommandNames
  <2>2. AnswerNow(job, outcome).result \in Results
    BY <2>1, AnswerResults
  <2>3. /\ CompletedNow(command, AnswerNow(job, outcome)).result \in Results \cup {"exception"}
        /\ CompletedNow(command, AnswerNow(job, outcome)).version \in Versions
    BY <2>1, <2>2, Tellings
  <2>4. /\ operator' = CompletedNow(command, AnswerNow(job, outcome))
        /\ operations' = operations + 1 /\ operations < MaxOperations
    BY <1>7 DEF OperateNow
  <2> QED
    BY <2>3, <2>4 DEF Operations
<1>8. CASE UNCHANGED vars
  BY <1>1, <1>8 DEF vars
<1> QED
  BY <1>2, <1>3, <1>4, <1>5, <1>6, <1>7, <1>8, StepCases DEF BuilderStep

LEMMA TypeInvHolds == Spec => []TypeInv
<1>1. Init => TypeInv
  <2> SUFFICES ASSUME Init PROVE TypeInv
    OBVIOUS
  <2>1. Sets /\ Promises
    BY DEF Init, Sets, Promises
  <2>2. Places
    BY DEF Init, Places, Phases, HandleExtracted
  <2>3. Queues
    BY BuilderAssumption, EmptySeq DEF Init, Queues, Spread
  <2>4. Completing
    BY DEF Init, Completing, IdleIo, Answer, Results
  <2>5. Operations
    BY BuilderAssumption DEF Init, Operations, Told, Versions
  <2> QED
    BY <2>1, <2>2, <2>3, <2>4, <2>5 DEF TypeInv
<1>2. TypeInv /\ [Next]_vars => TypeInv'
  BY SetsHold, PlacesHold, QueuesHold, CompletingHolds, PromisesHold, OperationsHold DEF TypeInv
<1> QED
  BY <1>1, <1>2, PTL DEF Spec

\* Every variable has its type, and the promise of a build is set at most once:
\* the callback of constructDataLink ends the build it answers.
THEOREM TypeCorrect == Spec => []TypeOK
<1>1. TypeInv => TypeOK
  <2> SUFFICES ASSUME TypeInv PROVE TypeOK
    OBVIOUS
  <2>1. ASSUME NEW c \in Builders
        PROVE  Len(told[c]) <= 1
    <3>1. told[c] = <<>> \/ Len(told[c]) = 1
      BY DEF TypeInv, Promises
    <3>2. CASE told[c] = <<>>
      <4>1. Len(told[c]) = 0
        BY <3>2
      <4> QED
        BY <4>1
    <3>3. CASE Len(told[c]) = 1
      BY <3>3
    <3> QED
      BY <3>1, <3>2, <3>3
  <2>2. \A job \in {(jobs \o pending)[i] : i \in 1..(Len(jobs) + Len(pending))} :
          job.client \in Builders \cup {Operator} /\ job.command \in CommandNames
    <3>1. jobs \in Seq(Jobs) /\ pending \in Seq(Jobs)
      BY DEF TypeInv, Queues
    <3>2. (jobs \o pending) \in Seq(Jobs) /\ Len(jobs \o pending) = Len(jobs) + Len(pending)
      BY <3>1, ConcatProperties
    <3>3. \A i \in 1..(Len(jobs) + Len(pending)) : (jobs \o pending)[i] \in Jobs
      BY <3>2, ElementOfSeq
    <3> QED
      BY <3>3 DEF Jobs
  <2> QED
    BY <2>1, <2>2 DEF TypeInv, TypeOK, Sets, Places, Phases, Queues, Spread, Completing,
                            Operations
<1> QED
  BY <1>1, TypeInvHolds, PTL

-----------------------------------------------------------------------------
(* What is on its way, and what it tells of the phase of a build.          *)

\* A builder has each command at most once on its way.
Once == /\ Unique(jobs) /\ Unique(pending)
        /\ \A c \in Builders, command \in CommandNames :
             /\ ~(Listed(jobs, c, command) /\ Listed(pending, c, command))
             /\ Answering(c, command)
                  => ~Listed(jobs, c, command) /\ ~Listed(pending, c, command)

Stages == \A c \in Builders :
  /\ OnItsWay(c, RequestOf(c)) => phase[c] = "building"
  /\ OnItsWay(c, "StartScanOutput") => phase[c] \notin {"idle", "building", "failed"}
  /\ OnItsWay(c, "StopScanOutput") => phase[c] = "stopping"
  /\ OnItsWay(c, "ReleaseHandle") => phase[c] = "releasing"

LEMMA WorkerTakesFacts ==
  ASSUME Queues, WorkerTakes
  PROVE  /\ \A c, command :
              /\ ~Listed(jobs', c, command)
              /\ Listed(pending', c, command) <=> Listed(pending, c, command)
                                                  \/ Listed(jobs, c, command)
         /\ \A c \in Builders :
              /\ ~In(jobs', Start(c))
              /\ In(pending', Start(c)) => In(pending, Start(c)) \/ In(jobs, Start(c))
         /\ Once => Unique(jobs') /\ Unique(pending')
         /\ InOrder(pending) /\ InOrder(jobs)
              /\ (\A c \in Builders, command \in Later :
                    ~(In(jobs, Start(c)) /\ Listed(pending, c, command)))
              => InOrder(jobs') /\ InOrder(pending')
         /\ io' = io /\ phase' = phase
<1>1. jobs' = <<>> /\ io' = io /\ phase' = phase
  BY DEF WorkerTakes, buildVars
<1>2. Len(jobs') = 0
  BY <1>1
<1>3. /\ \A c, command : ~Listed(jobs', c, command)
      /\ \A c \in Builders : ~In(jobs', Start(c))
      /\ Unique(jobs') /\ InOrder(jobs')
  BY <1>2 DEF Listed, In, Unique, InOrder
<1>4. PICK n \in Int : pending' = HandedOver(n)
  BY LenProperties DEF WorkerTakes, Queues
<1>5. /\ \A c, command :
           Listed(pending', c, command) <=> Listed(pending, c, command) \/ Listed(jobs, c, command)
      /\ \A c \in Builders :
           In(pending', Start(c)) => In(pending, Start(c)) \/ In(jobs, Start(c))
  BY <1>4, HandOverFacts DEF Queues
<1>6. Once => Unique(pending')
  BY <1>4, HandOverFacts DEF Queues, Once
<1>7. InOrder(pending) /\ InOrder(jobs)
        /\ (\A c \in Builders, command \in Later :
              ~(In(jobs, Start(c)) /\ Listed(pending, c, command)))
        => InOrder(pending')
  BY <1>4, HandOverFacts DEF Queues
<1> QED
  BY <1>1, <1>3, <1>5, <1>6, <1>7

LEMMA IoTakesFacts ==
  ASSUME Queues, NEW outcome \in Outcomes, IoTakes(outcome)
  PROVE  \E job \in Jobs :
           /\ Serve(job, outcome)
           /\ lost' = IF Loses(job, outcome) THEN lost \cup {job.client} ELSE lost
           /\ io' = [at |-> "answering", job |-> job, answer |-> AnswerTo(job, outcome)]
           /\ \A c, command :
                /\ Listed(pending, c, command) <=> Listed(pending', c, command)
                                                   \/ Is(job, c, command)
                /\ Answering(c, command)' <=> Is(job, c, command)
           /\ \A other : In(pending', other) => In(pending, other)
           /\ Unique(pending) => /\ Unique(pending')
                                 /\ job.client \in Builders
                                      => ~Listed(pending', job.client, job.command)
           /\ InOrder(pending) =>
                /\ InOrder(pending')
                /\ \A c \in Builders, command \in Later :
                     Is(job, c, command) => ~In(pending', Start(c))
           /\ io.at = "idle" /\ phase' = phase /\ jobs' = jobs
<1>1. PICK n \in Turns :
        /\ Serve(pending[n], outcome)
        /\ lost' = IF Loses(pending[n], outcome) THEN lost \cup {pending[n].client} ELSE lost
        /\ io' = [at |-> "answering", job |-> pending[n], answer |-> AnswerTo(pending[n], outcome)]
        /\ pending' = RemoveAt(pending, n)
  BY DEF IoTakes
<1>2. n \in 1..Len(pending) /\ Len(pending) \in Nat /\ \A i \in 1..(n - 1) : pending[i].lookup
  BY <1>1, LenProperties DEF Turns, Queues
<1>3. /\ pending[n] \in Jobs
      /\ \A c, command : Listed(pending, c, command) <=> Listed(pending', c, command)
                                                         \/ Is(pending[n], c, command)
      /\ \A other : In(pending', other) => \E i \in (1..Len(pending)) \ {n} : pending[i] = other
  BY <1>1, <1>2, RemoveFacts DEF Queues
<1>4. /\ Unique(pending) => /\ Unique(pending')
                            /\ pending[n].client \in Builders
                                 => ~Listed(pending', pending[n].client, pending[n].command)
      /\ InOrder(pending) => InOrder(pending')
  BY <1>1, <1>2, RemoveFacts DEF Queues
<1>5. \A c, command : Answering(c, command)' <=> Is(pending[n], c, command)
  BY <1>1 DEF Answering
<1>6. ASSUME InOrder(pending), NEW c \in Builders, NEW command \in Later,
             Is(pending[n], c, command), In(pending', Start(c))
      PROVE  FALSE
  <2>1. PICK i \in (1..Len(pending)) \ {n} : pending[i] = Start(c)
    BY <1>3, <1>6
  <2>2. i < n
    BY <1>2, <1>6, <2>1 DEF InOrder
  <2>3. pending[i].lookup
    BY <1>2, <2>2
  <2> QED
    BY <2>1, <2>3 DEF Start, Job
<1>7. \A other : In(pending', other) => In(pending, other)
  BY <1>3 DEF In
<1>8. io.at = "idle" /\ phase' = phase /\ jobs' = jobs
  BY DEF IoTakes, buildVars
<1> QED
  BY <1>1, <1>3, <1>4, <1>5, <1>6, <1>7, <1>8

\* What the steps leave on its way that submit nothing.
LEMMA QuietFacts ==
  ASSUME jobs' = jobs, pending' = pending, io' = io \/ io'.at # "answering"
  PROVE  /\ \A c, command : /\ OnItsWay(c, command)' => OnItsWay(c, command)
                            /\ Answering(c, command)' => Answering(c, command) /\ io' = io
         /\ Once => Once'
  BY DEF OnItsWay, Answering, Once

\* And those that submit one that is not on its way.
LEMMA SubmitFacts ==
  ASSUME Queues, NEW job \in Jobs, Push(job), pending' = pending,
         io' = io \/ io'.at # "answering",
         job.client \in Builders => ~OnItsWay(job.client, job.command)
  PROVE  /\ \A c, command : /\ Listed(jobs', c, command)
                                 => Listed(jobs, c, command) \/ Is(job, c, command)
                            /\ OnItsWay(c, command)' => OnItsWay(c, command) \/ Is(job, c, command)
                            /\ Answering(c, command)' => Answering(c, command) /\ io' = io
         /\ Once => Once'
<1>1. /\ \A c, command :
           Listed(jobs', c, command) => Listed(jobs, c, command) \/ Is(job, c, command)
      /\ Unique(jobs) /\ (job.client \in Builders => ~Listed(jobs, job.client, job.command))
           => Unique(jobs')
  BY PushFacts DEF Queues
<1>2. \A c, command : Answering(c, command)' => Answering(c, command) /\ io' = io
  BY DEF Answering
<1>3. \A c, command : OnItsWay(c, command)' => OnItsWay(c, command) \/ Is(job, c, command)
  BY <1>1, <1>2 DEF OnItsWay
<1>4. Once => Once'
  <2> SUFFICES ASSUME Once PROVE Once'
    OBVIOUS
  <2>1. Unique(jobs') /\ Unique(pending')
    BY <1>1 DEF Once, OnItsWay
  <2>2. ASSUME NEW c \in Builders, NEW command \in CommandNames
        PROVE  /\ ~(Listed(jobs', c, command) /\ Listed(pending', c, command))
               /\ Answering(c, command)'
                    => ~Listed(jobs', c, command) /\ ~Listed(pending', c, command)
    BY <1>1, <1>2 DEF Once, OnItsWay, Is
  <2> QED
    BY <2>1, <2>2 DEF Once
<1> QED
  BY <1>1, <1>2, <1>3, <1>4

\* A builder submits no command it already has on its way, and the worker and
\* the io thread submit none.
LEMMA StepKinds ==
  ASSUME TypeInv, Stages, [Next]_vars
  PROVE  \/ /\ jobs' = jobs /\ pending' = pending
            /\ io' = io \/ io'.at # "answering"
         \/ /\ pending' = pending
            /\ io' = io \/ io'.at # "answering"
            /\ \E job \in Jobs :
                 /\ Push(job)
                 /\ ~job.lookup
                 /\ job.client \in Builders =>
                      /\ ~OnItsWay(job.client, job.command)
                      /\ job.command = "StartScanOutput"
                           => phase[job.client] \in {"idle", "building"}
         \/ WorkerTakes
         \/ \E outcome \in Outcomes : IoTakes(outcome)
<1> DEFINE Quiet == /\ jobs' = jobs /\ pending' = pending
                    /\ io' = io \/ io'.at # "answering"
           Submits == /\ pending' = pending
                      /\ io' = io \/ io'.at # "answering"
                      /\ \E job \in Jobs :
                           /\ Push(job)
                           /\ ~job.lookup
                           /\ job.client \in Builders =>
                                /\ ~OnItsWay(job.client, job.command)
                                /\ job.command = "StartScanOutput"
                                     => phase[job.client] \in {"idle", "building"}
<1>0. IdleIo.at = "idle"
  BY DEF IdleIo
<1> USE DEF deviceVars, historyVars, buildVars, operatorVars
<1>1. ASSUME NEW c \in Builders, NEW command \in BuilderCommands(c), Push(Job(c, command)),
             pending' = pending, io' = io \/ io'.at # "answering",
             ~OnItsWay(c, command),
             command = "StartScanOutput" => phase[c] \in {"idle", "building"}
      PROVE  Submits
  <2>1. /\ Job(c, command) \in Jobs /\ ~Job(c, command).lookup
        /\ Job(c, command).client = c /\ Job(c, command).command = command
    BY SubmittedJobs DEF Job
  <2> QED
    BY <1>1, <2>1
<1>2. ASSUME NEW c \in Builders, NEW from \in {"idle", "building"}, ConstructLink(c, from),
             pending' = pending, io' = io \/ io'.at # "answering"
      PROVE  Submits
  <2>1. "StartScanOutput" \in BuilderCommands(c)
    BY DEF BuilderCommands, HandleCommands
  <2>2. phase[c] \in {"idle", "building"} /\ Push(Job(c, "StartScanOutput"))
    BY <1>2 DEF ConstructLink, Goto
  <2>3. ~OnItsWay(c, "StartScanOutput")
    BY <2>2 DEF Stages
  <2> QED
    BY <1>1, <1>2, <2>1, <2>2, <2>3
<1>3. ASSUME NEW c \in Builders, NEW outcome \in Outcomes, BuildNow(c, outcome)
      PROVE  Quiet \/ Submits
  BY <1>2, <1>3 DEF BuildNow
<1>4. ASSUME NEW c \in Builders, BuildLater(c)
      PROVE  Submits
  <2>1. RequestOf(c) \in BuilderCommands(c) /\ RequestOf(c) # "StartScanOutput"
    BY DEF BuilderCommands, RequestOf
  <2>2. phase[c] = "idle" /\ Push(Job(c, RequestOf(c))) /\ pending' = pending /\ io' = io
    BY <1>4 DEF BuildLater, Goto, Push
  <2>3. ~OnItsWay(c, RequestOf(c))
    BY <2>2 DEF Stages
  <2> QED
    BY <1>1, <2>1, <2>2, <2>3
<1>5. ASSUME NEW c \in Builders, DestroyLink(c)
      PROVE  Submits
  <2>1. "StopScanOutput" \in BuilderCommands(c)
    BY DEF BuilderCommands, HandleCommands
  <2>2. phase[c] = "linked" /\ Push(Job(c, "StopScanOutput")) /\ pending' = pending /\ io' = io
    BY <1>5 DEF DestroyLink, Goto, Push
  <2>3. ~OnItsWay(c, "StopScanOutput")
    BY <2>2 DEF Stages
  <2> QED
    BY <1>1, <2>1, <2>2, <2>3
<1>6. ASSUME NEW c \in Builders, Release(c)
      PROVE  Quiet \/ Submits
  <2>1. "ReleaseHandle" \in BuilderCommands(c)
    BY DEF BuilderCommands, HandleCommands
  <2>2. phase[c] \in {"stopped", "unstopped"} /\ pending' = pending
    BY <1>6 DEF Release
  <2>3. ~OnItsWay(c, "ReleaseHandle")
    BY <2>2 DEF Stages
  <2>4. CASE Abandon(c)
    <3>1. jobs' = jobs /\ (io' = io \/ io' = IdleIo)
      BY <1>6, <2>4 DEF Release, Abandon, AskRelease, Unreleased, Push
    <3> QED
      BY <2>2, <3>1, <1>0
  <2>5. CASE AskRelease(c)
    <3>1. Push(Job(c, "ReleaseHandle")) /\ io' = io
      BY <1>6, <2>5 DEF Release, Abandon, AskRelease, Unreleased, Push
    <3> QED
      BY <1>1, <2>1, <2>2, <2>3, <3>1
  <2> QED
    BY <1>6, <2>4, <2>5 DEF Release
<1>7. ASSUME NEW c \in Builders, BuildThrows(c) \/ Drop(c) \/ Revoke(c)
      PROVE  Quiet
  BY <1>7 DEF BuildThrows, Drop, Revoke
<1>8. ASSUME BuildAnswered
      PROVE  Quiet \/ Submits
  <2>1. io.job.client \in Builders
    BY <1>8, JobClients
       DEF BuildAnswered, Completes, TypeInv, Completing, RequestCommands, OtherCommands
  <2>2. pending' = pending /\ (io' = io \/ io'.at # "answering")
    <3> DEFINE destroying == [IdleIo EXCEPT !.at = "destroying", !.job = io.job]
    <3>1. destroying.at = "destroying"
      BY DEF IdleIo
    <3>2. io' \in {IdleIo, destroying} /\ pending' = pending
      BY <1>8 DEF BuildAnswered
    <3> HIDE DEF destroying
    <3> QED
      BY <1>0, <3>1, <3>2
  <2>3. ConstructLink(io.job.client, "building") \/ jobs' = jobs
    BY <1>8 DEF BuildAnswered
  <2>4. CASE jobs' = jobs
    BY <2>2, <2>4
  <2>5. CASE ConstructLink(io.job.client, "building")
    <3>1. "building" \in {"idle", "building"}
      OBVIOUS
    <3> HIDE DEF Submits
    <3> QED
      BY <1>2, <2>1, <2>2, <2>5, <3>1
  <2> QED
    BY <2>3, <2>4, <2>5
<1>9. ASSUME StartAnswered \/ StopAnswered \/ ReleaseAnswered \/ OperatorAnswered
      PROVE  Quiet
  BY <1>0, <1>9 DEF StartAnswered, StopAnswered, ReleaseAnswered, OperatorAnswered
<1>10. ASSUME LookupEnds
       PROVE  Quiet
  BY <1>10 DEF LookupEnds
<1>11. ASSUME NEW command \in OtherCommands, Operate(command)
       PROVE  Submits
  <2>1. /\ Job(Operator, command) \in Jobs /\ ~Job(Operator, command).lookup
        /\ Job(Operator, command).client \notin Builders
    BY BuilderAssumption DEF Job, Jobs, CommandNames
  <2> QED
    BY <1>11, <2>1 DEF Operate, Push
<1>12. ASSUME NEW command \in OtherCommands, NEW outcome \in Outcomes, OperateNow(command, outcome)
       PROVE  Quiet
  BY <1>12 DEF OperateNow
<1>13. ASSUME UNCHANGED vars
       PROVE  Quiet
  BY <1>13 DEF vars
<1> HIDE DEF Quiet, Submits
<1>14. Quiet \/ Submits \/ WorkerTakes \/ \E outcome \in Outcomes : IoTakes(outcome)
  BY <1>3, <1>4, <1>5, <1>6, <1>7, <1>8, <1>9, <1>10, <1>11, <1>12, <1>13, StepCases
<1> QED
  BY <1>14 DEF Quiet, Submits

LEMMA OnceHolds ==
  ASSUME TypeInv, Stages, Once, [Next]_vars
  PROVE  Once'
<1>1. CASE jobs' = jobs /\ pending' = pending /\ (io' = io \/ io'.at # "answering")
  BY <1>1, QuietFacts
<1>2. ASSUME NEW job \in Jobs, Push(job), pending' = pending, io' = io \/ io'.at # "answering",
             job.client \in Builders => ~OnItsWay(job.client, job.command)
      PROVE  Once'
  BY <1>2, SubmitFacts DEF TypeInv
<1>3. CASE WorkerTakes
  <2>1. /\ Unique(jobs') /\ Unique(pending') /\ io' = io
        /\ \A c, command : /\ ~Listed(jobs', c, command)
                           /\ Listed(pending', c, command) <=> Listed(pending, c, command)
                                                               \/ Listed(jobs, c, command)
    BY <1>3, WorkerTakesFacts DEF TypeInv
  <2> QED
    BY <2>1 DEF Once, Answering
<1>4. ASSUME NEW outcome \in Outcomes, IoTakes(outcome)
      PROVE  Once'
  <2>1. PICK job \in Jobs :
          /\ \A c, command :
               /\ Listed(pending, c, command) <=> Listed(pending', c, command)
                                                  \/ Is(job, c, command)
               /\ Answering(c, command)' <=> Is(job, c, command)
          /\ Unique(pending) => /\ Unique(pending')
                                /\ job.client \in Builders
                                     => ~Listed(pending', job.client, job.command)
          /\ jobs' = jobs
    BY <1>4, IoTakesFacts DEF TypeInv
  <2>2. job.command \in CommandNames
    BY JobClients
  <2> QED
    BY <2>1, <2>2 DEF Once, Is
<1> QED
  BY <1>1, <1>2, <1>3, <1>4, StepKinds

StageOf(c) == /\ OnItsWay(c, RequestOf(c)) => phase[c] = "building"
              /\ OnItsWay(c, "StartScanOutput") => phase[c] \notin {"idle", "building", "failed"}
              /\ OnItsWay(c, "StopScanOutput") => phase[c] = "stopping"
              /\ OnItsWay(c, "ReleaseHandle") => phase[c] = "releasing"

LEMMA StagesHold ==
  ASSUME TypeInv, Stages, Once, [Next]_vars
  PROVE  Stages'
<1>0. IdleIo.at = "idle"
  BY DEF IdleIo
<1> USE DEF deviceVars, historyVars, buildVars, operatorVars
<1>1. \A c \in Builders : phase \in [Builders -> Phases] /\ StageOf(c)
  BY DEF Stages, StageOf, TypeInv, Places
<1>2. ASSUME \A c \in Builders : StageOf(c)'
      PROVE  Stages'
  BY <1>2 DEF Stages, StageOf
\* Nothing new is on its way, and no build goes on.
<1>3. ASSUME phase' = phase,
             \A command : \A c \in Builders : OnItsWay(c, command)' => OnItsWay(c, command)
      PROVE  Stages'
  BY <1>3 DEF Stages
\* One build goes on.
<1>4. ASSUME NEW c \in Builders, NEW to, phase' = [phase EXCEPT ![c] = to], StageOf(c)',
             \A command : \A d \in Builders \ {c} : OnItsWay(d, command)' => OnItsWay(d, command)
      PROVE  Stages'
  <2>1. ASSUME NEW d \in Builders \ {c}
        PROVE  StageOf(d)'
    BY <1>1, <1>4 DEF StageOf
  <2> QED
    BY <1>2, <1>4, <2>1
<1>5. ASSUME jobs' = jobs, pending' = pending, io' = io \/ io'.at # "answering"
      PROVE  \A c, command : OnItsWay(c, command)' => OnItsWay(c, command)
  BY <1>5, QuietFacts
<1>6. ASSUME NEW c \in Builders, NEW command \in BuilderCommands(c), Push(Job(c, command)),
             pending' = pending, io' = io \/ io'.at # "answering", ~OnItsWay(c, command)
      PROVE  \A d, other : OnItsWay(d, other)' =>
                             OnItsWay(d, other) \/ (d = c /\ other = command)
  <2>1. Job(c, command) \in Jobs /\ Job(c, command).client = c /\ Job(c, command).command = command
    BY SubmittedJobs DEF Job
  <2>2. \A d, other : OnItsWay(d, other)' => OnItsWay(d, other) \/ Is(Job(c, command), d, other)
    BY <1>6, <2>1, SubmitFacts DEF TypeInv
  <2> QED
    BY <2>1, <2>2 DEF Is
<1>7. \A c \in Builders : /\ RequestOf(c) \in BuilderCommands(c)
                          /\ {"StartScanOutput", "StopScanOutput", "ReleaseHandle"}
                               \subseteq BuilderCommands(c)
                          /\ RequestOf(c) \notin {"StartScanOutput", "StopScanOutput",
                                                  "ReleaseHandle"}
  BY DEF BuilderCommands, HandleCommands, RequestOf
<1>8. ASSUME NEW c \in Builders, NEW from \in {"idle", "building"}, ConstructLink(c, from),
             pending' = pending, io' = io \/ io'.at # "answering",
             ~OnItsWay(c, RequestOf(c)) \/ ~OnItsWay(c, RequestOf(c))'
      PROVE  Stages'
  <2>1. phase[c] = from /\ phase' = [phase EXCEPT ![c] = "linked"]
    BY <1>8 DEF ConstructLink, Goto
  <2>2. ~OnItsWay(c, "StartScanOutput") /\ ~OnItsWay(c, "StopScanOutput")
        /\ ~OnItsWay(c, "ReleaseHandle")
    BY <2>1 DEF Stages
  <2>3. \A d, other : OnItsWay(d, other)' =>
                        OnItsWay(d, other) \/ (d = c /\ other = "StartScanOutput")
    BY <1>6, <1>7, <1>8, <2>2 DEF ConstructLink
  <2>4. phase'[c] = "linked"
    BY <1>1, <2>1
  <2>5. StageOf(c)'
    BY <1>7, <1>8, <2>2, <2>3, <2>4 DEF StageOf
  <2> QED
    BY <1>4, <2>1, <2>3, <2>5
\* A build that fails has nothing on its way.
<1>9. ASSUME NEW c \in Builders, NEW from \in {"idle", "building"}, Goto(c, from, "failed"),
             jobs' = jobs, pending' = pending, io' = io \/ io'.at # "answering",
             ~OnItsWay(c, RequestOf(c)) \/ ~OnItsWay(c, RequestOf(c))'
      PROVE  Stages'
  <2>1. phase[c] = from /\ phase' = [phase EXCEPT ![c] = "failed"]
    BY <1>9 DEF Goto
  <2>2. \A d, other : OnItsWay(d, other)' => OnItsWay(d, other)
    BY <1>5, <1>9
  <2>3. StageOf(c)'
    BY <1>9, <2>1, <2>2 DEF StageOf, Stages
  <2> QED
    BY <1>4, <2>1, <2>2, <2>3
<1>10. ASSUME NEW c \in Builders, NEW outcome \in Outcomes, BuildNow(c, outcome)
       PROVE  Stages'
  <2>1. pending' = pending /\ io' = io /\ phase[c] = "idle"
        /\ (ConstructLink(c, "idle") \/ (Goto(c, "idle", "failed") /\ jobs' = jobs))
    BY <1>10 DEF BuildNow, ConstructLink, Goto
  <2>2. ~OnItsWay(c, RequestOf(c))
    BY <2>1 DEF Stages
  <2> QED
    BY <1>8, <1>9, <2>1, <2>2
<1>11. ASSUME NEW c \in Builders, BuildThrows(c)
       PROVE  Stages'
  <2>1. jobs' = jobs /\ pending' = pending /\ io' = io /\ Goto(c, "idle", "failed")
        /\ phase[c] = "idle"
    BY <1>11 DEF BuildThrows, Goto
  <2>2. ~OnItsWay(c, RequestOf(c))
    BY <2>1 DEF Stages
  <2> QED
    BY <1>9, <2>1, <2>2
<1>12. ASSUME NEW c \in Builders, BuildLater(c)
       PROVE  Stages'
  <2>1. phase[c] = "idle" /\ pending' = pending /\ io' = io /\ Push(Job(c, RequestOf(c)))
    BY <1>12 DEF BuildLater, Goto, Push
  <2>2. /\ ~OnItsWay(c, RequestOf(c)) /\ ~OnItsWay(c, "StartScanOutput")
        /\ ~OnItsWay(c, "StopScanOutput") /\ ~OnItsWay(c, "ReleaseHandle")
    BY <2>1 DEF Stages
  <2>3. CASE Goto(c, "idle", "failed") /\ jobs' = jobs
    BY <1>9, <2>1, <2>2, <2>3
  <2>4. CASE Goto(c, "idle", "building")
    <3>1. phase' = [phase EXCEPT ![c] = "building"] /\ phase'[c] = "building"
      BY <1>1, <1>12, <2>4 DEF BuildLater, Goto
    <3>2. \A d, other : OnItsWay(d, other)' =>
                          OnItsWay(d, other) \/ (d = c /\ other = RequestOf(c))
      BY <1>6, <1>7, <2>1, <2>2
    <3>3. StageOf(c)'
      BY <1>7, <2>2, <3>1, <3>2 DEF StageOf
    <3> QED
      BY <1>4, <3>1, <3>2, <3>3
  <2> QED
    BY <1>12, <2>3, <2>4 DEF BuildLater, Refused
<1>13. ASSUME NEW c \in Builders, DestroyLink(c)
       PROVE  Stages'
  <2>1. /\ phase[c] = "linked" /\ pending' = pending /\ io' = io /\ Push(Job(c, "StopScanOutput"))
        /\ \/ jobs' = jobs /\ phase' = [phase EXCEPT ![c] = "unstopped"]
           \/ phase' = [phase EXCEPT ![c] = "stopping"]
    BY <1>13 DEF DestroyLink, Goto, AfterRefusal, Refused, Push
  <2>2. /\ ~OnItsWay(c, RequestOf(c)) /\ ~OnItsWay(c, "StopScanOutput")
        /\ ~OnItsWay(c, "ReleaseHandle")
    BY <2>1 DEF Stages
  <2>4. CASE jobs' = jobs /\ phase' = [phase EXCEPT ![c] = "unstopped"]
    <3>1. phase'[c] = "unstopped"
      BY <1>1, <2>4
    <3>2. \A d, other : OnItsWay(d, other)' => OnItsWay(d, other)
      BY <1>5, <2>1, <2>4
    <3>3. StageOf(c)'
      BY <2>2, <3>1, <3>2 DEF StageOf
    <3> QED
      BY <1>4, <2>4, <3>2, <3>3
  <2>5. CASE phase' = [phase EXCEPT ![c] = "stopping"]
    <3>1. phase'[c] = "stopping"
      BY <1>1, <2>5
    <3>2. \A d, other : OnItsWay(d, other)' =>
                          OnItsWay(d, other) \/ (d = c /\ other = "StopScanOutput")
      BY <1>6, <1>7, <2>1, <2>2
    <3>3. StageOf(c)'
      BY <1>7, <2>2, <3>1, <3>2 DEF StageOf
    <3> QED
      BY <1>4, <2>5, <3>2, <3>3
  <2> QED
    BY <2>1, <2>4, <2>5
<1>14. ASSUME NEW c \in Builders, Release(c)
       PROVE  Stages'
  <2>1. phase[c] \in {"stopped", "unstopped"} /\ pending' = pending
    BY <1>14 DEF Release
  <2>2. /\ ~OnItsWay(c, RequestOf(c)) /\ ~OnItsWay(c, "StopScanOutput")
        /\ ~OnItsWay(c, "ReleaseHandle")
    BY <2>1 DEF Stages
  <2>3. CASE Abandon(c)
    <3>1. /\ phase' = [phase EXCEPT ![c] = "closed"] /\ jobs' = jobs
          /\ io' = io \/ io' = IdleIo
      BY <1>14, <2>3 DEF Release, Abandon, AskRelease, Unreleased, Push
    <3>2. phase'[c] = "closed" /\ (io' = io \/ io'.at # "answering")
      BY <1>0, <1>1, <3>1
    <3>3. \A d, other : OnItsWay(d, other)' => OnItsWay(d, other)
      BY <1>5, <2>1, <3>1, <3>2
    <3>4. StageOf(c)'
      BY <2>2, <3>2, <3>3 DEF StageOf
    <3> QED
      BY <1>4, <3>1, <3>3, <3>4
  <2>4. CASE AskRelease(c)
    <3>1. /\ phase' = [phase EXCEPT ![c] = "releasing"] /\ io' = io
          /\ Push(Job(c, "ReleaseHandle"))
      BY <1>14, <2>4 DEF Release, Abandon, AskRelease, Unreleased, Push
    <3>2. phase'[c] = "releasing"
      BY <1>1, <3>1
    <3>3. \A d, other : OnItsWay(d, other)' =>
                          OnItsWay(d, other) \/ (d = c /\ other = "ReleaseHandle")
      BY <1>6, <1>7, <2>1, <2>2, <3>1
    <3>4. StageOf(c)'
      BY <1>7, <2>2, <3>2, <3>3 DEF StageOf
    <3> QED
      BY <1>4, <3>1, <3>3, <3>4
  <2> QED
    BY <1>14, <2>3, <2>4 DEF Release
\* An answer ends the phase its command stands for.
<1>15. ASSUME NEW c \in Builders, NEW command \in CommandNames, Answering(c, command),
              io'.at # "answering", pending' = pending,
              Listed(jobs', c, command) => Listed(jobs, c, command)
       PROVE  ~OnItsWay(c, command)'
  BY <1>15 DEF Once, OnItsWay, Answering
<1>16. CASE BuildAnswered
  <2>1. PICK c \in Builders : /\ io.job.client = c /\ io.job.command = RequestOf(c)
                             /\ io.at = "answering" /\ RequestOf(c) \in CommandNames
    BY <1>16, JobClients
       DEF BuildAnswered, Completes, TypeInv, Completing, RequestCommands, OtherCommands
  <2>2. pending' = pending /\ io'.at # "answering"
    <3> DEFINE destroying == [IdleIo EXCEPT !.at = "destroying", !.job = io.job]
    <3>1. destroying.at = "destroying" /\ IdleIo.at = "idle"
      BY DEF IdleIo
    <3>2. io' \in {IdleIo, destroying} /\ pending' = pending
      BY <1>16 DEF BuildAnswered
    <3> HIDE DEF destroying
    <3> QED
      BY <3>1, <3>2
  <2>3. ConstructLink(c, "building") \/ (Goto(c, "building", "failed") /\ jobs' = jobs)
    BY <1>16, <2>1 DEF BuildAnswered
  <2>4. Answering(c, RequestOf(c))
    BY <2>1 DEF Answering, Is
  <2>5. CASE Goto(c, "building", "failed") /\ jobs' = jobs
    <3>1. ~OnItsWay(c, RequestOf(c))'
      BY <1>15, <2>1, <2>2, <2>4, <2>5
    <3> QED
      BY <1>9, <2>2, <2>5, <3>1
  <2>6. CASE ConstructLink(c, "building")
    <3>1. phase[c] = "building" /\ Push(Job(c, "StartScanOutput"))
      BY <2>6 DEF ConstructLink, Goto
    <3>2. Job(c, "StartScanOutput") \in Jobs
      BY <1>7, <2>1, SubmittedJobs
    <3>3. Listed(jobs', c, RequestOf(c)) => Listed(jobs, c, RequestOf(c))
      BY <1>7, <2>1, <3>1, <3>2, PushFacts DEF TypeInv, Queues, Is, Job
    <3>4. ~OnItsWay(c, RequestOf(c))'
      BY <1>15, <2>1, <2>2, <2>4, <3>3
    <3> QED
      BY <1>8, <2>2, <2>6, <3>4
  <2> QED
    BY <2>3, <2>5, <2>6
<1>17. ASSUME StopAnswered \/ ReleaseAnswered
       PROVE  Stages'
  <2>1. PICK c \in Builders, command \in CommandNames :
          /\ io.at = "answering" /\ io.job.client = c /\ io.job.command = command
          /\ Answering(c, command)
    BY <1>17, JobClients
       DEF StopAnswered, ReleaseAnswered, Completes, TypeInv, Completing, OtherCommands,
           Answering, Is
  <2>2. io'.at # "answering" /\ jobs' = jobs /\ pending' = pending
    BY <1>0, <1>17 DEF StopAnswered, ReleaseAnswered
  <2>3. ~OnItsWay(c, command)'
    BY <1>15, <2>1, <2>2
  <2>4. \A d, other : OnItsWay(d, other)' => OnItsWay(d, other)
    BY <1>5, <2>2
  <2>5. CASE StopAnswered
    <3>1. /\ command = "StopScanOutput" /\ phase[c] = "stopping"
          /\ phase' = [phase EXCEPT ![c] = "stopped"]
      BY <2>1, <2>5 DEF StopAnswered, Completes, Goto
    <3>2. phase'[c] = "stopped"
      BY <1>1, <2>1, <3>1
    <3>3. StageOf(c)'
      BY <2>1, <2>3, <2>4, <3>1, <3>2 DEF StageOf, Stages
    <3> QED
      BY <1>4, <2>1, <2>4, <3>1, <3>3
  <2>6. CASE ReleaseAnswered
    <3>1. /\ command = "ReleaseHandle" /\ phase[c] = "releasing"
          /\ phase' = [phase EXCEPT ![c] = "closed"]
      BY <2>1, <2>6 DEF ReleaseAnswered, Completes, Goto
    <3>2. phase'[c] = "closed"
      BY <1>1, <2>1, <3>1
    <3>3. StageOf(c)'
      BY <2>1, <2>3, <2>4, <3>1, <3>2 DEF StageOf, Stages
    <3> QED
      BY <1>4, <2>1, <2>4, <3>1, <3>3
  <2> QED
    BY <1>17, <2>5, <2>6
<1>18. ASSUME NEW c \in Builders, Drop(c) \/ Revoke(c)
       PROVE  Stages'
  BY <1>3, <1>5, <1>18 DEF Drop, Revoke
<1>19. CASE LookupEnds \/ StartAnswered \/ OperatorAnswered
  <2>1. IdleIo.at # "answering"
    BY DEF IdleIo
  <2> QED
    BY <1>3, <1>5, <1>19, <2>1 DEF LookupEnds, StartAnswered, OperatorAnswered
<1>20. CASE WorkerTakes
  BY <1>3, <1>20, WorkerTakesFacts DEF TypeInv, OnItsWay, Answering
<1>21. ASSUME NEW outcome \in Outcomes, IoTakes(outcome)
       PROVE  Stages'
  <2>1. /\ \A c, command : OnItsWay(c, command)' => OnItsWay(c, command)
        /\ phase' = phase
    BY <1>21, IoTakesFacts DEF TypeInv, OnItsWay
  <2> QED
    BY <1>3, <2>1
<1>22. ASSUME NEW command \in OtherCommands, Operate(command)
       PROVE  Stages'
  <2>1. Job(Operator, command) \in Jobs /\ Job(Operator, command).client = Operator
    BY BuilderAssumption DEF Job, Jobs, CommandNames
  <2>2. \A d, other : OnItsWay(d, other)' =>
                        OnItsWay(d, other) \/ Is(Job(Operator, command), d, other)
    BY <1>22, <2>1, BuilderAssumption, SubmitFacts DEF TypeInv, Operate, Push
  <2> QED
    BY <1>3, <1>22, <2>1, <2>2, BuilderAssumption DEF Is, Operate
<1>23. ASSUME NEW command \in OtherCommands, NEW outcome \in Outcomes, OperateNow(command, outcome)
       PROVE  Stages'
  BY <1>3, <1>5, <1>23 DEF OperateNow
<1>24. CASE UNCHANGED vars
  BY <1>3, <1>5, <1>24 DEF vars
<1> QED
  BY <1>10, <1>11, <1>12, <1>13, <1>14, <1>16, <1>17, <1>18, <1>19, <1>20, <1>21, <1>22, <1>23,
     <1>24, StepCases

-----------------------------------------------------------------------------
(* The handles                                                             *)

\* A build's handle is not granted before its request has reached the device,
\* and the answer on its way tells what became of it.
GrantOf(c) == /\ phase[c] = "idle" => c \notin held
              /\ Listed(jobs, c, RequestOf(c)) \/ Listed(pending, c, RequestOf(c)) => c \notin held
              /\ Answering(c, RequestOf(c)) =>
                   IF Delivered(RequestOf(c), io.answer)[1].result = "SUCCESS"
                   THEN c \in held \cup revoked ELSE c \in held => c \in lost
              /\ Answering(c, "ReleaseHandle") /\ c \in held => c \in lost

Owning == {"linked", "stopping", "stopped", "unstopped", "releasing"}

\* HandlesAccounted, for one build.
Account(c) == /\ c \in held => \/ c \in lost
                               \/ phase[c] \in Owning
                               \/ phase[c] = "building" /\ io.at = "answering"
                                  /\ io.job.client = c
              /\ phase[c] = "linked" => c \in held \cup revoked

Grants == \A c \in Builders : GrantOf(c) /\ Account(c)

\* A request tells success when the device has granted the handle and its answer
\* is not lost, and then only.
LEMMA GrantsAreTold ==
  ASSUME NEW job \in Jobs, job.command \in RequestCommands, NEW outcome \in Outcomes
  PROVE  /\ Delivered(job.command, AnswerTo(job, outcome))[1].result = "SUCCESS"
              <=> outcome = "done" /\ Accepts(job)
         /\ CompletedNow(job.command, AnswerNow(job, outcome)).result = "SUCCESS"
              <=> outcome = "done" /\ Accepts(job)
<1> DEFINE full == InfoFields \cup {"port", "handle", "parameters"} \cup Parameters
<1>1. /\ HttpGet(Whole(full)) = Answer("SUCCESS", full)
      /\ HttpGet([Whole({}) EXCEPT !.body = "refused"]) = Failure("SUCCESS")
      /\ HttpGet([Whole({}) EXCEPT !.ended = FALSE]) = Failure("FAILED")
  BY DEF HttpGet, Whole, Parsed, requestResultFromCode, NoStatus, Failure, Answer
<1>2. /\ Answer("SUCCESS", full) # Unparsable /\ Failure("SUCCESS") # Unparsable
      /\ Failure("FAILED") # Unparsable
  BY DEF Answer, Failure, Unparsable
<1>3. /\ Completed(job.command, Answer("SUCCESS", full)).result = "SUCCESS"
      /\ Completed(job.command, Answer("SUCCESS", full)) # Throws
  BY DEF Completed, RequestTcpHandle, RequestUdpHandle, Extracted, Answer, Told, Throws,
         RequestCommands
<1>4. Completed(job.command, Failure("SUCCESS")) = Throws
  BY DEF Completed, RequestTcpHandle, RequestUdpHandle, Extracted, Answer, Failure, Throws,
         RequestCommands
<1>5. ASSUME NEW result \in {"FAILED", "TIMEOUT"}
      PROVE  /\ Completed(job.command, Failure(result)).result = result
             /\ Completed(job.command, Failure(result)) # Throws
  BY DEF Completed, RequestTcpHandle, RequestUdpHandle, ResultOnly, Answer, Failure, Told, Throws,
         RequestCommands
<1>6. Throws.result = "exception" /\ Answer("FAILED", {}) = Failure("FAILED")
  BY DEF Throws, Told, Failure
<1>7. CompletedNow(job.command, AnswerNow(job, outcome))
        = Completed(job.command, AnswerNow(job, outcome))
  BY DEF CompletedNow, RequestCommands
<1>8. CASE outcome = "unreached"
  <2>1. /\ AnswerTo(job, outcome) = Failure("TIMEOUT")
        /\ AnswerNow(job, outcome) = Failure("FAILED")
    BY <1>8 DEF AnswerTo, AnswerNow, Synchronously
  <2> QED
    BY <1>5, <1>6, <1>7, <1>8, <2>1 DEF Delivered
<1>9. CASE outcome = "lost"
  <2>1. /\ AnswerTo(job, outcome) = Failure("FAILED")
        /\ AnswerNow(job, outcome) = Failure("FAILED")
    BY <1>1, <1>2, <1>9 DEF AnswerTo, AnswerNow, Synchronously, Asynchronously, ExchangeOf
  <2> QED
    BY <1>5, <1>6, <1>7, <1>9, <2>1 DEF Delivered
<1>10. CASE outcome = "done" /\ Accepts(job)
  <2>1. /\ AnswerTo(job, outcome) = Answer("SUCCESS", full)
        /\ AnswerNow(job, outcome) = Answer("SUCCESS", full)
    BY <1>1, <1>2, <1>10 DEF AnswerTo, AnswerNow, Synchronously, Asynchronously, ExchangeOf
  <2> QED
    BY <1>3, <1>7, <1>10, <2>1 DEF Delivered
<1>11. CASE outcome = "done" /\ ~Accepts(job)
  <2>1. /\ AnswerTo(job, outcome) = Failure("SUCCESS")
        /\ AnswerNow(job, outcome) = Failure("SUCCESS")
    BY <1>1, <1>2, <1>11 DEF AnswerTo, AnswerNow, Synchronously, Asynchronously, ExchangeOf
  <2> QED
    BY <1>4, <1>5, <1>6, <1>7, <1>11, <2>1 DEF Delivered
<1> QED
  BY <1>8, <1>9, <1>10, <1>11 DEF Outcomes

\* What serving a command does to the handle of a builder.
LEMMA ServeFacts ==
  ASSUME NEW job \in Jobs, NEW outcome \in Outcomes, Serve(job, outcome), NEW c \in Builders
  PROVE  /\ c \in held' /\ c \notin held => Is(job, c, RequestOf(c)) /\ Executes(job, outcome)
         /\ Is(job, c, RequestOf(c)) /\ Executes(job, outcome) => c \in held'
         /\ c \in held \cup revoked => c \in held' \cup revoked' \/ Is(job, c, "ReleaseHandle")
         /\ Is(job, c, "ReleaseHandle") /\ Executes(job, outcome) => c \notin held'
<1>1. job.command \in RequestCommands => job.command = RequestOf(job.client)
  BY JobClients
<1>2. RequestOf(c) \in RequestCommands /\ "ReleaseHandle" \notin RequestCommands
      /\ "RebootDevice" \notin RequestCommands
  BY DEF RequestOf, RequestCommands
<1>3. CASE ~Executes(job, outcome)
  BY <1>3 DEF Serve, deviceVars
<1>4. CASE Executes(job, outcome) /\ job.command \in RequestCommands
  BY <1>1, <1>2, <1>4 DEF Serve, Is
<1>5. CASE Executes(job, outcome) /\ job.command = "ReleaseHandle"
  BY <1>2, <1>5 DEF Serve, Is
<1>6. CASE Executes(job, outcome) /\ job.command = "RebootDevice"
  BY <1>2, <1>6 DEF Serve, Is
<1>7. CASE Executes(job, outcome)
           /\ job.command \notin RequestCommands \cup {"ReleaseHandle", "RebootDevice"}
  BY <1>2, <1>7 DEF Serve, Is, deviceVars
<1> QED
  BY <1>3, <1>4, <1>5, <1>6, <1>7

\* A step that touches nothing of a build keeps its account.
LEMMA Untouched ==
  ASSUME NEW c \in Builders, GrantOf(c), Account(c), phase'[c] = phase[c],
         c \in held' => c \in held,
         c \in held \cup revoked => c \in held' \cup revoked',
         c \in lost => c \in lost',
         Listed(jobs', c, RequestOf(c)) \/ Listed(pending', c, RequestOf(c))
           => Listed(jobs, c, RequestOf(c)) \/ Listed(pending, c, RequestOf(c)),
         \A command : Answering(c, command)' => Answering(c, command) /\ io' = io,
         phase[c] = "building" /\ io.at = "answering" /\ io.job.client = c => io' = io
  PROVE  (GrantOf(c) /\ Account(c))'
<1>1. GrantOf(c)'
  BY DEF GrantOf
<1>2. Account(c)'
  BY DEF Account
<1> QED
  BY <1>1, <1>2

LEMMA GrantsHold ==
  ASSUME TypeInv, Stages, Once, Grants, [Next]_vars
  PROVE  Grants'
<1>0. IdleIo.at = "idle"
  BY DEF IdleIo
<1> USE DEF deviceVars, historyVars, buildVars, operatorVars
<1>1. Stages' /\ phase \in [Builders -> Phases]
  BY StagesHold DEF TypeInv, Places
\* Steps that keep what is on its way.
<1>2. ASSUME NEW c \in Builders, jobs' = jobs, pending' = pending, io' = io, phase'[c] = phase[c],
             c \in held' => c \in held,
             c \in held \cup revoked => c \in held' \cup revoked', c \in lost => c \in lost'
      PROVE  (GrantOf(c) /\ Account(c))'
  BY <1>2, Untouched DEF Grants, Answering
\* Steps that submit a command of another client, or another command.
<1>3. ASSUME NEW c \in Builders, NEW job \in Jobs, Push(job), ~Is(job, c, RequestOf(c)),
             pending' = pending, io' = io, phase'[c] = phase[c],
             c \in held' => c \in held,
             c \in held \cup revoked => c \in held' \cup revoked', c \in lost => c \in lost'
      PROVE  (GrantOf(c) /\ Account(c))'
  <2>1. Listed(jobs', c, RequestOf(c)) => Listed(jobs, c, RequestOf(c))
    BY <1>3, PushFacts DEF TypeInv, Queues
  <2> QED
    BY <1>3, <2>1, Untouched DEF Grants, Answering
\* A build that has nothing on its way that tells of its handle.
<1>4. ASSUME NEW c \in Builders, phase'[c] \notin {"idle", "building", "releasing"}
      PROVE  GrantOf(c)'
  <2>1. ~OnItsWay(c, RequestOf(c))' /\ ~OnItsWay(c, "ReleaseHandle")'
    BY <1>1, <1>4 DEF Stages
  <2> QED
    BY <1>4, <2>1 DEF GrantOf, OnItsWay
<1>5. ASSUME NEW b \in Builders, NEW outcome \in Outcomes, BuildNow(b, outcome)
      PROVE  Grants'
  <2> DEFINE job == Job(b, RequestOf(b))
  <2>1. /\ job \in Jobs /\ job.client = b /\ job.command = RequestOf(b)
        /\ job.command \in RequestCommands
    BY SubmittedJobs DEF Job, BuilderCommands, RequestOf, RequestCommands
  <2>2. Serve(job, outcome)
    BY <1>5 DEF BuildNow
  <2>3. /\ phase[b] = "idle" /\ phase' \in {[phase EXCEPT ![b] = "linked"],
                                            [phase EXCEPT ![b] = "failed"]}
        /\ pending' = pending /\ io' = io
        /\ lost' = IF Loses(job, outcome) THEN lost \cup {b} ELSE lost
        /\ (jobs' = jobs \/ Push(Job(b, "StartScanOutput")))
    BY <1>5 DEF BuildNow, ConstructLink, Goto
  <2>4. ASSUME NEW c \in Builders, c # b
        PROVE  (GrantOf(c) /\ Account(c))'
    <3>1. /\ c \in held' => c \in held
          /\ c \in held \cup revoked => c \in held' \cup revoked'
      BY <2>1, <2>2, <2>4, ServeFacts DEF Is
    <3>2. phase'[c] = phase[c] /\ (c \in lost => c \in lost')
      BY <1>1, <2>3, <2>4
    <3>3. CASE jobs' = jobs
      BY <1>2, <2>3, <3>1, <3>2, <3>3
    <3>4. CASE Push(Job(b, "StartScanOutput"))
      <4>1. Job(b, "StartScanOutput") \in Jobs /\ ~Is(Job(b, "StartScanOutput"), c, RequestOf(c))
        BY <2>4, SubmittedJobs DEF Job, BuilderCommands, HandleCommands, Is
      <4> QED
        BY <1>3, <2>3, <3>1, <3>2, <3>4, <4>1
    <3> QED
      BY <2>3, <3>3, <3>4
  <2>5. b \notin held
    BY <2>3 DEF Grants, GrantOf
  <2>6. CASE outcome = "done" /\ Accepts(job)
    <3>1. CompletedNow(job.command, AnswerNow(job, outcome)).result = "SUCCESS"
      BY <2>1, <2>6, GrantsAreTold
    <3>2. phase' = [phase EXCEPT ![b] = "linked"]
      BY <1>5, <3>1 DEF BuildNow, ConstructLink, Goto
    <3>3. b \in held'
      BY <2>1, <2>2, <2>6, ServeFacts DEF Is, Executes
    <3>4. (GrantOf(b) /\ Account(b))'
      BY <1>1, <1>4, <3>2, <3>3 DEF Account, Owning
    <3> QED
      BY <2>4, <3>4 DEF Grants
  <2>7. CASE ~(outcome = "done" /\ Accepts(job))
    <3>1. CompletedNow(job.command, AnswerNow(job, outcome)).result # "SUCCESS"
      BY <2>1, <2>7, GrantsAreTold
    <3>2. phase' = [phase EXCEPT ![b] = "failed"]
      BY <1>5, <3>1 DEF BuildNow, Goto
    <3>3. b \in held' => b \in lost'
      <4>1. b \in held' => Executes(job, outcome)
        BY <2>1, <2>2, <2>5, ServeFacts
      <4>2. Executes(job, outcome) => Loses(job, outcome)
        BY <2>1, <2>7 DEF Executes, Loses
      <4> QED
        BY <2>3, <4>1, <4>2
    <3>4. (GrantOf(b) /\ Account(b))'
      BY <1>1, <1>4, <3>2, <3>3 DEF Account
    <3> QED
      BY <2>4, <3>4 DEF Grants
  <2> QED
    BY <2>6, <2>7
\* A build goes on, and the device does nothing.
<1>6. ASSUME NEW b \in Builders, NEW to, phase' = [phase EXCEPT ![b] = to],
             (GrantOf(b) /\ Account(b))', pending' = pending, io' = io,
             jobs' = jobs \/ \E command \in BuilderCommands(b) : Push(Job(b, command)),
             held' = held, revoked' = revoked, \A c \in Builders : c \in lost => c \in lost'
      PROVE  Grants'
  <2>1. ASSUME NEW c \in Builders, c # b
        PROVE  (GrantOf(c) /\ Account(c))'
    <3>1. phase'[c] = phase[c]
      BY <1>1, <1>6, <2>1
    <3>2. CASE jobs' = jobs
      BY <1>2, <1>6, <3>1, <3>2
    <3>3. ASSUME NEW command \in BuilderCommands(b), Push(Job(b, command))
          PROVE  (GrantOf(c) /\ Account(c))'
      <4>1. Job(b, command) \in Jobs /\ ~Is(Job(b, command), c, RequestOf(c))
        BY <2>1, SubmittedJobs DEF Job, Is
      <4> QED
        BY <1>3, <1>6, <3>1, <3>3, <4>1
    <3> QED
      BY <1>6, <3>2, <3>3
  <2> QED
    BY <1>6, <2>1 DEF Grants
<1>7. ASSUME NEW b \in Builders, BuildThrows(b)
      PROVE  Grants'
  <2>1. /\ phase[b] = "idle" /\ phase' = [phase EXCEPT ![b] = "failed"]
        /\ jobs' = jobs /\ pending' = pending /\ io' = io /\ held' = held /\ revoked' = revoked
        /\ lost' = lost
    BY <1>7 DEF BuildThrows, Goto
  <2>2. (GrantOf(b) /\ Account(b))'
    BY <1>1, <1>4, <2>1 DEF Grants, GrantOf, Account
  <2> QED
    BY <1>6, <2>1, <2>2
<1>8. ASSUME NEW b \in Builders, BuildLater(b)
      PROVE  Grants'
  <2>1. /\ phase[b] = "idle" /\ Push(Job(b, RequestOf(b))) /\ pending' = pending /\ io' = io
        /\ held' = held /\ revoked' = revoked /\ lost' = lost
        /\ phase' \in {[phase EXCEPT ![b] = "failed"], [phase EXCEPT ![b] = "building"]}
    BY <1>8 DEF BuildLater, Goto, Push
  <2>2. RequestOf(b) \in BuilderCommands(b)
    BY DEF BuilderCommands
  <2>3. phase'[b] \in {"failed", "building"} /\ b \notin held'
    BY <1>1, <2>1 DEF Grants, GrantOf
  <2>4. ~OnItsWay(b, RequestOf(b)) /\ ~OnItsWay(b, "ReleaseHandle")
    BY <2>1 DEF Stages
  <2>5. GrantOf(b)'
    BY <2>1, <2>3, <2>4 DEF GrantOf, OnItsWay, Answering
  <2>6. Account(b)'
    BY <2>3 DEF Account
  <2> QED
    BY <1>6, <2>1, <2>2, <2>5, <2>6
<1>9. ASSUME NEW b \in Builders, DestroyLink(b)
      PROVE  Grants'
  <2>1. PICK to \in {"unstopped", "stopping"} :
          /\ phase[b] = "linked" /\ phase' = [phase EXCEPT ![b] = to]
          /\ Push(Job(b, "StopScanOutput")) /\ pending' = pending /\ io' = io
          /\ held' = held /\ revoked' = revoked /\ lost' = lost
    BY <1>9 DEF DestroyLink, Goto, AfterRefusal, Push
  <2>2. "StopScanOutput" \in BuilderCommands(b) /\ phase'[b] \in {"stopping", "unstopped"}
    BY <1>1, <2>1 DEF BuilderCommands, HandleCommands
  <2>3. (GrantOf(b) /\ Account(b))'
    BY <1>4, <2>2 DEF Account, Owning
  <2> QED
    BY <1>6, <2>1, <2>2, <2>3
<1>10. ASSUME NEW b \in Builders, Release(b)
       PROVE  Grants'
  <2>1. /\ phase[b] \in {"stopped", "unstopped"} /\ pending' = pending
        /\ held' = held /\ revoked' = revoked
    BY <1>10 DEF Release
  <2>2. CASE Abandon(b)
    <3>1. /\ phase' = [phase EXCEPT ![b] = "closed"] /\ jobs' = jobs
          /\ lost' = IF b \in held THEN lost \cup {b} ELSE lost
          /\ io' = io \/ (io' = IdleIo /\ io.at = "destroying")
      BY <1>10, <2>2 DEF Release, Abandon, AskRelease, Unreleased, Push
    <3>2. ASSUME NEW c \in Builders, c # b
          PROVE  (GrantOf(c) /\ Account(c))'
      <4>1. phase'[c] = phase[c]
        BY <1>1, <3>1, <3>2
      <4> QED
        BY <1>0, <2>1, <3>1, <4>1, Untouched DEF Grants, Answering
    <3>3. (GrantOf(b) /\ Account(b))'
      BY <1>1, <1>4, <2>1, <3>1 DEF Account
    <3> QED
      BY <3>2, <3>3 DEF Grants
  <2>3. CASE AskRelease(b)
    <3>1. /\ phase' = [phase EXCEPT ![b] = "releasing"] /\ io' = io
          /\ Push(Job(b, "ReleaseHandle")) /\ lost' = lost
      BY <1>10, <2>3 DEF Release, Abandon, AskRelease, Unreleased, Push
    <3>2. "ReleaseHandle" \in BuilderCommands(b) /\ phase'[b] = "releasing"
      BY <1>1, <3>1 DEF BuilderCommands, HandleCommands
    <3>3. ~OnItsWay(b, RequestOf(b))'
      BY <1>1, <3>2 DEF Stages
    <3>4. ~OnItsWay(b, "ReleaseHandle")
      BY <2>1 DEF Stages
    <3>5. GrantOf(b)'
      BY <3>1, <3>2, <3>3, <3>4 DEF GrantOf, OnItsWay, Answering
    <3>6. Account(b)'
      BY <3>2 DEF Account, Owning
    <3> QED
      BY <1>6, <2>1, <3>1, <3>2, <3>5, <3>6
  <2> QED
    BY <1>10, <2>2, <2>3 DEF Release
<1>11. ASSUME NEW b \in Builders, Drop(b) \/ Revoke(b)
       PROVE  Grants'
  BY <1>2, <1>11 DEF Drop, Revoke, Grants
<1>12. CASE WorkerTakes
  <2>1. /\ phase' = phase /\ io' = io /\ held' = held /\ revoked' = revoked /\ lost' = lost
        /\ \A c, command :
             Listed(jobs', c, command) \/ Listed(pending', c, command)
               => Listed(jobs, c, command) \/ Listed(pending, c, command)
    BY <1>12, WorkerTakesFacts DEF TypeInv, WorkerTakes
  <2>2. ASSUME NEW c \in Builders
        PROVE  (GrantOf(c) /\ Account(c))'
    BY <2>1, Untouched DEF Grants, Answering
  <2> QED
    BY <2>2 DEF Grants
<1>13. ASSUME NEW outcome \in Outcomes, IoTakes(outcome)
       PROVE  Grants'
  <2>1. PICK job \in Jobs :
          /\ Serve(job, outcome)
          /\ lost' = IF Loses(job, outcome) THEN lost \cup {job.client} ELSE lost
          /\ io' = [at |-> "answering", job |-> job, answer |-> AnswerTo(job, outcome)]
          /\ \A c, command :
               /\ Listed(pending, c, command) <=> Listed(pending', c, command)
                                                  \/ Is(job, c, command)
               /\ Answering(c, command)' <=> Is(job, c, command)
          /\ Unique(pending) => /\ Unique(pending')
                                /\ job.client \in Builders
                                     => ~Listed(pending', job.client, job.command)
          /\ io.at = "idle" /\ phase' = phase /\ jobs' = jobs
    BY <1>13, IoTakesFacts DEF TypeInv
  <2>2. \A c \in Builders :
          /\ c \in held' /\ c \notin held => Is(job, c, RequestOf(c)) /\ Executes(job, outcome)
          /\ Is(job, c, RequestOf(c)) /\ Executes(job, outcome) => c \in held'
          /\ c \in held \cup revoked => c \in held' \cup revoked' \/ Is(job, c, "ReleaseHandle")
          /\ Is(job, c, "ReleaseHandle") /\ Executes(job, outcome) => c \notin held'
    BY <2>1, ServeFacts
  <2>3. ASSUME NEW c \in Builders, ~Is(job, c, RequestOf(c)), ~Is(job, c, "ReleaseHandle")
        PROVE  (GrantOf(c) /\ Account(c))'
    <3>1. GrantOf(c)'
      BY <2>1, <2>2, <2>3 DEF Grants, GrantOf
    <3>2. Account(c)'
      BY <2>1, <2>2, <2>3 DEF Grants, Account
    <3> QED
      BY <3>1, <3>2
  <2>4. ASSUME NEW c \in Builders, Is(job, c, RequestOf(c))
        PROVE  (GrantOf(c) /\ Account(c))'
    <3>1. /\ Listed(pending, c, RequestOf(c)) /\ c \notin held /\ phase[c] = "building"
          /\ RequestOf(c) \in CommandNames /\ job.command \in RequestCommands
          /\ RequestOf(c) # "ReleaseHandle"
      BY <2>1, <2>4
         DEF Grants, GrantOf, Stages, OnItsWay, RequestOf, CommandNames, RequestCommands, Is
    <3>2. ~Listed(jobs', c, RequestOf(c)) /\ ~Listed(pending', c, RequestOf(c))
      BY <2>1, <2>4, <3>1 DEF Once, Is
    <3>3. IF Delivered(RequestOf(c), io'.answer)[1].result = "SUCCESS"
          THEN c \in held' \cup revoked' ELSE c \in held' => c \in lost'
      <4>1. Delivered(job.command, AnswerTo(job, outcome))[1].result = "SUCCESS"
              <=> outcome = "done" /\ Accepts(job)
        BY <3>1, GrantsAreTold
      <4>2. job.command = RequestOf(c) /\ job.client = c /\ io'.answer = AnswerTo(job, outcome)
        BY <2>1, <2>4 DEF Is
      <4>3. CASE outcome = "done" /\ Accepts(job)
        BY <2>2, <2>4, <4>1, <4>2, <4>3 DEF Executes
      <4>4. CASE ~(outcome = "done" /\ Accepts(job))
        <5>1. c \in held' => Loses(job, outcome)
          BY <2>2, <3>1, <4>4 DEF Executes, Loses
        <5> QED
          BY <2>1, <4>1, <4>2, <4>4, <5>1
      <4> QED
        BY <4>3, <4>4
    <3>4. ~Answering(c, "ReleaseHandle")'
      BY <2>1, <2>4, <3>1 DEF Is
    <3>5. GrantOf(c)'
      BY <2>1, <3>1, <3>2, <3>3, <3>4 DEF GrantOf
    <3>6. Account(c)'
      BY <2>1, <2>4, <3>1 DEF Account, Is
    <3> QED
      BY <3>5, <3>6
  <2>5. ASSUME NEW c \in Builders, Is(job, c, "ReleaseHandle")
        PROVE  (GrantOf(c) /\ Account(c))'
    <3>1. phase[c] = "releasing"
      BY <2>1, <2>5 DEF Stages, OnItsWay
    <3>2. ~OnItsWay(c, RequestOf(c))'
      BY <1>1, <2>1, <3>1 DEF Stages
    <3>3. c \in held' => c \in lost'
      <4>1. c \in held' => c \in held /\ ~Executes(job, outcome)
        BY <2>2, <2>5 DEF Is, RequestOf
      <4>2. c \in held' => Loses(job, outcome)
        BY <2>5, <4>1 DEF Loses, Is
      <4> QED
        BY <2>1, <2>5, <4>2 DEF Is
    <3>4. GrantOf(c)'
      BY <2>1, <3>1, <3>2, <3>3 DEF GrantOf, OnItsWay
    <3>5. Account(c)'
      BY <2>1, <3>1 DEF Account, Owning
    <3> QED
      BY <3>4, <3>5
  <2> QED
    BY <2>3, <2>4, <2>5 DEF Grants
\* An answer of builder b has been delivered.
<1>14. ASSUME NEW b \in Builders, io.at = "answering", io.job.client = b, io'.at # "answering",
              NEW to, phase' = [phase EXCEPT ![b] = to], (GrantOf(b) /\ Account(b))',
              pending' = pending, jobs' = jobs \/ Push(Job(b, "StartScanOutput")),
              held' = held, revoked' = revoked, lost' = lost
       PROVE  Grants'
  <2>1. ASSUME NEW c \in Builders, c # b
        PROVE  (GrantOf(c) /\ Account(c))'
    <3>1. phase'[c] = phase[c]
      BY <1>1, <1>14, <2>1
    <3>2. Listed(jobs', c, RequestOf(c)) => Listed(jobs, c, RequestOf(c))
      <4>1. Job(b, "StartScanOutput") \in Jobs /\ ~Is(Job(b, "StartScanOutput"), c, RequestOf(c))
        BY <2>1, SubmittedJobs DEF Job, BuilderCommands, HandleCommands, Is
      <4> QED
        BY <1>14, <4>1, PushFacts DEF TypeInv, Queues
    <3> QED
      BY <1>14, <2>1, <3>1, <3>2, Untouched DEF Grants, Answering
  <2> QED
    BY <1>14, <2>1 DEF Grants
<1>15. CASE BuildAnswered
  <2>1. PICK b \in Builders : /\ io.job.client = b /\ io.job.command = RequestOf(b)
                             /\ io.at = "answering" /\ RequestOf(b) \in CommandNames
    BY <1>15, JobClients
       DEF BuildAnswered, Completes, TypeInv, Completing, RequestCommands, OtherCommands
  <2>2. pending' = pending /\ io'.at # "answering"
    <3> DEFINE destroying == [IdleIo EXCEPT !.at = "destroying", !.job = io.job]
    <3>1. destroying.at = "destroying"
      BY DEF IdleIo
    <3>2. io' \in {IdleIo, destroying} /\ pending' = pending
      BY <1>15 DEF BuildAnswered
    <3> HIDE DEF destroying
    <3> QED
      BY <1>0, <3>1, <3>2
  <2>3. held' = held /\ revoked' = revoked /\ lost' = lost
    BY <1>15 DEF BuildAnswered
  <2> DEFINE results == Delivered(io.job.command, io.answer)
  <2>4. Len(results) = 1
    BY DEF Delivered
  <2>5. IF results[1].result = "SUCCESS" THEN b \in held \cup revoked ELSE b \in held => b \in lost
    BY <2>1 DEF Grants, GrantOf, Answering, Is
  <2>6. IF results[1].result = "SUCCESS"
        THEN ConstructLink(b, "building") ELSE Goto(b, "building", "failed") /\ jobs' = jobs
    BY <1>15, <2>1, <2>4 DEF BuildAnswered
  <2> HIDE DEF results
  <2>7. CASE results[1].result = "SUCCESS"
    <3>1. phase' = [phase EXCEPT ![b] = "linked"] /\ Push(Job(b, "StartScanOutput"))
      BY <2>6, <2>7 DEF ConstructLink, Goto
    <3>2. (GrantOf(b) /\ Account(b))'
      BY <1>1, <1>4, <2>3, <2>5, <2>7, <3>1 DEF Account, Owning
    <3> QED
      BY <1>14, <2>1, <2>2, <2>3, <3>1, <3>2
  <2>8. CASE results[1].result # "SUCCESS"
    <3>1. phase' = [phase EXCEPT ![b] = "failed"] /\ jobs' = jobs
      BY <2>6, <2>8 DEF Goto
    <3>2. (GrantOf(b) /\ Account(b))'
      BY <1>1, <1>4, <2>3, <2>5, <2>8, <3>1 DEF Account
    <3> QED
      BY <1>14, <2>1, <2>2, <2>3, <3>1, <3>2
  <2> QED
    BY <2>7, <2>8
<1>16. CASE StopAnswered \/ ReleaseAnswered
  <2>1. PICK b \in Builders : io.at = "answering" /\ io.job.client = b
    BY <1>16, JobClients
       DEF StopAnswered, ReleaseAnswered, Completes, TypeInv, Completing, OtherCommands
  <2>2. /\ io'.at # "answering" /\ jobs' = jobs /\ pending' = pending
        /\ held' = held /\ revoked' = revoked /\ lost' = lost
    BY <1>0, <1>16 DEF StopAnswered, ReleaseAnswered
  <2>3. CASE StopAnswered
    <3>1. phase' = [phase EXCEPT ![b] = "stopped"]
      BY <2>1, <2>3 DEF StopAnswered, Goto
    <3>2. (GrantOf(b) /\ Account(b))'
      BY <1>1, <1>4, <3>1 DEF Account, Owning
    <3> QED
      BY <1>14, <2>1, <2>2, <3>1, <3>2
  <2>4. CASE ReleaseAnswered
    <3>1. phase' = [phase EXCEPT ![b] = "closed"] /\ Answering(b, "ReleaseHandle")
      BY <2>1, <2>4 DEF ReleaseAnswered, Completes, Goto, Answering, Is
    <3>2. b \in held => b \in lost
      BY <3>1 DEF Grants, GrantOf
    <3>3. (GrantOf(b) /\ Account(b))'
      BY <1>1, <1>4, <2>2, <3>1, <3>2 DEF Account
    <3> QED
      BY <1>14, <2>1, <2>2, <3>1, <3>3
  <2> QED
    BY <1>16, <2>3, <2>4
<1>17. CASE LookupEnds \/ UNCHANGED vars
  BY <1>2, <1>17 DEF LookupEnds, Grants, vars
<1>18. CASE StartAnswered \/ OperatorAnswered
  <2>1. /\ jobs' = jobs /\ pending' = pending /\ phase' = phase /\ io'.at # "answering"
        /\ held' = held /\ revoked' = revoked /\ lost' = lost
    BY <1>0, <1>18 DEF StartAnswered, OperatorAnswered
  <2>2. ASSUME NEW c \in Builders
        PROVE  io.job.client = c => phase[c] # "building"
    <3>1. CASE StartAnswered
      BY <3>1 DEF StartAnswered, Completes, Stages, OnItsWay, Answering, Is
    <3>2. CASE OperatorAnswered
      BY <3>2, JobClients, BuilderAssumption DEF OperatorAnswered, Completes, TypeInv, Completing
    <3> QED
      BY <1>18, <3>1, <3>2
  <2>3. ASSUME NEW c \in Builders
        PROVE  (GrantOf(c) /\ Account(c))'
    BY <2>1, <2>2, Untouched DEF Grants, Answering
  <2> QED
    BY <2>3 DEF Grants
<1>19. ASSUME NEW command \in OtherCommands, Operate(command)
       PROVE  Grants'
  <2>1. Job(Operator, command) \in Jobs /\ Job(Operator, command).client \notin Builders
    BY BuilderAssumption DEF Job, Jobs, CommandNames
  <2>2. ASSUME NEW c \in Builders
        PROVE  (GrantOf(c) /\ Account(c))'
    BY <1>3, <1>19, <2>1 DEF Operate, Push, Is
  <2> QED
    BY <2>2 DEF Grants
<1>20. ASSUME NEW command \in OtherCommands, NEW outcome \in Outcomes, OperateNow(command, outcome)
       PROVE  Grants'
  <2>1. Job(Operator, command) \in Jobs /\ Job(Operator, command).client \notin Builders
    BY BuilderAssumption DEF Job, Jobs, CommandNames
  <2>2. ASSUME NEW c \in Builders
        PROVE  (GrantOf(c) /\ Account(c))'
    <3>1. /\ c \in held' => c \in held
          /\ c \in held \cup revoked => c \in held' \cup revoked'
      BY <1>20, <2>1, ServeFacts DEF OperateNow, Is
    <3> QED
      BY <1>2, <1>20, <3>1 DEF OperateNow
  <2> QED
    BY <2>2 DEF Grants
<1> QED
  BY <1>5, <1>7, <1>8, <1>9, <1>10, <1>11, <1>12, <1>13, <1>15, <1>16, <1>17, <1>18, <1>19, <1>20,
     StepCases

\* The device's handles are accounted for: the answer to a request tells whether
\* the handle was granted, and every link that is destroyed has released its
\* handle, or could not.
THEOREM HandlesAreAccounted == Spec => []HandlesAccounted
<1> DEFINE Inv == Stages /\ Once /\ Grants
<1>1. Init => Inv
  <2> SUFFICES ASSUME Init PROVE Inv
    OBVIOUS
  <2>1. \A c, command : ~OnItsWay(c, command)
    <3>1. Len(jobs) = 0 /\ Len(pending) = 0 /\ io.at = "idle"
      BY DEF Init, IdleIo
    <3> QED
      BY <3>1 DEF OnItsWay, Listed, Answering
  <2>2. Stages
    BY <2>1 DEF Stages
  <2>3. Once
    BY <2>1 DEF Init, Once, Unique, OnItsWay
  <2>4. Grants
    BY <2>1 DEF Init, Grants, GrantOf, Account, OnItsWay
  <2> QED
    BY <2>2, <2>3, <2>4
<1>2. TypeInv /\ Inv /\ [Next]_vars => Inv'
  BY StagesHold, OnceHolds, GrantsHold
<1>3. TypeInv /\ Inv => HandlesAccounted
  BY DEF TypeInv, Sets, Grants, Account, HandlesAccounted, Owning
<1> QED
  BY <1>1, <1>2, <1>3, TypeInvHolds, PTL DEF Spec

-----------------------------------------------------------------------------
(* The order of submission                                                 *)

\* As long as StartScan is on its way without looking up the endpoints, what the
\* link submits later is behind it.
Ahead == /\ InOrder(jobs) /\ InOrder(pending)
         /\ \A c \in Builders, command \in Later :
              /\ In(jobs, Start(c)) => ~Listed(pending, c, command) /\ ~Answering(c, command)
              /\ In(pending, Start(c)) => ~Answering(c, command)

\* A destructor that has waited for StopScan has waited for StartScan.
Waited == \A c \in Builders : phase[c] = "stopped" => ~Queued(Start(c))

LEMMA AheadHolds ==
  ASSUME TypeInv, Stages, Ahead, Once, [Next]_vars
  PROVE  Ahead'
<1>1. CASE jobs' = jobs /\ pending' = pending /\ (io' = io \/ io'.at # "answering")
  BY <1>1, QuietFacts DEF Ahead
<1>2. ASSUME NEW job \in Jobs, Push(job), pending' = pending, io' = io \/ io'.at # "answering",
             job.client \in Builders =>
               /\ ~OnItsWay(job.client, job.command)
               /\ job.command = "StartScanOutput" => phase[job.client] \in {"idle", "building"}
      PROVE  Ahead'
  <2>1. \A c, command : /\ Listed(jobs', c, command)
                             => Listed(jobs, c, command) \/ Is(job, c, command)
                        /\ Answering(c, command)' => Answering(c, command)
    BY <1>2, SubmitFacts DEF TypeInv
  <2>2. ASSUME NEW c \in Builders, NEW command \in Later, job = Start(c)
        PROVE  ~OnItsWay(c, command) /\ ~Is(job, c, command)
    <3>1. job.client = c /\ job.command = "StartScanOutput"
      BY <2>2 DEF Start, Job
    <3>2. phase[c] \in {"idle", "building"}
      BY <1>2, <3>1
    <3> QED
      BY <3>1, <3>2 DEF Stages, Later, Is
  <2>3. InOrder(jobs')
    <3>1. \A c \in Builders, command \in Later :
            job = Start(c) => ~Listed(jobs, c, command) /\ ~Is(job, c, command)
      BY <2>2 DEF OnItsWay
    <3> QED
      BY <1>2, <3>1, PushFacts DEF TypeInv, Queues, Ahead
  <2>4. \A c \in Builders : In(jobs', Start(c)) => In(jobs, Start(c)) \/ job = Start(c)
    BY <1>2, PushFacts DEF TypeInv, Queues
  <2>5. ASSUME NEW c \in Builders, NEW command \in Later
        PROVE  /\ In(jobs', Start(c)) => ~Listed(pending', c, command) /\ ~Answering(c, command)'
               /\ In(pending', Start(c)) => ~Answering(c, command)'
    <3>1. Answering(c, command)' => Answering(c, command)
      BY <1>2 DEF Answering
    <3>2. CASE job = Start(c)
      <4>1. ~Listed(pending, c, command) /\ ~Answering(c, command)
        BY <2>2, <3>2 DEF OnItsWay
      <4> QED
        BY <1>2, <3>1, <4>1
    <3>3. CASE job # Start(c)
      <4>1. In(jobs', Start(c)) => In(jobs, Start(c))
        BY <2>4, <3>3
      <4> QED
        BY <1>2, <3>1, <4>1 DEF Ahead
    <3> QED
      BY <3>2, <3>3
  <2> QED
    BY <1>2, <2>3, <2>5 DEF Ahead
<1>3. CASE WorkerTakes
  <2>1. /\ InOrder(jobs') /\ InOrder(pending') /\ io' = io
        /\ \A c \in Builders :
             /\ ~In(jobs', Start(c))
             /\ In(pending', Start(c)) => In(pending, Start(c)) \/ In(jobs, Start(c))
    BY <1>3, WorkerTakesFacts DEF TypeInv, Ahead
  <2> QED
    BY <2>1 DEF Ahead, Answering
<1>4. ASSUME NEW outcome \in Outcomes, IoTakes(outcome)
      PROVE  Ahead'
  <2>1. PICK job \in Jobs :
          /\ \A c, command :
               /\ Listed(pending, c, command) <=> Listed(pending', c, command)
                                                  \/ Is(job, c, command)
               /\ Answering(c, command)' <=> Is(job, c, command)
          /\ InOrder(pending) =>
               /\ InOrder(pending')
               /\ \A c \in Builders, command \in Later :
                    Is(job, c, command) => ~In(pending', Start(c))
          /\ jobs' = jobs
    BY <1>4, IoTakesFacts DEF TypeInv
  <2> QED
    BY <2>1 DEF Ahead
<1> QED
  BY <1>1, <1>2, <1>3, <1>4, StepKinds

\* StartScan is put on its way by a build that ends, and by nothing else.
LEMMA StartsAreNotRepeated ==
  ASSUME TypeInv, Stages, [Next]_vars, NEW c \in Builders, Queued(Start(c))',
         phase[c] \notin {"idle", "building"}
  PROVE  Queued(Start(c))
<1> DEFINE BeingAnswered(job) == io.at = "answering" /\ io.job = job
<1>1. \A job : Queued(job) <=> In(jobs, job) \/ In(pending, job) \/ BeingAnswered(job)
  BY DEF Queued, In
<1>2. In(jobs', Start(c)) \/ In(pending', Start(c)) \/ BeingAnswered(Start(c))'
  BY DEF Queued, In, Start, Job
<1>3. CASE jobs' = jobs /\ pending' = pending /\ (io' = io \/ io'.at # "answering")
  BY <1>1, <1>2, <1>3
<1>4. ASSUME NEW job \in Jobs, Push(job), pending' = pending, io' = io \/ io'.at # "answering",
             job.client \in Builders /\ job.command = "StartScanOutput" =>
               phase[job.client] \in {"idle", "building"}
      PROVE  Queued(Start(c))
  <2>1. job # Start(c)
    BY <1>4 DEF Start, Job
  <2>2. In(jobs', Start(c)) => In(jobs, Start(c))
    BY <1>4, <2>1, PushFacts DEF TypeInv, Queues
  <2> QED
    BY <1>1, <1>2, <1>4, <2>2
<1>5. CASE WorkerTakes
  BY <1>1, <1>2, <1>5, WorkerTakesFacts DEF TypeInv
<1>6. ASSUME NEW outcome \in Outcomes, IoTakes(outcome)
      PROVE  Queued(Start(c))
  <2>1. PICK n \in 1..Len(pending) : io'.job = pending[n]
    BY <1>6, LenProperties DEF IoTakes, Turns, TypeInv, Queues
  <2>2. /\ \A other : In(pending', other) => In(pending, other)
        /\ jobs' = jobs
    BY <1>6, IoTakesFacts DEF TypeInv
  <2> QED
    BY <1>1, <1>2, <2>1, <2>2 DEF In
<1> QED
  BY <1>3, <1>4, <1>5, <1>6, StepKinds

LEMMA WaitedHolds ==
  ASSUME TypeInv, Stages, Ahead, Waited, StartFindsItsLink, [Next]_vars
  PROVE  Waited' /\ StartFindsItsLink'
<1> DEFINE Closing(c) == /\ phase[c] = "stopped" => ~Queued(Start(c))
                         /\ phase[c] = "closed" /\ Queued(Start(c)) => c \in cut
<1>0. /\ \A c \in Builders : Closing(c)
      /\ (\A c \in Builders : Closing(c)') => Waited' /\ StartFindsItsLink'
      /\ phase \in [Builders -> Phases] /\ IdleIo.at = "idle"
  BY DEF Waited, StartFindsItsLink, Start, TypeInv, Places, IdleIo
<1> USE DEF deviceVars, historyVars, buildVars, operatorVars
\* The steps that end no destruction.
<1>1. ASSUME cut' = cut, \A c \in Builders : \/ phase'[c] = phase[c]
                                            \/ phase'[c] \notin {"stopped", "closed"}
      PROVE  \A c \in Builders : Closing(c)'
  BY <1>0, <1>1, StartsAreNotRepeated
<1>2. ASSUME NEW c \in Builders, \E outcome \in Outcomes : BuildNow(c, outcome)
      PROVE  \A d \in Builders : Closing(d)'
  BY <1>0, <1>1, <1>2 DEF BuildNow, ConstructLink, Goto
<1>3. ASSUME NEW c \in Builders, BuildThrows(c) \/ BuildLater(c) \/ DestroyLink(c)
      PROVE  \A d \in Builders : Closing(d)'
  BY <1>0, <1>1, <1>3 DEF BuildThrows, BuildLater, DestroyLink, Goto, AfterRefusal
<1>4. ASSUME NEW c \in Builders, Drop(c) \/ Revoke(c)
      PROVE  \A d \in Builders : Closing(d)'
  BY <1>1, <1>4 DEF Drop, Revoke
<1>5. ASSUME WorkerTakes \/ LookupEnds \/ \E outcome \in Outcomes : IoTakes(outcome)
      PROVE  \A d \in Builders : Closing(d)'
  BY <1>1, <1>5 DEF WorkerTakes, LookupEnds, IoTakes
<1>6. ASSUME BuildAnswered
      PROVE  \A d \in Builders : Closing(d)'
  BY <1>0, <1>1, <1>6 DEF BuildAnswered, ConstructLink, Goto
<1>7. ASSUME StartAnswered \/ OperatorAnswered
      PROVE  \A d \in Builders : Closing(d)'
  BY <1>1, <1>7 DEF StartAnswered, OperatorAnswered
<1>8. ASSUME NEW command \in OtherCommands,
             Operate(command) \/ \E outcome \in Outcomes : OperateNow(command, outcome)
      PROVE  \A d \in Builders : Closing(d)'
  BY <1>1, <1>8 DEF Operate, OperateNow
<1>9. ASSUME UNCHANGED vars
      PROVE  \A d \in Builders : Closing(d)'
  BY <1>1, <1>9 DEF vars
\* An answer to a later command has let StartScan go first.
<1>10. ASSUME StopAnswered \/ ReleaseAnswered
       PROVE  \A d \in Builders : Closing(d)'
  <2>1. PICK b \in Builders, command \in Later :
          io.job.client = b /\ Answering(b, command) /\ io.job.command = command
    BY <1>10, JobClients
       DEF StopAnswered, ReleaseAnswered, Completes, TypeInv, Completing, OtherCommands, Later,
           Answering, Is
  <2>2. /\ jobs' = jobs /\ pending' = pending /\ io'.at # "answering" /\ cut' = cut
        /\ phase' \in {[phase EXCEPT ![b] = "stopped"], [phase EXCEPT ![b] = "closed"]}
    BY <1>0, <1>10, <2>1 DEF StopAnswered, ReleaseAnswered, Goto
  <2>3. ~In(jobs, Start(b)) /\ ~In(pending, Start(b))
    BY <2>1 DEF Ahead
  <2>4. ~Queued(Start(b))'
    BY <2>2, <2>3 DEF Queued, In, Start, Job
  <2>5. Closing(b)'
    BY <2>4
  <2>6. ASSUME NEW d \in Builders, d # b
        PROVE  Closing(d)'
    <3>1. phase'[d] = phase[d]
      BY <1>0, <2>2, <2>6
    <3> QED
      BY <1>0, <2>2, <3>1, StartsAreNotRepeated
  <2> QED
    BY <2>5, <2>6
\* A destructor whose commands were both refused is the exception.
<1>11. ASSUME NEW b \in Builders, Release(b)
       PROVE  \A d \in Builders : Closing(d)'
  <2>1. CASE Abandon(b)
    <3>1. /\ phase[b] \in {"stopped", "unstopped"} /\ phase' = [phase EXCEPT ![b] = "closed"]
          /\ cut' = IF phase[b] = "unstopped" THEN cut \cup {b} ELSE cut
      BY <1>11, <2>1 DEF Release, Abandon, AskRelease, Unreleased, Push
    <3>2. ASSUME NEW d \in Builders, d # b
          PROVE  Closing(d)'
      <4>1. phase'[d] = phase[d] /\ (d \in cut => d \in cut')
        BY <1>0, <3>1, <3>2
      <4> QED
        BY <1>0, <4>1, StartsAreNotRepeated
    <3>3. Closing(b)'
      <4>1. phase'[b] = "closed"
        BY <1>0, <3>1
      <4>2. CASE phase[b] = "unstopped"
        BY <3>1, <4>1, <4>2
      <4>3. CASE phase[b] = "stopped"
        BY <1>0, <4>1, <4>3, StartsAreNotRepeated
      <4> QED
        BY <3>1, <4>2, <4>3
    <3> QED
      BY <3>2, <3>3
  <2>2. CASE AskRelease(b)
    BY <1>0, <1>1, <1>11, <2>2 DEF Release, Abandon, AskRelease, Unreleased, Push
  <2> QED
    BY <1>11, <2>1, <2>2 DEF Release
<1>12. \A d \in Builders : Closing(d)'
  BY <1>2, <1>3, <1>4, <1>5, <1>6, <1>7, <1>8, <1>9, <1>10, <1>11, StepCases
<1> QED
  BY <1>0, <1>12

\* The callback of StartScan never runs after the link's destruction, unless the
\* worker refused both commands of the destructor or StartScan looked up the
\* endpoints: the device's commands are answered in the order of submission.
THEOREM CallbackFindsItsLink == Spec => []StartFindsItsLink
<1> DEFINE Inv == Stages /\ Once /\ Ahead /\ Waited /\ StartFindsItsLink
<1>1. Init => Inv
  <2> SUFFICES ASSUME Init PROVE Inv
    OBVIOUS
  <2>1. Len(jobs) = 0 /\ Len(pending) = 0 /\ io.at = "idle"
    BY DEF Init, IdleIo
  <2>2. \A c, command : ~OnItsWay(c, command)
    BY <2>1 DEF OnItsWay, Listed, Answering
  <2>3. Stages /\ Once
    BY <2>1, <2>2 DEF Stages, Once, Unique, OnItsWay
  <2>4. \A job : ~In(jobs, job) /\ ~In(pending, job) /\ ~Queued(job)
    BY <2>1 DEF In, Queued
  <2>5. Ahead
    BY <2>1, <2>4 DEF Ahead, InOrder
  <2>6. Waited /\ StartFindsItsLink
    BY <2>4 DEF Waited, StartFindsItsLink
  <2> QED
    BY <2>3, <2>5, <2>6
<1>2. TypeInv /\ Inv /\ [Next]_vars => Inv'
  BY StagesHold, OnceHolds, AheadHolds, WaitedHolds
<1> QED
  BY <1>1, <1>2, TypeInvHolds, PTL DEF Spec
=============================================================================
