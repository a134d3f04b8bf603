------------------------------- MODULE Worker -------------------------------
(***************************************************************************)
(* The job queue of include/Worker.hpp: callers push jobs, one worker      *)
(* thread swaps the list out and runs it, a destructor interrupts it.      *)
(*                                                                         *)
(* Every guard of the source is built with std::adopt_lock, so entering a  *)
(* guarded block never locks jobLock while leaving it always unlocks it;   *)
(* only the wake-up of jobQueueCondition.wait really locks.  The list is   *)
(* therefore accessed by several threads at once: a caller is "inside" the *)
(* list between Offer and Link, and the worker while it swaps.  std::list  *)
(* is two chains of nodes and a count: what two overlapping mutations make *)
(* of them is in LinkTorn, one outcome for each order of the writes.       *)
(***************************************************************************)
EXTENDS Naturals, Sequences, FiniteSets

CONSTANTS
  Callers,   (* the threads that call pushJob                              *)
  Jobs,      (* the jobs they may push, each at most once                  *)
  Throwing,  (* the jobs whose invocation throws                           *)
  MaxJob,    (* maxNumberOfJob of the constructor                          *)
  NoJob      (* a caller's hand when it is outside pushJob                 *)

ASSUME WorkerAssumption == /\ IsFiniteSet(Callers)
                           /\ Throwing \subseteq Jobs
                           /\ MaxJob \in Nat
                           /\ NoJob \notin Jobs

VARIABLES
  jobs, local,      (* what is reached from the front of the shared list,  *)
                    (* and of the worker's localJobQueue                   *)
  size,             (* what jobs.size() returns                            *)
  broken, loose,    (* the last node of jobs is not the one a push_back    *)
                    (* finds; that of local does not end it                *)
  interruptFlag,
  jobLock,          (* TRUE when the mutex is locked, by whomever          *)
  worker,           (* where the worker thread is                          *)
  caller, hand,     (* where each caller is, and the job it is pushing     *)
  torn, moved,      (* callers whose push_back another mutation, or a swap,*)
                    (* overlapped                                          *)
  after, seen,      (* the first node of jobs each may have found last, and*)
                    (* the sizes it may have read                          *)
  raced,            (* history: two overlapping mutations took effect      *)
  dtor,             (* where the destructor is                             *)
  fate,             (* what has become of each job                         *)
  crashed           (* a broken list has brought the process down          *)

callerVars == <<caller, hand>>
chainVars == <<jobs, local, broken, loose>>
overlapVars == <<torn, moved, after, seen>>
listVars == <<jobs, size, broken, overlapVars, raced>>
batchVars == <<local, loose>>

vars == <<jobs, local, size, broken, loose, interruptFlag, jobLock, worker, caller, hand,
          torn, moved, after, seen, raced, dtor, fate, crashed>>

WorkerPc == {"test", "pred", "block", "asleep", "awake", "check", "swap",
             "count", "run", "done"}
Fates == {"fresh", "offered", "queued", "refused", "ran", "lost", "dropped"}

Elems(s) == {s[i] : i \in DOMAIN s}

\* The callers that are inside push_back.
Inside == {c \in Callers : caller[c] = "link"}

Init == /\ jobs = <<>> /\ local = <<>> /\ size = 0 /\ broken = FALSE /\ loose = FALSE
        /\ interruptFlag = FALSE /\ jobLock = FALSE /\ crashed = FALSE /\ raced = FALSE
        /\ worker = "test" /\ dtor = "none"
        /\ caller = [c \in Callers |-> "idle"]
        /\ hand = [c \in Callers |-> NoJob]
        /\ torn = {} /\ moved = {}
        /\ after = [c \in Callers |-> 0] /\ seen = [c \in Callers |-> {}]
        /\ fate = [j \in Jobs |-> "fresh"]

-----------------------------------------------------------------------------
(* pushJob                                                                 *)

At(c, pc) == ~crashed /\ caller[c] = pc

\* Room in the list, as pushJob tests it.  Mutant: the test is forgotten.
AlwaysRoom == TRUE
HasRoom == size <= MaxJob

Offer(c, j) == /\ At(c, "idle") /\ dtor = "none" /\ fate[j] = "fresh"
               /\ HasRoom
               /\ caller' = [caller EXCEPT ![c] = "link"]
               /\ hand' = [hand EXCEPT ![c] = j]
               /\ fate' = [fate EXCEPT ![j] = "offered"]
               /\ after' = [after EXCEPT ![c] = Len(jobs)]
               /\ seen' = [seen EXCEPT ![c] = {size}]
               /\ UNCHANGED <<chainVars, size, torn, moved, raced, interruptFlag, jobLock,
                              worker, dtor, crashed>>

Refuse(c, j) == /\ At(c, "idle") /\ dtor = "none" /\ fate[j] = "fresh"
                /\ ~HasRoom
                /\ fate' = [fate EXCEPT ![j] = "refused"]
                /\ jobLock' = FALSE
                /\ UNCHANGED <<listVars, batchVars, callerVars, interruptFlag,
                               worker, dtor, crashed>>

\* push_back ends, and every other one in progress has been overlapped.
Leave(c) ==
  /\ caller' = [caller EXCEPT ![c] = "notify"]
  /\ torn' = (torn \cup Inside) \ {c}
  /\ moved' = moved \ {c}
  /\ after' = [d \in Callers |-> IF d \notin Inside \ {c} THEN 0
                                 ELSE IF after[d] <= Len(jobs') THEN after[d] ELSE Len(jobs')]
  /\ seen' = [d \in Callers |-> IF d \in Inside \ {c} THEN seen[d] \cup {size'} ELSE {}]
  /\ UNCHANGED <<hand, interruptFlag, jobLock, worker, dtor>>

\* What push_back makes of the list.  Mutant: push_front.
AtFront(j) == <<j>> \o jobs
AtBack(j) == Append(jobs, j)

Link(c) == /\ At(c, "link")
           /\ ~broken /\ worker # "count"
           /\ jobs' = AtBack(hand[c]) /\ size' = size + 1
           /\ fate' = [fate EXCEPT ![hand[c]] = "queued"]
           /\ UNCHANGED <<batchVars, broken, raced, crashed>>
           /\ Leave(c)

\* The node is linked behind one that the front does not lead to.
LinkAstray(c) == /\ At(c, "link")
                 /\ broken /\ worker # "count"
                 /\ size' = size + 1
                 /\ fate' = [fate EXCEPT ![hand[c]] = "lost"]
                 /\ UNCHANGED <<chainVars, raced, crashed>>
                 /\ Leave(c)

\* What may have been interleaved with c's push_back.
Overlapped(c) == c \in torn \/ worker \in {"swap", "count"}

\* The push_back finds the last node, links the new one behind it, makes it the
\* last, reads the size and writes it.  If another mutation falls in between,
\* the new node cuts off those linked since the last one was found, or is cut
\* off itself, or ends the batch that has been swapped out; the two chains may
\* disagree on the last node; and a size is written that forgets the others'.
LinkTorn(c) ==
  /\ At(c, "link")
  /\ Overlapped(c)
  /\ raced' = TRUE
  /\ \/ /\ \E n \in after[c]..Len(jobs) : jobs' = Append(SubSeq(jobs, 1, n), hand[c])
        /\ UNCHANGED batchVars
     \/ UNCHANGED <<jobs, batchVars>>
     \/ /\ c \in moved /\ worker \in {"count", "run"}
        /\ local' = Append(local, hand[c]) /\ loose' = TRUE
        /\ UNCHANGED jobs
  /\ broken' \in BOOLEAN
  /\ \E n \in seen[c] : size' = n + 1
  /\ fate' = [j \in Jobs |-> IF j \in Elems(local' \o jobs') THEN "queued"
                             ELSE IF j = hand[c] \/ j \in Elems(jobs) THEN "lost" ELSE fate[j]]
  /\ crashed' \in IF c \in moved THEN BOOLEAN ELSE {FALSE}
  /\ Leave(c)

\* notify_one reaches the worker only if it already sleeps.  Mutant: it is
\* forgotten.
WakeNobody == UNCHANGED worker
WakeWorker == worker' = IF worker = "asleep" THEN "awake" ELSE worker

\* notify_one, the guard's unlock, return true.
Notify(c) == /\ At(c, "notify")
             /\ WakeWorker
             /\ jobLock' = FALSE
             /\ caller' = [caller EXCEPT ![c] = "idle"]
             /\ hand' = [hand EXCEPT ![c] = NoJob]
             /\ UNCHANGED <<listVars, batchVars, interruptFlag, dtor, fate, crashed>>

-----------------------------------------------------------------------------
(* The worker thread                                                       *)

Goto(from, to) == ~crashed /\ worker = from /\ worker' = to

workerFrame == <<callerVars, interruptFlag, dtor, crashed>>

Test == /\ Goto("test", IF interruptFlag THEN "done" ELSE "pred")
        /\ UNCHANGED <<workerFrame, listVars, batchVars, jobLock, fate>>

Predicate == /\ Goto("pred", IF jobs # <<>> \/ interruptFlag THEN "check" ELSE "block")
             /\ UNCHANGED <<workerFrame, listVars, batchVars, jobLock, fate>>

\* wait(): the thread enters the condition's wait set and unlocks.
Block == /\ Goto("block", "asleep")
         /\ jobLock' = FALSE
         /\ UNCHANGED <<workerFrame, listVars, batchVars, fate>>

SpuriousWake == /\ Goto("asleep", "awake")
                /\ UNCHANGED <<workerFrame, listVars, batchVars, jobLock, fate>>

Relock == /\ Goto("awake", "pred")
          /\ ~jobLock
          /\ jobLock' = TRUE
          /\ UNCHANGED <<workerFrame, listVars, batchVars, fate>>

Check == /\ Goto("check", IF interruptFlag THEN "done" ELSE "swap")
         /\ jobLock' = (jobLock /\ ~interruptFlag)
         /\ UNCHANGED <<workerFrame, listVars, batchVars, fate>>

\* std::swap with an empty list exchanges the chains, then the sizes.  Mutant:
\* the list is copied.
CopyList == local' = jobs /\ UNCHANGED jobs
TakeList == local' = jobs /\ jobs' = <<>>

Swap == /\ Goto("swap", "count")
        /\ TakeList
        /\ loose' = broken /\ broken' = FALSE
        /\ torn' = torn \cup Inside /\ moved' = moved \cup Inside
        /\ after' = [c \in Callers |-> 0]
        /\ UNCHANGED <<workerFrame, size, seen, raced, jobLock, fate>>

SwapSize == /\ Goto("count", "run")
            /\ size' = 0
            /\ torn' = torn \cup Inside
            /\ seen' = [c \in Callers |-> IF c \in Inside THEN seen[c] \cup {0} ELSE {}]
            /\ jobLock' = FALSE
            /\ UNCHANGED <<workerFrame, chainVars, moved, after, raced, fate>>

\* After a job the loop goes on with the batch.  Mutant: it stops at one job.
OneJobPerBatch == Goto("run", "test")
StayInBatch == Goto("run", "run")

Invoke == /\ StayInBatch /\ local # <<>>
          /\ Head(local) \notin Throwing
          /\ local' = Tail(local)
          /\ fate' = [fate EXCEPT ![Head(local)] = "ran"]
          /\ UNCHANGED <<workerFrame, listVars, loose, jobLock>>

\* An exception leaves the loop: the future keeps it, the batch is destroyed.
InvokeThrows == /\ Goto("run", "done") /\ local # <<>>
                /\ Head(local) \in Throwing
                /\ local' = <<>>
                /\ fate' = [j \in Jobs |->
                              IF j = Head(local) THEN "ran"
                              ELSE IF j \in Elems(Tail(local)) THEN "dropped"
                              ELSE fate[j]]
                /\ crashed' = loose
                /\ UNCHANGED <<listVars, loose, callerVars, interruptFlag, dtor, jobLock>>

EndBatch == /\ Goto("run", "test") /\ local = <<>> /\ ~loose
            /\ UNCHANGED <<workerFrame, listVars, batchVars, jobLock, fate>>

\* A batch that does not end where it should: what is behind it is invoked.
Overrun == /\ Goto("run", "run") /\ local = <<>> /\ loose
           /\ crashed' = TRUE
           /\ UNCHANGED <<listVars, batchVars, callerVars, interruptFlag, dtor, jobLock, fate>>

-----------------------------------------------------------------------------
(* ~Worker: no caller may be inside pushJob when the destructor starts.    *)

Interrupt == /\ ~crashed /\ dtor = "none" /\ \A c \in Callers : caller[c] = "idle"
             /\ dtor' = "notify"
             /\ interruptFlag' = TRUE
             /\ UNCHANGED <<listVars, batchVars, callerVars, jobLock, worker, fate, crashed>>

NotifyInterrupt == /\ ~crashed /\ dtor = "notify"
                   /\ dtor' = "join"
                   /\ WakeWorker
                   /\ jobLock' = FALSE
                   /\ UNCHANGED <<listVars, batchVars, callerVars, interruptFlag, fate, crashed>>

\* workingTask.wait() returns; the jobs that never ran are cleared.
Join == /\ ~crashed /\ dtor = "join" /\ worker = "done"
        /\ dtor' = "gone"
        /\ jobs' = <<>> /\ size' = 0 /\ broken' = FALSE
        /\ fate' = [j \in Jobs |-> IF j \in Elems(jobs) THEN "dropped" ELSE fate[j]]
        /\ UNCHANGED <<callerVars, batchVars, overlapVars, raced, interruptFlag, jobLock,
                       worker, crashed>>

-----------------------------------------------------------------------------
PushBack(c) == Link(c) \/ LinkAstray(c) \/ LinkTorn(c)

CallerStep == \E c \in Callers : \/ PushBack(c) \/ Notify(c)
                                 \/ \E j \in Jobs : Offer(c, j) \/ Refuse(c, j)
WorkerStep == \/ Test \/ Predicate \/ Block \/ Relock \/ Check \/ Swap \/ SwapSize
              \/ Invoke \/ InvokeThrows \/ EndBatch \/ Overrun
DtorStep == Interrupt \/ NotifyInterrupt \/ Join

Next == CallerStep \/ WorkerStep \/ SpuriousWake \/ DtorStep

Spec == Init /\ [][Next]_vars

\* Threads that can run do run; nobody has to push, to destroy the worker, or
\* to be woken for no reason.
Fairness == /\ WF_vars(WorkerStep)
            /\ WF_vars(NotifyInterrupt \/ Join)
            /\ \A c \in Callers : WF_vars(PushBack(c) \/ Notify(c))

FairSpec == Spec /\ Fairness

-----------------------------------------------------------------------------
(* Properties                                                              *)

\* The list as it is when nothing went wrong with it.
Sized == /\ broken = FALSE /\ loose = FALSE
         /\ IF worker = "count" THEN jobs = <<>> /\ size = Len(local) ELSE size = Len(jobs)

\* Every variable has its type; a caller holds a job exactly while it is inside
\* pushJob; size() is the length of the list unless two mutations raced.
TypeOK == /\ jobs \in Seq(Jobs) /\ local \in Seq(Jobs) /\ size \in Nat
          /\ broken \in BOOLEAN /\ loose \in BOOLEAN /\ raced \in BOOLEAN
          /\ interruptFlag \in BOOLEAN /\ jobLock \in BOOLEAN /\ crashed \in BOOLEAN
          /\ worker \in WorkerPc
          /\ dtor \in {"none", "notify", "join", "gone"}
          /\ caller \in [Callers -> {"idle", "link", "notify"}]
          /\ hand \in [Callers -> Jobs \cup {NoJob}]
          /\ \A c \in Callers : hand[c] = NoJob <=> caller[c] = "idle"
          /\ moved \subseteq torn /\ torn \subseteq Inside
          /\ after \in [Callers -> Nat] /\ seen \in [Callers -> SUBSET Nat]
          /\ fate \in [Jobs -> Fates]
          /\ raced \/ Sized

\* As long as no two mutations of the list raced, it never outgrows maxJob by
\* more than one job per calling thread: pushJob tests the size and links the
\* job without holding the mutex, so each thread can pass the test before any
\* of the others links.  After a race size() may have lost jobs, and the list
\* has no bound.
QueueBound == raced \/ Len(jobs) <= MaxJob + Cardinality(Callers)

\* A job is in the list or in the batch exactly when it was queued and has
\* neither run nor been dropped or lost, at one place only, whatever raced; and
\* what pushJob has put in the list is forgotten only if two mutations raced.
Conservation ==
  /\ \A j \in Jobs : fate[j] = "queued" <=> j \in Elems(jobs) \cup Elems(local)
  /\ \A i, k \in DOMAIN (local \o jobs) :
        (local \o jobs)[i] = (local \o jobs)[k] => i = k
  /\ \A c \in Callers : caller[c] = "link" => fate[hand[c]] = "offered"
  /\ \A c, d \in Callers : hand[c] = hand[d] /\ hand[c] # NoJob => c = d
  /\ raced \/ \A j \in Jobs : fate[j] # "lost"

\* What JobQueue calls the state of a job: one that is on its way in is not
\* accepted yet, one that a broken list lost is dropped.
Promised == [j \in Jobs |-> IF fate[j] = "offered" THEN "fresh"
                            ELSE IF fate[j] = "lost" THEN "dropped" ELSE fate[j]]

\* The worker keeps the promise of JobQueue: what runs, runs once; and in order,
\* with nothing lost, until two mutations have raced.
Queue == INSTANCE JobQueue WITH queue <- local \o jobs, state <- Promised, sound <- ~raced
ImplementsQueue == Queue!Spec

\* The worker sleeps through work it was notified of: the notification fell
\* between its test of the predicate and its entering the wait set.
Stranded == worker = "asleep" /\ (jobs # <<>> \/ interruptFlag)

\* pushJob's documentation: "True if the job has been queued for execution".
\* That is true only as far as a job that stays queued is held up by a missed
\* notification or by a worker that is gone; otherwise it runs or is dropped,
\* or a race makes the list forget it.
QueuedResolves ==
  \A j \in Jobs : fate[j] = "queued" ~>
    (fate[j] \in {"ran", "dropped", "lost"} \/ Stranded \/ worker = "done" \/ crashed)

\* What is stranded is not lost for good: once some caller has linked its own job
\* while the worker sleeps, that caller's notification gets the whole list
\* executed, the stranded jobs included, but for what a race forgets; and
\* ~Worker, documented to "Interrupt and wait for the worker to finish", ends if
\* it finds the worker asleep.
NextNotificationRescues ==
  /\ \A j \in Jobs :
       (fate[j] = "queued" /\ worker = "asleep" /\ \E c \in Callers : caller[c] = "notify")
         ~> (fate[j] \in {"ran", "dropped", "lost"} \/ worker = "done" \/ crashed)
  /\ (dtor = "notify" /\ worker = "asleep") ~> (dtor = "gone" \/ crashed)
=============================================================================
