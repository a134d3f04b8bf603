----------------------------- MODULE LinksProofs -----------------------------
(***************************************************************************)
(* Proofs about Links, for every number of scans received: what a client   *)
(* that waits or listens is given, and what the destructor leaves behind.  *)
(***************************************************************************)
EXTENDS Links, SequenceTheorems, TLAPS

\* What every step of the system is, one group of actions per thread.
LEMMA StepCases ==
  ASSUME [Next]_vars
  PROVE  \/ \E ok \in BOOLEAN : StartAnswered(ok)
         \/ WatchdogStep \/ MonitorStep
         \/ EnterWait \/ WaiterStep \/ SpuriousWake
         \/ StoreScan \/ Publish \/ FireScan \/ Age
         \/ BaseDtorStep
         \/ EndAdd \/ \E l \in {"scan", "lost"} : BeginAdd(l)
         \/ UdpStep \/ TcpStep
         \/ UNCHANGED vars
  BY DEF Next, BaseStep

\* What the derived classes' threads leave alone, and how far they bring the
\* destructor.
LEMMA DerivedSteps ==
  ASSUME UdpStep \/ TcpStep
  PROVE  /\ UNCHANGED <<linkVars, start, flagVars, watchdog, monitorVars, scanVars, clientVars>>
         /\ dtor' \in {dtor, "stopIo", "joinIo", "base"}
         /\ \/ io' = io
            \/ (~built \/ io \notin {"publish", "fire"}) /\ io' \notin {"publish", "fire"}
<1>1. CASE UdpStep
  BY <1>1 DEF UdpStep, UdpFrame, SetUp, UdpReceiveError, UdpLost, UdpClose, UdpStop,
              UdpRunEnds, UdpJoin
<1>2. CASE TcpStep
  BY <1>2 DEF TcpStep, TcpFrame, Launch, IoAt, Resolved, ResolutionFails, Connected,
              ConnectionFails, AttemptAborted, ResolveAgain, TcpReceiveError, TcpLost,
              TcpClose, TcpStop, TcpRunEnds, TcpJoin
<1> QED
  BY <1>1, <1>2

\* What the watchdog, the monitor and the callback that launches them leave
\* alone.
LEMMA TaskSteps ==
  ASSUME WatchdogStep \/ MonitorStep \/ \E ok \in BOOLEAN : StartAnswered(ok)
  PROVE  UNCHANGED <<linkVars, built, interruptFlag, io, scanVars, clientVars, dtor>>
  BY DEF StartAnswered, WatchdogStep, WatchdogRuns, WatchdogTest, FeedRefused, FeedSucceeds, FeedFails,
         FireLost, WatchdogWakes, WatchdogAt, MonitorStep, MonitorWakes, ReadTimestamp, Judge,
         MonitorAt, flagVars, dtorVars

\* What a client that waits for a scan leaves alone.
LEMMA WaiterSteps ==
  ASSUME EnterWait \/ WaiterStep \/ SpuriousWake
  PROVE  UNCHANGED <<linkVars, built, start, isConnected, flagVars, io, watchdog, monitorVars,
                     scanVars, listenerVars, dtorVars>>
<1>1. CASE EnterWait \/ SpuriousWake
  BY <1>1 DEF EnterWait, SpuriousWake, WaiterAt
<1>2. CASE WaiterStep
  BY <1>2 DEF WaiterStep, TestPredicate, EnterBlock, TimeOut, TakeScan, LeaveWait, WaiterAt
<1> QED
  BY <1>1, <1>2

\* What the base destructor leaves alone.
LEMMA BaseDtorSteps ==
  ASSUME BaseDtorStep
  PROVE  UNCHANGED <<linkVars, built, start, isConnected, io, watchdog, monitorVars, scanVars,
                     waitVars, listenerVars, crashed>>
  BY DEF BaseDtorStep, BaseDtorRuns, SetInterrupt, NotifyScans, JoinWatchdog, JoinMonitor, StopScan,
         ReleaseHandle, DtorAt

-----------------------------------------------------------------------------
(* Types.  The parts of TypeOK are kept apart: flags, places, counters.    *)

Flags == {watched, built, isConnected, isDataLinkStalled, interruptFlag, seenOld, old, timed,
          again, crashed} \subseteq BOOLEAN

Places == /\ transport \in {"udp", "tcp"} /\ start \in {"queued", "looking", "ok", "failed"}
          /\ io \in {"none", "receiving", "publish", "fire", "lost", "done", "resolving",
                     "connecting", "resolveLater"}
          /\ watchdog \in {"none", "test", "ask", "lost", "sleep", "done"}
          /\ monitor \in {"none", "test", "judge", "sleep", "done"}
          /\ listener \in {"none", "adding", "in"} /\ list \in {"scan", "lost"}
          /\ waiter \in {"out", "pred", "block", "asleep", "take", "got"}
          /\ dtor \in {"none", "stopIo", "joinIo", "base", "notify", "tasks", "monitor", "stop",
                       "release", "gone"}

\* A scan is stored while the bound is not reached only, and received only once
\* the derived constructor has ended.
Counters == /\ scanCounter \in 0..MaxScans /\ before \in 0..MaxScans
            /\ got \in 0..MaxScans /\ previous \in 0..MaxScans /\ since \in 0..MaxScans
            /\ lastScan = scanCounter + IF io = "publish" THEN 1 ELSE 0
            /\ lastScan <= MaxScans
            /\ ~built => io = "none"

TypeInv == Flags /\ Places /\ Counters /\ told \in Seq(1..MaxScans)

LEMMA TypeInvHolds == Spec => []TypeInv
<1> USE ScansAssumption
<1>1. Init => TypeInv
  <2> SUFFICES ASSUME Init PROVE TypeInv
    OBVIOUS
  <2>1. Flags
    BY DEF Init, Flags
  <2>2. Places
    BY DEF Init, Places
  <2>3. Counters /\ told \in Seq(1..MaxScans)
    BY DEF Init, Counters
  <2> QED
    BY <2>1, <2>2, <2>3 DEF TypeInv
<1> USE DEF linkVars, flagVars, scanVars, monitorVars, waitVars, waiterVars, listenerVars, clientVars,
            dtorVars
<1>2. Flags /\ [Next]_vars => Flags'
  <2> SUFFICES ASSUME Flags, [Next]_vars PROVE Flags'
    BY DEF Flags
  <2>1. ASSUME NEW ok \in BOOLEAN, StartAnswered(ok)
        PROVE  Flags'
    BY <2>1 DEF Flags, StartAnswered
  <2>2. CASE WatchdogStep
    BY <2>2 DEF Flags, WatchdogStep, WatchdogRuns, WatchdogTest, FeedRefused, FeedSucceeds, FeedFails,
                FireLost, WatchdogWakes, WatchdogAt, Outcomes
  <2>3. CASE MonitorStep
    BY <2>3 DEF Flags, MonitorStep, MonitorWakes, ReadTimestamp, Judge, MonitorAt, Stalling
  <2>4. CASE EnterWait \/ WaiterStep \/ SpuriousWake
    BY <2>4 DEF Flags, EnterWait, WaiterStep, SpuriousWake, TestPredicate, EnterBlock, TimeOut,
                TakeScan, LeaveWait, Return, WaiterAt
  <2>5. CASE StoreScan \/ Publish
    BY <2>5 DEF Flags, StoreScan, Publish, IoFrame
  <2>6. CASE FireScan
    BY <2>6 DEF Flags, FireScan, IoFrame, Outcomes
  <2>7. CASE Age
    BY <2>7 DEF Flags, Age
  <2>8. CASE BaseDtorStep
    BY <2>8 DEF Flags, BaseDtorStep, BaseDtorRuns, SetInterrupt, NotifyScans, JoinWatchdog, JoinMonitor,
                StopScan, ReleaseHandle, DtorAt
  <2>9. CASE EndAdd \/ \E l \in {"scan", "lost"} : BeginAdd(l)
    BY <2>9 DEF Flags, EndAdd, BeginAdd, listenerFrame
  <2>10. CASE UdpStep
    BY <2>10 DEF Flags, UdpStep, UdpFrame, SetUp, UdpReceiveError, UdpLost, UdpClose, UdpStop,
                 UdpRunEnds, UdpJoin, Outcomes
  <2>11. CASE TcpStep
    BY <2>11 DEF Flags, TcpStep, TcpFrame, Launch, IoAt, Resolved, ResolutionFails, Connected,
                 ConnectionFails, AttemptAborted, ResolveAgain, TcpReceiveError, TcpLost,
                 TcpClose, TcpStop, TcpRunEnds, TcpJoin, Outcomes
  <2>12. CASE UNCHANGED vars
    BY <2>12 DEF Flags, vars
  <2> QED
    BY StepCases, <2>1, <2>2, <2>3, <2>4, <2>5, <2>6, <2>7, <2>8, <2>9, <2>10, <2>11, <2>12
<1>3. Places /\ [Next]_vars => Places'
  <2> SUFFICES ASSUME Places, [Next]_vars PROVE Places'
    BY DEF Places
  <2>1. CASE \E ok \in BOOLEAN : StartAnswered(ok)
    BY <2>1 DEF Places, StartAnswered
  <2>2. CASE WatchdogStep
    BY <2>2 DEF Places, WatchdogStep, WatchdogRuns, WatchdogTest, FeedRefused, FeedSucceeds, FeedFails,
                FireLost, WatchdogWakes, WatchdogAt, LoopCondition
  <2>3. CASE MonitorStep
    BY <2>3 DEF Places, MonitorStep, MonitorWakes, ReadTimestamp, Judge, MonitorAt
  <2>4. CASE EnterWait \/ WaiterStep \/ SpuriousWake
    BY <2>4 DEF Places, EnterWait, WaiterStep, SpuriousWake, TestPredicate, EnterBlock, TimeOut,
                TakeScan, LeaveWait, WaiterAt
  <2>5. CASE StoreScan \/ Publish \/ FireScan \/ Age
    BY <2>5 DEF Places, StoreScan, Publish, FireScan, IoFrame, AfterCount, NotifyAll, Age
  <2>6. CASE BaseDtorStep
    BY <2>6 DEF Places, BaseDtorStep, BaseDtorRuns, SetInterrupt, NotifyScans, JoinWatchdog, JoinMonitor,
                StopScan, ReleaseHandle, DtorAt, NotifyAll
  <2>7. CASE EndAdd \/ \E l \in {"scan", "lost"} : BeginAdd(l)
    BY <2>7 DEF Places, EndAdd, BeginAdd, listenerFrame
  <2>8. CASE UdpStep
    BY <2>8 DEF Places, UdpStep, UdpFrame, SetUp, UdpReceiveError, UdpLost, UdpClose, UdpStop,
                UdpRunEnds, UdpJoin
  <2>9. CASE TcpStep
    BY <2>9 DEF Places, TcpStep, TcpFrame, Launch, IoAt, Resolved, ResolutionFails, Connected,
                ConnectionFails, AttemptAborted, ResolveAgain, TcpReceiveError, TcpLost,
                TcpClose, TcpStop, TcpRunEnds, TcpJoin
  <2>10. CASE UNCHANGED vars
    BY <2>10 DEF Places, vars
  <2> QED
    BY StepCases, <2>1, <2>2, <2>3, <2>4, <2>5, <2>6, <2>7, <2>8, <2>9, <2>10
<1>4. Counters /\ [Next]_vars => Counters'
  <2> SUFFICES ASSUME Counters, [Next]_vars PROVE Counters'
    BY DEF Counters
  <2>1. CASE StoreScan
    BY <2>1 DEF Counters, StoreScan, IoFrame
  <2>2. CASE Publish
    BY <2>2 DEF Counters, Publish, IoFrame, AfterCount, NextCount
  <2>3. CASE FireScan
    BY <2>3 DEF Counters, FireScan, IoFrame
  <2>4. CASE EnterWait \/ WaiterStep \/ SpuriousWake
    <3>1. \/ before' = scanCounter /\ got' = got
          \/ before' = before /\ got' \in {got, lastScan}
          \/ before' = 0 /\ got' = 0
      BY <2>4 DEF EnterWait, WaiterStep, SpuriousWake, TestPredicate, EnterBlock, TimeOut,
                  TakeScan, LeaveWait, Return
    <3>3. previous' \in {previous, got}
      BY <2>4 DEF EnterWait, WaiterStep, SpuriousWake, TestPredicate, EnterBlock, TimeOut,
                  TakeScan, LeaveWait, Return
    <3>2. UNCHANGED <<lastScan, scanCounter, since, io, built>>
      BY <2>4, WaiterSteps
    <3> QED
      BY <3>1, <3>2, <3>3 DEF Counters
  <2>5. CASE EndAdd
    BY <2>5 DEF Counters, EndAdd, listenerFrame
  <2>6. CASE \E l \in {"scan", "lost"} : BeginAdd(l)
    BY <2>6 DEF Counters, BeginAdd, listenerFrame
  <2>7. CASE UdpStep \/ TcpStep
    <3>1. UNCHANGED <<lastScan, scanCounter, before, got, previous, since>>
      BY <2>7, DerivedSteps
    <3>2. \/ io' = io /\ built' = built
          \/ built' /\ (~built \/ io # "publish") /\ io' # "publish"
      BY <2>7 DEF UdpStep, UdpFrame, SetUp, UdpReceiveError, UdpLost, UdpClose, UdpStop,
                  UdpRunEnds, UdpJoin,
                  TcpStep, TcpFrame, Launch, IoAt, Resolved, ResolutionFails, Connected,
                  ConnectionFails, AttemptAborted, ResolveAgain, TcpReceiveError, TcpLost,
                  TcpClose, TcpStop, TcpRunEnds, TcpJoin, Counters
    <3> QED
      BY <3>1, <3>2 DEF Counters
  <2>8. CASE \/ WatchdogStep \/ MonitorStep \/ \E ok \in BOOLEAN : StartAnswered(ok)
             \/ BaseDtorStep \/ Age \/ UNCHANGED vars
    <3>1. UNCHANGED <<lastScan, scanCounter, before, got, previous, since, io, built>>
      BY <2>8, TaskSteps, BaseDtorSteps DEF Age, vars
    <3> QED
      BY <3>1 DEF Counters
  <2> QED
    BY StepCases, <2>1, <2>2, <2>3, <2>4, <2>5, <2>6, <2>7, <2>8
<1>5. Counters /\ told \in Seq(1..MaxScans) /\ [Next]_vars => (told \in Seq(1..MaxScans))'
  <2> SUFFICES ASSUME Counters, told \in Seq(1..MaxScans), [Next]_vars
               PROVE  told' \in Seq(1..MaxScans)
    OBVIOUS
  <2>1. CASE FireScan
    <3>1. CASE Hears
      <4>1. lastScan \in 1..MaxScans
        BY <3>1 DEF Counters, Hears
      <4>2. told' = Append(told, lastScan)
        BY <2>1, <3>1 DEF FireScan
      <4> QED
        BY <4>1, <4>2, AppendProperties
    <3>2. CASE ~Hears
      BY <2>1, <3>2 DEF FireScan
    <3> QED
      BY <3>1, <3>2
  <2>2. ASSUME told' = told PROVE told' \in Seq(1..MaxScans)
    BY <2>2
  <2>3. CASE \/ StoreScan \/ Publish \/ Age
             \/ EndAdd \/ \E l \in {"scan", "lost"} : BeginAdd(l) \/ UNCHANGED vars
    BY <2>2, <2>3 DEF StoreScan, Publish, Age, EndAdd, BeginAdd, listenerFrame, vars
  <2>4. CASE \/ WatchdogStep \/ MonitorStep \/ \E ok \in BOOLEAN : StartAnswered(ok)
             \/ EnterWait \/ WaiterStep \/ SpuriousWake \/ BaseDtorStep \/ UdpStep \/ TcpStep
    BY <2>2, <2>4, TaskSteps, WaiterSteps, BaseDtorSteps, DerivedSteps
  <2> QED
    BY StepCases, <2>1, <2>3, <2>4
<1> QED
  BY <1>1, <1>2, <1>3, <1>4, <1>5, PTL DEF Spec, TypeInv

\* Type correctness: whatever the io thread, the watchdog, the monitor, a client
\* and the destructor do in between, a stored scan is counted except while the
\* io thread is between the two, and no more are counted than were received.
THEOREM TypeCorrect == Spec => []TypeOK
<1>1. TypeInv => TypeOK
  <2> SUFFICES ASSUME TypeInv PROVE TypeOK
    OBVIOUS
  <2>1. {scanCounter, before, got, previous, since} \subseteq 0..MaxScans
    BY DEF TypeInv, Counters
  <2> QED
    BY <2>1 DEF TypeInv, Flags, Places, Counters, TypeOK
<1> QED
  BY <1>1, TypeInvHolds, PTL

-----------------------------------------------------------------------------
(* waitForNextScan                                                         *)

\* The link is interrupted only once its io thread has ended.
Ended == /\ dtor # "none" => built
         /\ dtor \notin {"none", "stopIo", "joinIo"} => io = "done"
         /\ interruptFlag => dtor \notin {"none", "stopIo", "joinIo", "base"}

LEMMA EndedHolds == Spec => []Ended
<1>1. Init => Ended
  BY DEF Init, Ended
<1>2. Ended /\ [Next]_vars => Ended'
  <2> SUFFICES ASSUME Ended, [Next]_vars PROVE Ended'
    OBVIOUS
  <2> USE DEF linkVars, flagVars, scanVars, monitorVars, waitVars, waiterVars, listenerVars,
              clientVars, dtorVars
  <2>1. CASE UdpStep \/ TcpStep
    <3>1. UNCHANGED interruptFlag
      BY <2>1, DerivedSteps
    <3>2. CASE UdpStep
      <4>1. /\ built' = built \/ built'
            /\ built' \/ dtor' = dtor
            /\ \/ dtor' \in {"none", "stopIo", "joinIo"} /\ dtor \in {"none", "stopIo", "joinIo"}
               \/ dtor' = dtor /\ (~built \/ io # "done")
               \/ dtor' = "base" /\ dtor = "joinIo" /\ io' = "done"
        BY <3>2 DEF UdpStep, UdpFrame, SetUp, UdpReceiveError, UdpLost, UdpClose, UdpStop,
                    UdpRunEnds, UdpJoin, Ended
      <4> QED
        BY <3>1, <4>1 DEF Ended
    <3>3. CASE TcpStep
      <4>1. /\ built' = built \/ built'
            /\ built' \/ dtor' = dtor
            /\ \/ dtor' \in {"none", "stopIo", "joinIo"} /\ dtor \in {"none", "stopIo", "joinIo"}
               \/ dtor' = dtor /\ (~built \/ io # "done")
               \/ dtor' = "base" /\ dtor = "joinIo" /\ io' = "done"
        BY <3>3 DEF TcpStep, TcpFrame, Launch, IoAt, Resolved, ResolutionFails, Connected,
                    ConnectionFails, AttemptAborted, ResolveAgain, TcpReceiveError, TcpLost,
                    TcpClose, TcpStop, TcpRunEnds, TcpJoin, Ended
      <4> QED
        BY <3>1, <4>1 DEF Ended
    <3> QED
      BY <2>1, <3>2, <3>3
  <2>3. CASE BaseDtorStep
    BY <2>3 DEF Ended, BaseDtorStep, BaseDtorRuns, SetInterrupt, NotifyScans, JoinWatchdog,
                JoinMonitor, StopScan, ReleaseHandle, DtorAt
  <2>4. CASE StoreScan \/ Publish \/ FireScan
    BY <2>4 DEF Ended, StoreScan, Publish, FireScan, IoFrame
  <2>5. CASE \/ WatchdogStep \/ MonitorStep \/ \E ok \in BOOLEAN : StartAnswered(ok)
             \/ EnterWait \/ WaiterStep \/ SpuriousWake \/ Age
             \/ EndAdd \/ \E l \in {"scan", "lost"} : BeginAdd(l) \/ UNCHANGED vars
    <3>1. UNCHANGED <<built, io, dtor, interruptFlag>>
      BY <2>5, TaskSteps, WaiterSteps DEF Age, EndAdd, BeginAdd, listenerFrame, vars
    <3> QED
      BY <3>1 DEF Ended
  <2> QED
    BY StepCases, <2>1, <2>3, <2>4, <2>5
<1> QED
  BY <1>1, <1>2, PTL DEF Spec

\* The count a waiter remembers is one the counter has had; its predicate lets
\* it through when the counter has moved since, or when the link is interrupted.
LetThrough == /\ waiter # "out" => before <= scanCounter
              /\ waiter = "take" => scanCounter > before \/ interruptFlag
              /\ waiter = "got" =>
                   \/ scanCounter > before /\ got > before
                   \/ interruptFlag /\ got = lastScan /\ got = before

\* The scan a wait has returned was stored when the next one began, hence
\* counted before that one returns.  One that two waits have returned was
\* counted when a third began.
Returned == /\ previous <= lastScan
            /\ waiter # "out" => previous <= before + 1
            /\ waiter = "got" => got >= previous /\ got <= lastScan
            /\ again => previous <= scanCounter
            /\ again /\ waiter # "out" => previous <= before

WaitInv == LetThrough /\ Returned

\* The scan that waitForNextScan returns was not counted when the wait began,
\* and two waits in a row at most return the same; the destruction alone makes
\* a wait return an old scan, the last there is.  Neither a missed or spurious
\* notification nor a timeout does.
THEOREM WaitersGetNewScans == Spec => []NextScanIsNew
<1>1. Init => WaitInv
  BY DEF Init, WaitInv, LetThrough, Returned
<1>2. TypeInv /\ Ended /\ WaitInv /\ [Next]_vars => WaitInv'
  <2> SUFFICES ASSUME TypeInv, Ended, WaitInv, [Next]_vars PROVE WaitInv'
    OBVIOUS
  <2>0. /\ lastScan \in Nat /\ scanCounter \in Nat /\ before \in Nat /\ got \in Nat
        /\ previous \in Nat /\ again \in BOOLEAN /\ interruptFlag \in BOOLEAN
        /\ lastScan = scanCounter + IF io = "publish" THEN 1 ELSE 0
    BY ScansAssumption DEF TypeInv, Counters, Flags
  <2>a. interruptFlag => lastScan = scanCounter /\ io = "done"
    BY <2>0 DEF Ended
  <2>b. LetThrough /\ Returned
    BY DEF WaitInv
  <2> HIDE DEF TypeInv, Ended, WaitInv
  <2> USE DEF linkVars, flagVars, scanVars, monitorVars, waitVars, waiterVars, listenerVars,
              clientVars, dtorVars
  <2>1. CASE EnterWait
    <3>1. /\ waiter = "out" /\ waiter' = "pred" /\ before' = scanCounter
          /\ UNCHANGED <<previous, again, lastScan, scanCounter>>
      BY <2>1 DEF EnterWait, WaiterAt
    <3> QED
      BY <2>0, <2>b, <3>1 DEF WaitInv, LetThrough, Returned
  <2>2. CASE \/ TestPredicate \/ EnterBlock \/ SpuriousWake
             \/ TimeOut /\ waiter' = "take"
    <3>1. /\ waiter \in {"pred", "block", "asleep"}
          /\ waiter' \in {"pred", "block", "asleep"} \/ (waiter' = "take" /\ Awaited)
          /\ UNCHANGED <<before, previous, again, lastScan, scanCounter, interruptFlag>>
      <4>1. CASE TestPredicate
        BY <4>1 DEF TestPredicate, WaiterAt, Awaited
      <4>2. CASE EnterBlock \/ SpuriousWake
        BY <4>2 DEF EnterBlock, SpuriousWake, WaiterAt
      <4>3. CASE TimeOut /\ waiter' = "take"
        BY <4>3 DEF TimeOut, WaiterAt, Awaited
      <4> QED
        BY <2>2, <4>1, <4>2, <4>3
    <3>2. LetThrough'
      BY <2>0, <2>b, <3>1 DEF LetThrough, Awaited
    <3>3. Returned'
      BY <2>0, <2>b, <3>1 DEF Returned
    <3> QED
      BY <3>2, <3>3 DEF WaitInv
  <2>3. CASE TimeOut /\ waiter' = "out"
    <3>1. UNCHANGED <<previous, again, lastScan, scanCounter>>
      BY <2>3 DEF TimeOut, WaiterAt
    <3> QED
      BY <2>3, <2>b, <3>1 DEF WaitInv, LetThrough, Returned
  <2>4. CASE TakeScan
    <3>1. /\ waiter = "take" /\ waiter' = "got" /\ got' = lastScan
          /\ UNCHANGED <<before, previous, again, lastScan, scanCounter, interruptFlag>>
      BY <2>4 DEF TakeScan, WaiterAt
    <3> QED
      BY <2>0, <2>a, <2>b, <3>1 DEF WaitInv, LetThrough, Returned
  <2>5. CASE LeaveWait
    <3>1. /\ waiter = "got" /\ waiter' = "out" /\ previous' = got /\ again' = (got = previous)
          /\ UNCHANGED <<lastScan, scanCounter>>
      BY <2>5 DEF LeaveWait, WaiterAt
    <3>2. got = previous => got <= scanCounter
      BY <2>0, <2>a, <2>b, <3>1 DEF LetThrough, Returned
    <3> QED
      BY <2>0, <2>b, <3>1, <3>2 DEF WaitInv, LetThrough, Returned
  <2>6. CASE StoreScan \/ Publish
    <3>1. /\ waiter' = waiter \/ (waiter = "asleep" /\ waiter' = "pred")
          /\ UNCHANGED <<before, got, previous, again, interruptFlag>>
          /\ io \in {"receiving", "publish"}
          /\ \/ lastScan' = lastScan + 1 /\ scanCounter' = scanCounter
             \/ lastScan' = lastScan /\ scanCounter' = scanCounter + 1
      BY <2>6 DEF StoreScan, Publish, IoFrame, NextCount, NotifyAll
    <3>2. ~interruptFlag
      BY <2>a, <3>1
    <3>3. LetThrough'
      BY <2>0, <2>b, <3>1, <3>2 DEF LetThrough
    <3>4. Returned'
      BY <2>0, <2>b, <3>1 DEF Returned
    <3> QED
      BY <3>3, <3>4 DEF WaitInv
  <2>7. CASE BaseDtorStep
    <3>1. /\ waiter' = waiter \/ (waiter = "asleep" /\ waiter' = "pred")
          /\ interruptFlag' = interruptFlag \/ interruptFlag' = TRUE
      BY <2>7 DEF BaseDtorStep, BaseDtorRuns, SetInterrupt, NotifyScans, JoinWatchdog,
                  JoinMonitor, StopScan, ReleaseHandle, DtorAt, NotifyAll
    <3>2. UNCHANGED <<before, got, previous, again, lastScan, scanCounter>>
      BY <2>7, BaseDtorSteps
    <3>3. LetThrough'
      BY <2>b, <3>1, <3>2 DEF LetThrough
    <3>4. Returned'
      BY <2>b, <3>1, <3>2 DEF Returned
    <3> QED
      BY <3>3, <3>4 DEF WaitInv
  <2>8. ASSUME UNCHANGED <<waiter, before, got, previous, again, lastScan, scanCounter,
                           interruptFlag>>
        PROVE  WaitInv'
    BY <2>b, <2>8 DEF WaitInv, LetThrough, Returned
  <2>9. CASE \/ UdpStep \/ TcpStep
             \/ WatchdogStep \/ MonitorStep \/ \E ok \in BOOLEAN : StartAnswered(ok)
    BY <2>8, <2>9, DerivedSteps, TaskSteps
  <2>10. CASE \/ FireScan \/ Age
              \/ EndAdd \/ \E l \in {"scan", "lost"} : BeginAdd(l)
              \/ UNCHANGED vars
    BY <2>8, <2>10 DEF FireScan, IoFrame, Age, EndAdd, BeginAdd, listenerFrame, vars
  <2>11. TimeOut => waiter' \in {"take", "out"}
    BY DEF TimeOut, WaiterAt
  <2> QED
    BY StepCases, <2>1, <2>2, <2>3, <2>4, <2>5, <2>6, <2>7, <2>9, <2>10, <2>11 DEF WaiterStep
<1>3. TypeInv /\ Ended /\ WaitInv => NextScanIsNew
  <2> SUFFICES ASSUME TypeInv, Ended, LetThrough, Returned, waiter = "got"
               PROVE  NextScanIsNew
    BY DEF WaitInv, NextScanIsNew
  <2>1. /\ scanCounter \in Nat /\ before \in Nat /\ got \in Nat /\ previous \in Nat
        /\ again \in BOOLEAN
    BY ScansAssumption DEF TypeInv, Counters, Flags
  <2>2. interruptFlag => io = "done"
    BY DEF Ended
  <2> QED
    BY <2>1, <2>2 DEF LetThrough, Returned, NextScanIsNew
<1> QED
  BY <1>1, <1>2, <1>3, TypeInvHolds, EndedHolds, PTL DEF Spec

-----------------------------------------------------------------------------
(* addOnNewScanAvailableCallback                                           *)

\* The scans after number s, n of them, in order.
After(s, n) == [i \in 1..n |-> s + i]

LEMMA AfterGrows ==
  ASSUME NEW s \in Nat, NEW n \in Nat
  PROVE  Append(After(s, n), s + (n + 1)) = After(s, n + 1)
<1> DEFINE a == After(s, n)  b == After(s, n + 1)
<1>1. a \in Seq(Nat) /\ Len(a) = n /\ \A i \in 1..n : a[i] = s + i
  BY DEF After
<1>2. b \in Seq(Nat) /\ Len(b) = n + 1 /\ \A i \in 1..(n + 1) : b[i] = s + i
  BY DEF After
<1> HIDE DEF a, b
<1>3. /\ Append(a, s + (n + 1)) \in Seq(Nat) /\ Len(Append(a, s + (n + 1))) = n + 1
      /\ \A i \in 1..n : Append(a, s + (n + 1))[i] = s + i
      /\ Append(a, s + (n + 1))[n + 1] = s + (n + 1)
  BY <1>1, AppendProperties
<1>4. \A i \in 1..(n + 1) : Append(a, s + (n + 1))[i] = b[i]
  BY <1>2, <1>3
<1>5. Append(a, s + (n + 1)) = b
  BY <1>2, <1>3, <1>4, SeqEqual
<1> QED
  BY <1>5 DEF a, b

\* How many scans a callback has been told: all since its registration but the
\* one the io thread has not finished with.
Heard == lastScan - since - IF io \in {"publish", "fire"} /\ since < lastScan THEN 1 ELSE 0

ListenerInv == /\ listener # "in" => told = <<>>
               /\ listener = "in" => since <= lastScan /\ told = After(since, Heard)

\* A callback is told every scan received since its registration, once and in
\* order, unless the race of its registration ended the program.
THEOREM ListenersHearEachScan == Spec => []ListenerHearsEachScan
<1>1. Init => ListenerInv
  BY DEF Init, ListenerInv
<1>2. TypeInv /\ ListenerInv /\ [Next]_vars => ListenerInv'
  <2> SUFFICES ASSUME TypeInv, ListenerInv, [Next]_vars PROVE ListenerInv'
    OBVIOUS
  <2>0. /\ lastScan \in Nat /\ since \in Nat /\ scanCounter \in Nat
        /\ lastScan = scanCounter + IF io = "publish" THEN 1 ELSE 0
        /\ ~built => io = "none"
    BY ScansAssumption DEF TypeInv, Counters
  <2> USE DEF linkVars, flagVars, scanVars, monitorVars, waitVars, waiterVars, listenerVars, clientVars,
              dtorVars
  <2>1. CASE EndAdd
    <3>1. CASE list # "scan"
      BY <2>1, <3>1 DEF EndAdd, listenerFrame, ListenerInv
    <3>2. CASE list = "scan"
      <4>1. /\ listener' = "in" /\ told' = <<>> /\ UNCHANGED <<lastScan, io>>
            /\ since' = lastScan - (IF io = "publish" THEN 1 ELSE 0)
        BY <2>1, <3>2 DEF EndAdd, listenerFrame, ListenerInv
      <4>2. since' <= lastScan' /\ Heard' = 0
        BY <2>0, <4>1 DEF Heard
      <4>3. After(since', 0) = <<>>
        BY DEF After
      <4> QED
        BY <4>1, <4>2, <4>3 DEF ListenerInv
    <3> QED
      BY <3>1, <3>2
  <2>2. CASE \E l \in {"scan", "lost"} : BeginAdd(l)
    BY <2>2 DEF BeginAdd, ListenerInv
  <2>3. CASE StoreScan
    <3>1. UNCHANGED <<listener, since, told>> /\ lastScan' = lastScan + 1
          /\ io = "receiving" /\ io' = "publish"
      BY <2>3 DEF StoreScan, IoFrame
    <3>2. listener = "in" => since' <= lastScan' /\ Heard' = Heard
      BY <2>0, <3>1 DEF Heard, ListenerInv
    <3> QED
      BY <3>1, <3>2 DEF ListenerInv
  <2>4. CASE Publish
    <3>1. UNCHANGED <<listener, since, told, lastScan>> /\ io = "publish" /\ io' = "fire"
      BY <2>4 DEF Publish, IoFrame, AfterCount
    <3> QED
      BY <3>1 DEF ListenerInv, Heard
  <2>5. CASE FireScan
    <3>1. /\ UNCHANGED <<listener, since, lastScan>> /\ io = "fire" /\ io' = "receiving"
          /\ told' = IF Hears THEN Append(told, lastScan) ELSE told
      BY <2>5 DEF FireScan, IoFrame
    <3>2. CASE Hears
      <4>1. /\ listener = "in" /\ since < lastScan /\ Heard \in Nat
            /\ Heard' = Heard + 1 /\ lastScan = since + (Heard + 1)
        BY <2>0, <3>1, <3>2 DEF Hears, Heard
      <4>2. told' = After(since, Heard + 1)
        BY <2>0, <3>1, <3>2, <4>1, AfterGrows DEF ListenerInv
      <4> QED
        BY <3>1, <4>1, <4>2 DEF ListenerInv
    <3>3. CASE ~Hears
      <4>1. listener = "in" => since = lastScan /\ Heard = 0 /\ Heard' = 0
        BY <2>0, <3>1, <3>3 DEF Hears, Heard, ListenerInv
      <4> QED
        BY <3>1, <3>3, <4>1 DEF ListenerInv
    <3> QED
      BY <3>2, <3>3
  <2>6. CASE UdpStep \/ TcpStep
    <3>1. /\ UNCHANGED <<listener, since, told, lastScan>>
          /\ (io' \in {"publish", "fire"}) = (io \in {"publish", "fire"})
      BY <2>0, <2>6, DerivedSteps
    <3> QED
      BY <3>1 DEF ListenerInv, Heard
  <2>7. CASE \/ WatchdogStep \/ MonitorStep \/ \E ok \in BOOLEAN : StartAnswered(ok)
             \/ EnterWait \/ WaiterStep \/ SpuriousWake \/ BaseDtorStep
             \/ Age \/ UNCHANGED vars
    <3>1. UNCHANGED <<listener, since, told, lastScan, io>>
      BY <2>7, TaskSteps, WaiterSteps, BaseDtorSteps DEF Age, vars
    <3> QED
      BY <3>1 DEF ListenerInv, Heard
  <2> QED
    BY StepCases, <2>1, <2>2, <2>3, <2>4, <2>5, <2>6, <2>7
<1>3. ListenerInv => ListenerHearsEachScan
  BY DEF ListenerInv, ListenerHearsEachScan, After, Heard
<1> QED
  BY <1>1, <1>2, <1>3, TypeInvHolds, PTL DEF Spec
=============================================================================
