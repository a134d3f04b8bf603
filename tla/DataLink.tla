------------------------------ MODULE DataLink ------------------------------
(***************************************************************************)
(* The base class of the links: src/DataLink/DataLink.cpp and the public   *)
(* operations of include/DataLink/DataLink.hpp.  UDPLink and TCPLink extend*)
(* it as the classes derive from it; Links puts them together.             *)
(*                                                                         *)
(* The threads are the device's io thread (which answers the commands), the*)
(* link's io thread (io, moved by UDPLink and TCPLink), the watchdog, the  *)
(* stall monitor, a client and the destructor.  The client waits for scans *)
(* or registers callbacks, and waits no more (a bound) once it is told the *)
(* scans.                                                                  *)
(*                                                                         *)
(* All guards but the destructor's adopt their mutex without locking it, so*)
(* that a condition is tested and waited on in two steps, every wait has to*)
(* live with a missed notification, and a registration can meet an event   *)
(* being fired; the mutexes themselves keep nobody out and are not modelled*)
(* Scans are numbered as they are received.                                *)
(***************************************************************************)
EXTENDS Naturals, Sequences

CONSTANTS MaxScans   (* bound on the scans received                        *)

ASSUME ScansAssumption == MaxScans \in Nat

VARIABLES
  transport,      (* which class is derived: "udp" or "tcp"                *)
  watched,        (* deviceHandle->isWatchdogEnabled()                     *)
  built,          (* the derived constructor has ended                     *)
  start,          (* the StartScan command: queued, "ok" or "failed" (or   *)
                  (* refused by the worker); "looking": it still looks up   *)
                  (* the device's endpoints and may be overtaken           *)
  isConnected, isDataLinkStalled, interruptFlag,
  io,             (* what the link's io thread is doing; "none": no thread *)
  watchdog, monitor,
  seenOld,        (* what the monitor read in the last scan's timestamp    *)
  lastScan,       (* the scan stored in lastScanReceived; 0 is the empty   *)
  old,            (* its timestamp is six seconds old                      *)
  scanCounter,
  waiter, timed, before, got,
  previous, again,(* history: the scan that the client's last wait returned*)
                  (* and whether the wait before it returned the same      *)
  listener, list, (* the callback a client registers, and in which list:   *)
                  (* "scan" (onNewScanAvailable) or "lost"; one of the     *)
                  (* latter is forgotten once it is registered             *)
  since, told,    (* the last scan it came too late for; those it was told *)
  dtor,
  crashed         (* by an exception, a data race or a late answer         *)

linkVars == <<transport, watched>>
flagVars == <<isDataLinkStalled, interruptFlag>>
scanVars == <<lastScan, old, scanCounter>>
monitorVars == <<monitor, seenOld>>
waitVars == <<timed, before, got, previous, again>>
waiterVars == <<waiter, waitVars>>
listenerVars == <<listener, list, since, told>>
clientVars == <<waiterVars, listenerVars>>
dtorVars == <<dtor, crashed>>
vars == <<linkVars, built, start, isConnected, flagVars, io, watchdog, monitorVars,
          scanVars, clientVars, dtorVars>>

\* The base constructor has submitted StartScan, or been refused.  The empty
\* scan's timestamp is the clock's epoch.
Init == /\ transport \in {"udp", "tcp"} /\ watched \in BOOLEAN
        /\ built = FALSE
        /\ start \in {"queued", "looking", "failed"} /\ isConnected = (start # "failed")
        /\ isDataLinkStalled = FALSE /\ interruptFlag = FALSE
        /\ io = "none" /\ watchdog = "none" /\ monitor = "none" /\ seenOld = FALSE
        /\ lastScan = 0 /\ old = TRUE /\ scanCounter = 0
        /\ waiter = "out" /\ timed = FALSE /\ before = 0 /\ got = 0
        /\ previous = 0 /\ again = FALSE
        /\ listener = "none" /\ list = "scan" /\ since = 0 /\ told = <<>>
        /\ dtor = "none" /\ crashed = FALSE

-----------------------------------------------------------------------------
(* The answer of StartScan, on the device's io thread.  It comes before the*)
(* answer to StopScan, unless StartScan was overtaken; after the end of the*)
(* destructor its callback finds no link any more.                         *)

StartAnswered(ok) ==
  /\ ~crashed /\ start \in {"queued", "looking"}
  /\ start' = IF ok THEN "ok" ELSE "failed"
  /\ isConnected' = (isConnected /\ ok)
  /\ watchdog' = IF ok /\ watched THEN "test" ELSE watchdog
  /\ monitor' = IF ok THEN "sleep" ELSE monitor
  /\ crashed' = (dtor = "gone")
  /\ UNCHANGED <<linkVars, built, flagVars, io, seenOld, scanVars, clientVars, dtor>>

-----------------------------------------------------------------------------
(* The lists of callbacks, whose guards keep nobody out                    *)

Firing == IF list = "scan" THEN io = "fire" ELSE io = "lost" \/ watchdog = "lost"

\* Whether an iteration over list l can end the program when it ends: it can
\* when a registration is changing the list.
Outcomes(l) == IF listener = "adding" /\ list = l THEN BOOLEAN ELSE {FALSE}

listenerFrame == <<linkVars, built, start, isConnected, flagVars, io, watchdog, monitorVars,
                   scanVars, waiterVars, dtor>>

BeginAdd(l) == /\ ~crashed /\ built /\ dtor = "none" /\ waiter = "out"
               /\ listener = "none" /\ listener' = "adding" /\ list' = l
               /\ UNCHANGED <<since, told, crashed, listenerFrame>>

EndAdd == /\ ~crashed /\ listener = "adding"
          /\ IF list = "scan"
             THEN listener' = "in" /\ since' = lastScan - (IF io = "publish" THEN 1 ELSE 0)
             ELSE listener' = "none" /\ UNCHANGED since
          /\ list' = "scan"
          /\ crashed' \in (IF Firing THEN BOOLEAN ELSE {FALSE})
          /\ UNCHANGED <<told, listenerFrame>>

-----------------------------------------------------------------------------
(* watchdogTask                                                            *)

WatchdogAt(from, to) ==
  /\ ~crashed /\ watchdog = from /\ watchdog' = to
  /\ crashed' \in (IF from = "lost" THEN Outcomes("lost") ELSE {FALSE})
  /\ UNCHANGED <<linkVars, built, start, flagVars, io, monitorVars, scanVars, clientVars,
                 dtor>>

\* The loop's condition, tested once per watchdog period, after a wait that
\* the destructor may fail to cut short.  Mutant: it is not tested.
Unconditional == "ask"
LoopCondition == IF interruptFlag THEN "done" ELSE "ask"

WatchdogTest == WatchdogAt("test", LoopCondition) /\ UNCHANGED isConnected

\* The command is refused: the link is not alive, and no event is fired.
FeedRefused == WatchdogAt("ask", "sleep") /\ isConnected' = FALSE

FeedSucceeds == WatchdogAt("ask", "sleep") /\ isConnected' = TRUE

FeedFails == WatchdogAt("ask", IF isConnected THEN "lost" ELSE "sleep") /\ isConnected' = FALSE

\* fireDataLinkConnectionLostEvent
FireLost == WatchdogAt("lost", "sleep") /\ UNCHANGED isConnected

WatchdogWakes == WatchdogAt("sleep", "test") /\ UNCHANGED isConnected

-----------------------------------------------------------------------------
(* stallMonitoringTask                                                     *)

MonitorAt(from, to) ==
  /\ ~crashed /\ monitor = from /\ monitor' = to
  /\ UNCHANGED <<linkVars, built, start, isConnected, interruptFlag, io, watchdog, scanVars,
                 clientVars, dtorVars>>

\* The first test comes after ten seconds, the others every three.
MonitorWakes == /\ MonitorAt("sleep", "test")
                /\ UNCHANGED <<isDataLinkStalled, seenOld>>

ReadTimestamp == /\ MonitorAt("test", IF interruptFlag THEN "done" ELSE "judge")
                 /\ seenOld' = old
                 /\ UNCHANGED isDataLinkStalled

\* Mutant: a stall is seen once a scan has been received only.
OldAfterFirst == isConnected /\ seenOld /\ lastScan > 0
Stalling == isConnected /\ seenOld

Judge == /\ MonitorAt("judge", IF Stalling THEN "done" ELSE "sleep")
         /\ isDataLinkStalled' = Stalling
         /\ seenOld' = FALSE

-----------------------------------------------------------------------------
(* waitForNextScan, and setOutputScanFromCompletedFactory on the io thread *)

WaiterAt(from, to) ==
  /\ ~crashed /\ waiter = from /\ waiter' = to
  /\ UNCHANGED <<linkVars, built, start, isConnected, flagVars, io, watchdog, monitorVars,
                 scanVars, listenerVars, dtorVars>>

EnterWait == /\ built /\ dtor = "none" /\ isConnected /\ listener = "none"
             /\ WaiterAt("out", "pred")
             /\ before' = scanCounter
             /\ timed' \in BOOLEAN
             /\ UNCHANGED <<got, previous, again>>

\* The wait's predicate.  Mutant: it holds at once.
AtOnce == interruptFlag \/ scanCounter >= before
Awaited == interruptFlag \/ scanCounter # before

TestPredicate == /\ WaiterAt("pred", IF Awaited THEN "take" ELSE "block")
                 /\ UNCHANGED waitVars

EnterBlock == WaiterAt("block", "asleep") /\ UNCHANGED waitVars

SpuriousWake == WaiterAt("asleep", "pred") /\ UNCHANGED waitVars

TakeScan == /\ WaiterAt("take", "got") /\ got' = lastScan
            /\ UNCHANGED <<timed, before, previous, again>>

\* The locals of the call end with it.
Return == timed' = FALSE /\ before' = 0 /\ got' = 0
LeaveWait == /\ WaiterAt("got", "out") /\ Return
             /\ previous' = got /\ again' = (got = previous)

\* The predicate is tested once more at the timeout.
TimeOut == /\ timed
           /\ \/ Awaited /\ WaiterAt("asleep", "take") /\ UNCHANGED waitVars
              \/ ~Awaited /\ WaiterAt("asleep", "out") /\ Return /\ UNCHANGED <<previous, again>>

IoFrame == /\ ~crashed
           /\ UNCHANGED <<linkVars, built, start, isConnected, flagVars, watchdog,
                          monitorVars, waitVars, listener, list, since, dtor>>

\* A waiter asleep is woken.  Mutant: nobody is.
NotifyNobody == UNCHANGED waiter
NotifyAll == waiter' = IF waiter = "asleep" THEN "pred" ELSE waiter

\* The scan is stored before it is counted.
StoreScan == /\ IoFrame /\ io = "receiving" /\ io' = "publish"
             /\ lastScan < MaxScans /\ lastScan' = lastScan + 1
             /\ old' = FALSE
             /\ UNCHANGED <<scanCounter, waiter, told, crashed>>

\* Mutant: the scan is not counted.
SameCount == scanCounter
NextCount == scanCounter + 1

\* Mutant: nobody is told while the link is not alive.
OnlyIfAlive == IF isConnected THEN "fire" ELSE "receiving"
AfterCount == "fire"

Publish == /\ IoFrame /\ io = "publish" /\ io' = AfterCount
           /\ scanCounter' = NextCount
           /\ NotifyAll
           /\ UNCHANGED <<lastScan, old, told, crashed>>

\* fireOnScanAvailableEvent tells the callbacks that were in the list when the
\* iteration began.
Hears == listener = "in" /\ since < lastScan

FireScan == /\ IoFrame /\ io = "fire" /\ io' = "receiving"
            /\ told' = IF Hears THEN Append(told, lastScan) ELSE told
            /\ crashed' \in Outcomes("scan")
            /\ UNCHANGED <<scanVars, waiter>>

\* Six seconds pass without a scan.
Age == /\ ~crashed /\ ~old /\ old' = TRUE
       /\ UNCHANGED <<linkVars, built, start, isConnected, flagVars, io, watchdog, monitorVars,
                      lastScan, scanCounter, clientVars, dtorVars>>

-----------------------------------------------------------------------------
(* ~DataLink, after the derived destructor has ended at "base".            *)

DtorAt(from, to) ==
  /\ ~crashed /\ dtor = from /\ dtor' = to
  /\ UNCHANGED <<linkVars, built, start, isConnected, isDataLinkStalled, io, watchdog,
                 monitorVars, scanVars, waitVars, listenerVars, crashed>>

SetInterrupt == /\ DtorAt("base", "notify")
                /\ interruptFlag' = TRUE
                /\ UNCHANGED waiter

NotifyScans == /\ DtorAt("notify", "tasks")
               /\ NotifyAll
               /\ UNCHANGED interruptFlag

\* Futures that StartScan has not set yet are not waited for.
Idle(task) == task \in {"none", "done"}

JoinWatchdog == /\ DtorAt("tasks", "monitor") /\ Idle(watchdog)
                /\ UNCHANGED <<waiter, interruptFlag>>

JoinMonitor == /\ DtorAt("monitor", "stop") /\ Idle(monitor)
               /\ UNCHANGED <<waiter, interruptFlag>>

\* StopScan then ReleaseHandle, both awaited.
StopScan == /\ DtorAt("stop", "release") /\ start # "queued"
            /\ UNCHANGED <<waiter, interruptFlag>>

ReleaseHandle == /\ DtorAt("release", "gone")
                 /\ UNCHANGED <<waiter, interruptFlag>>

-----------------------------------------------------------------------------
WatchdogRuns == WatchdogTest \/ FireLost \/ WatchdogWakes
WatchdogStep == WatchdogRuns \/ FeedRefused \/ FeedSucceeds \/ FeedFails
MonitorStep == MonitorWakes \/ ReadTimestamp \/ Judge
WaiterStep == TestPredicate \/ EnterBlock \/ TimeOut \/ TakeScan \/ LeaveWait
BaseDtorRuns == SetInterrupt \/ NotifyScans \/ JoinWatchdog \/ JoinMonitor
BaseDtorStep == BaseDtorRuns \/ StopScan \/ ReleaseHandle
BaseStep == \/ \E ok \in BOOLEAN : StartAnswered(ok)
            \/ WatchdogStep \/ MonitorStep \/ EnterWait \/ WaiterStep \/ SpuriousWake
            \/ StoreScan \/ Publish \/ FireScan \/ Age \/ BaseDtorStep
            \/ EndAdd \/ \E l \in {"scan", "lost"} : BeginAdd(l)
=============================================================================
