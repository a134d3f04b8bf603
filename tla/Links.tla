-------------------------------- MODULE Links --------------------------------
(***************************************************************************)
(* A data link of either transport, from the base constructor to the end of*)
(* the destructor.                                                         *)
(***************************************************************************)
EXTENDS UDPLink, TCPLink

Next == BaseStep \/ UdpStep \/ TcpStep

Spec == Init /\ [][Next]_vars

\* The threads run, waits with a timeout time out, time passes, the operating
\* system ends attempts to resolve or connect.  The stream may stop, a command
\* may never be answered, the client need not destroy the link.
IoRuns == \/ Publish \/ FireScan
          \/ UdpLost \/ UdpRunEnds
          \/ Resolved \/ ResolutionFails \/ Connected \/ ConnectionFails
          \/ AttemptAborted \/ ResolveAgain \/ TcpLost \/ TcpRunEnds

DtorRuns == UdpStop \/ UdpJoin \/ TcpStop \/ TcpJoin \/ BaseDtorRuns

Fairness == /\ WF_vars(WatchdogRuns) /\ WF_vars(MonitorStep) /\ WF_vars(IoRuns)
            /\ WF_vars(WaiterStep) /\ WF_vars(EndAdd) /\ WF_vars(DtorRuns) /\ WF_vars(Age)

FairSpec == Spec /\ Fairness

-----------------------------------------------------------------------------
(* Properties                                                              *)

\* Every variable has its type; a stored scan is counted except while the io
\* thread is between the two.
TypeOK ==
  /\ transport \in {"udp", "tcp"} /\ start \in {"queued", "looking", "ok", "failed"}
  /\ {watched, built, isConnected, isDataLinkStalled, interruptFlag, seenOld, old, timed,
      again, crashed} \subseteq BOOLEAN
  /\ io \in {"none", "receiving", "publish", "fire", "lost", "done", "resolving", "connecting",
             "resolveLater"}
  /\ watchdog \in {"none", "test", "ask", "lost", "sleep", "done"}
  /\ monitor \in {"none", "test", "judge", "sleep", "done"}
  /\ {scanCounter, before, got, previous, since} \subseteq 0..MaxScans
  /\ listener \in {"none", "adding", "in"} /\ list \in {"scan", "lost"}
  /\ told \in Seq(1..MaxScans)
  /\ lastScan = scanCounter + IF io = "publish" THEN 1 ELSE 0
  /\ waiter \in {"out", "pred", "block", "asleep", "take", "got"}
  /\ dtor \in {"none", "stopIo", "joinIo", "base", "notify", "tasks", "monitor", "stop",
               "release", "gone"}

\* waitForNextScan's documentation: "Wait for the next scan to be received".
\* What it returns was not yet counted when the wait began, never goes back, and
\* is returned by two waits at most: by the second when it was stored and not
\* yet counted for the first.  The documentation promises no scan to a wait that
\* the destruction ends; it gets one, and if that is not new it is the last the
\* link will ever store.
NextScanIsNew ==
  waiter = "got" =>
    \/ got > before /\ got >= previous /\ (again => got > previous)
    \/ interruptFlag /\ got = before /\ got = lastScan /\ io = "done"

\* addOnNewScanAvailableCallback: "a callback to execute" on new scans.  Unless
\* its registration raced with an event, a callback is told every scan received
\* since, once and in order, before the next one is stored or the thread ends,
\* even while the link is being destroyed.
ListenerHearsEachScan ==
  listener = "in" /\ ~crashed =>
    told = [i \in 1..(lastScan - since - IF io \in {"publish", "fire"} /\ since < lastScan
                                       THEN 1 ELSE 0) |-> since + i]

\* A waiter that sleeps through a scan, or through the destruction, because
\* the notification fell between its test and its wait, is woken by the next
\* notification that finds it asleep.
NextNotificationRescues ==
  (waiter = "asleep" /\ Awaited /\ (io = "publish" \/ dtor = "notify"))
    ~> (waiter = "out" \/ crashed)

\* A receiver that is gone for good while the link is still called alive (the
\* watchdog's commands succeed) is reported stalled, if the scan was started.
DeadStreamIsReported ==
  <>[](start = "ok" /\ io = "done" /\ isConnected /\ dtor = "none" /\ ~crashed)
    => []<>isDataLinkStalled

\* The destructor ends, whatever the threads were doing, unless it waits for ever
\* for the answer to a command, the watchdog's or its own (none of these waits
\* has a timeout), or the socket of a UDP link could not be set up, which throws.
AwaitsAnswer == (dtor = "tasks" /\ watchdog = "ask") \/ dtor \in {"stop", "release"}

DestructionEnds ==
  <>[](dtor # "none") => []<>(dtor = "gone" \/ crashed) \/ <>[]AwaitsAnswer

\* ~DataLink's documentation: "Stop the watchdog task and wait for it to exit,
\* then instruct the device to stop and release the stream of data".
WatchdogExitsBeforeRelease == dtor = "release" => Idle(watchdog)
=============================================================================
