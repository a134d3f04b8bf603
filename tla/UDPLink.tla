------------------------------- MODULE UDPLink -------------------------------
(***************************************************************************)
(* The life of a UDP link: src/DataLink/UDPLink.cpp.  The constructor sets *)
(* up the socket while StartScan may be answered; the io thread is launched*)
(* only if the setup succeeds, and ends with the first receive error.      *)
(***************************************************************************)
EXTENDS DataLink

UdpFrame == /\ ~crashed /\ transport = "udp"
            /\ UNCHANGED <<linkVars, start, flagVars, watchdog, monitorVars, scanVars,
                           clientVars>>

SetUp(ok) == /\ UdpFrame /\ ~built /\ built' = TRUE
             /\ isConnected' = ok
             /\ io' = IF ok THEN "receiving" ELSE "none"
             /\ UNCHANGED <<dtor, crashed>>

\* onBytesReceived with an error: the event is fired and nothing is received
\* any more.
UdpReceiveError == /\ UdpFrame /\ io = "receiving" /\ io' = "lost"
                   /\ dtor # "joinIo"
                   /\ isConnected' = FALSE
                   /\ UNCHANGED <<built, dtor, crashed>>

\* The event's callbacks return; run() has no work left.
UdpLost == /\ UdpFrame /\ io = "lost" /\ io' = "done"
           /\ crashed' \in Outcomes("lost")
           /\ UNCHANGED <<built, isConnected, dtor>>

\* ~UDPLink closes the socket, which ends the receive.
UdpClose == /\ UdpFrame /\ built /\ dtor = "none" /\ dtor' = "stopIo"
            /\ listener # "adding"
            /\ UNCHANGED <<built, isConnected, io, crashed>>

\* stop() and wait() unless run() has returned by itself.  Without a thread
\* the wait on an invalid future throws out of the destructor.
UdpStop == /\ UdpFrame /\ dtor = "stopIo"
           /\ dtor' = IF io = "none" THEN dtor ELSE "joinIo"
           /\ crashed' = (io = "none")
           /\ UNCHANGED <<built, isConnected, io>>

\* A stopped run() returns after the handler in progress.
UdpRunEnds == /\ UdpFrame /\ dtor = "joinIo" /\ io = "receiving" /\ io' = "done"
              /\ UNCHANGED <<built, isConnected, dtor, crashed>>

UdpJoin == /\ UdpFrame /\ dtor = "joinIo" /\ io = "done" /\ dtor' = "base"
           /\ UNCHANGED <<built, isConnected, io, crashed>>

UdpStep == \/ \E ok \in BOOLEAN : SetUp(ok)
           \/ UdpReceiveError \/ UdpLost \/ UdpClose \/ UdpStop \/ UdpRunEnds \/ UdpJoin
=============================================================================
