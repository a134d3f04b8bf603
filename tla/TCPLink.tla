------------------------------- MODULE TCPLink -------------------------------
(***************************************************************************)
(* The life of a TCP link: src/DataLink/TCPLink.cpp.  The io thread        *)
(* resolves and connects, waits and resolves again after a failure, then   *)
(* receives until the first error, after which nothing connects again.     *)
(***************************************************************************)
EXTENDS DataLink

TcpFrame == /\ ~crashed /\ transport = "tcp"
            /\ UNCHANGED <<linkVars, start, flagVars, watchdog, monitorVars, scanVars,
                           clientVars>>

Launch == /\ TcpFrame /\ ~built /\ built' = TRUE
          /\ io' = "resolving"
          /\ UNCHANGED <<isConnected, dtor, crashed>>

IoAt(from, to) == /\ TcpFrame /\ io = from /\ io' = to
                  /\ crashed' \in (IF from = "lost" THEN Outcomes("lost") ELSE {FALSE})
                  /\ UNCHANGED <<built, dtor>>

\* After ioService.stop() no handler begins; before it, with the resolver
\* cancelled and the socket closed, what was under way may end either way.
Running == dtor # "joinIo"
Closing == dtor = "stopIo"

Resolved == Running /\ IoAt("resolving", "connecting") /\ UNCHANGED isConnected

ResolutionFails == Running /\ IoAt("resolving", "resolveLater") /\ UNCHANGED isConnected

\* The attempt starts by shutting and closing the socket.  isConnected is set
\* whatever the device answered to StartScan.
Connected == Running /\ IoAt("connecting", "receiving") /\ isConnected' = TRUE

ConnectionFails == Running /\ IoAt("connecting", "resolveLater") /\ isConnected' = FALSE

\* operation_aborted: the handler returns at once.
AttemptAborted == /\ Closing
                  /\ IoAt("resolving", "done") \/ IoAt("connecting", "done")
                  /\ UNCHANGED isConnected

\* Ten or twenty seconds have passed, or the destructor was heard; the flag
\* is not tested before the next resolution.
ResolveAgain == IoAt("resolveLater", "resolving") /\ UNCHANGED isConnected

TcpReceiveError == Running /\ IoAt("receiving", "lost") /\ isConnected' = FALSE

TcpLost == IoAt("lost", "done") /\ UNCHANGED isConnected

TcpClose == /\ TcpFrame /\ built /\ dtor = "none" /\ dtor' = "stopIo"
            /\ listener # "adding"
            /\ UNCHANGED <<built, isConnected, io, crashed>>

TcpStop == /\ TcpFrame /\ dtor = "stopIo" /\ dtor' = "joinIo"
           /\ UNCHANGED <<built, isConnected, io, crashed>>

TcpRunEnds == /\ dtor = "joinIo"
              /\ \E at \in {"resolving", "connecting", "receiving"} : IoAt(at, "done")
              /\ UNCHANGED isConnected

TcpJoin == /\ TcpFrame /\ dtor = "joinIo" /\ io = "done" /\ dtor' = "base"
           /\ UNCHANGED <<built, isConnected, io, crashed>>

TcpStep == \/ Launch \/ Resolved \/ ResolutionFails \/ Connected \/ ConnectionFails
           \/ AttemptAborted \/ ResolveAgain \/ TcpReceiveError \/ TcpLost
           \/ TcpClose \/ TcpStop \/ TcpRunEnds \/ TcpJoin
=============================================================================
