--------------------------- MODULE CommandChannel ---------------------------
(***************************************************************************)
(* The asynchronous HTTP commands of src/R2000.cpp.  Clients submit        *)
(* requests to a Worker (module Worker; here jobs come out in the order    *)
(* they went in, as they do while no two accesses to its list race, and    *)
(* where its batches end is left open); the worker                         *)
(* thread starts a resolution or, once endpoints are cached, a connection; *)
(* the io thread runs the handlers of one io_service and, when it has run  *)
(* out of work, waits on a condition variable without a predicate and with *)
(* a mutex nobody locked.  All requests share ONE resolver, ONE socket and *)
(* two deadline timers.                                                    *)
(*                                                                         *)
(* Time is a flag per timer: expired means expiry() <= now.  A handler     *)
(* waiting in the io_service is a record [h, r, e]: which handler, whose   *)
(* request, with which error.                                              *)
(***************************************************************************)
EXTENDS Naturals, FiniteSets, SequencesExt

CONSTANTS
  NumRequests,  (* how many requests clients may submit; they are numbered *)
                (* in the order of submission                              *)
  Throwing,     (* those whose callable throws on an answer without the    *)
                (* fields it extracts                                      *)
  DeviceAnswers,   (* the results an exchange may have, apart from FAILED  *)
  MaxInFlight,  (* how many unanswered requests clients allow themselves   *)
  MaxCancels,   (* bound on the calls of cancelPendingCommands             *)
  MayDestroy    (* whether the device object may be destroyed              *)

Requests == 1..NumRequests
NoRequest == 0

ASSUME ChannelAssumption == /\ NumRequests \in Nat
                            /\ Throwing \subseteq Requests
                            /\ DeviceAnswers \subseteq {"success", "hollow", "rejected"}
                            /\ MaxInFlight \in Nat /\ MaxCancels \in Nat
                            /\ MayDestroy \in BOOLEAN

VARIABLES
  queue,          (* jobs pushed to the worker and not yet taken           *)
  pc, req,        (* of the "worker" and the "io" thread: place, request   *)
  endpoints,      (* deviceEndpoints: "unknown", "good" or "empty"         *)
  lookups,        (* history: requests that had to resolve the endpoints   *)
  resolving,      (* requests whose resolution is in progress              *)
  sock,           (* asyncSocket: its state, the request that opened it,   *)
                  (* the request last written on this connection           *)
  resolverTimer, socketTimer,  (* [expired, waiting, for]                  *)
  ready,          (* the io_service's completed handlers, in order         *)
  stopped, interruptIoServiceTask,
  calls,          (* the results each callable was invoked with            *)
  submitted,
  excused,        (* unanswered requests whose deadline has passed or that *)
                  (* a client cancelled                                    *)
  cancels, dtor

ioVars == <<lookups, resolving, sock, resolverTimer, socketTimer, ready>>
threadVars == <<pc, req>>
clientVars == <<submitted, cancels, dtor, interruptIoServiceTask>>
vars == <<queue, threadVars, endpoints, ioVars, stopped, calls, excused, clientVars>>

Closed == [st |-> "closed", owner |-> NoRequest, written |-> NoRequest]
Handler(h, r, e) == [h |-> h, r |-> r, e |-> e]

Init == /\ queue = <<>> /\ endpoints = "unknown" /\ lookups = {} /\ resolving = {}
        /\ pc = [worker |-> "idle", io |-> "test"]
        /\ req = [worker |-> NoRequest, io |-> NoRequest]
        /\ sock = Closed /\ ready = <<>>
        /\ resolverTimer = [expired |-> TRUE, waiting |-> FALSE, for |-> NoRequest]
        /\ socketTimer = resolverTimer
        /\ stopped = FALSE /\ interruptIoServiceTask = FALSE
        /\ calls = [r \in Requests |-> <<>>]
        /\ submitted = {} /\ excused = {} /\ cancels = 0 /\ dtor = "none"

-----------------------------------------------------------------------------
(* What the calls on timers, resolver and socket do.  Each operator gives  *)
(* the handlers the call makes ready.                                      *)

TimerAbort(t, h) == IF t.waiting THEN <<Handler(h, NoRequest, "aborted")>> ELSE <<>>
Cancelled(t) == [t EXCEPT !.waiting = FALSE]
Armed(r) == [expired |-> FALSE, waiting |-> TRUE, for |-> r]

\* A pending connection completes with operation_aborted when its socket is
\* closed, pending resolutions when the resolver is cancelled.
\* Mutant: the abandoned attempt is forgotten.
NoAbort == <<>>
SocketAbort == IF sock.st = "connecting"
               THEN <<Handler("connected", sock.owner, "aborted")>> ELSE <<>>
ResolverAbort ==
  CHOOSE s \in [1..Cardinality(resolving) -> {Handler("resolved", r, "aborted") : r \in resolving}] :
    \A r \in resolving : \E i \in DOMAIN s : s[i].r = r

Goto(t, from, to) == pc[t] = from /\ pc' = [pc EXCEPT ![t] = to]
Release(t) == req' = [req EXCEPT ![t] = NoRequest]

-----------------------------------------------------------------------------
(* Clients                                                                 *)

InFlight == {r \in submitted : calls[r] = <<>>}

\* The notify_one of Worker's pushJob and destructor.
WakeWorker(p) == IF p.worker = "asleep" THEN [p EXCEPT !.worker = "idle"] ELSE p

Submit(r) == /\ dtor = "none" /\ submitted = 1..(r - 1)
             /\ Cardinality(InFlight) < MaxInFlight
             /\ submitted' = submitted \cup {r}
             /\ queue' = Append(queue, r)
             /\ pc' = WakeWorker(pc)
             /\ UNCHANGED <<req, endpoints, ioVars, stopped, calls, excused,
                            cancels, dtor, interruptIoServiceTask>>

\* cancelPendingCommands
CancelAll == /\ resolving' = {}
             /\ sock' = Closed
             /\ excused' = excused \cup InFlight

Cancel == /\ dtor = "none" /\ cancels < MaxCancels
          /\ cancels' = cancels + 1
          /\ CancelAll
          /\ ready' = ready \o ResolverAbort \o SocketAbort
          /\ UNCHANGED <<queue, threadVars, endpoints, lookups, resolverTimer, socketTimer,
                         stopped, calls, submitted, dtor, interruptIoServiceTask>>

-----------------------------------------------------------------------------
(* The worker thread waits for jobs, or for the end (module Worker): it    *)
(* finds the list empty, and only then does it begin to wait.              *)

interruptFlag == dtor \in {"notifyWorker", "joinWorker", "gone"}
workerFrame == <<queue, req, endpoints, ioVars, stopped, calls, excused, clientVars>>

WorkerPredicate == /\ queue = <<>> /\ ~interruptFlag
                   /\ Goto("worker", "idle", "block")
                   /\ UNCHANGED workerFrame

WorkerBlock == Goto("worker", "block", "asleep") /\ UNCHANGED workerFrame

WorkerSpuriousWake == Goto("worker", "asleep", "idle") /\ UNCHANGED workerFrame

\* Between two batches: the jobs that are waiting will not run.
WorkerEnds == /\ interruptFlag
              /\ Goto("worker", "idle", "done")
              /\ UNCHANGED workerFrame

-----------------------------------------------------------------------------
(* The worker thread: the job pushed by AsyncHttpGet                       *)

\* The place whose turn it is.  Mutant: the last.
LastTurn == Len(queue)
Turn == 1
NextJob == queue[Turn]

TakeJob ==
  /\ queue # <<>>
  /\ Goto("worker", "idle", IF endpoints = "unknown" THEN "resolve" ELSE "cached")
  /\ req' = [req EXCEPT !.worker = NextJob]
  /\ queue' = RemoveAt(queue, Turn)
  /\ lookups' = IF endpoints = "unknown" THEN lookups \cup {NextJob} ELSE lookups
  /\ UNCHANGED <<endpoints, resolving, sock, resolverTimer, socketTimer, ready, stopped, calls, excused, clientVars>>

\* async_resolve
Resolve == /\ Goto("worker", "resolve", "armResolver")
           /\ resolving' = resolving \cup {req.worker}
           /\ UNCHANGED <<queue, req, endpoints, lookups, sock, resolverTimer, socketTimer, ready,
                          stopped, calls, excused, clientVars>>

\* scheduleNextEndpointResolutionDeadline
ArmResolver == /\ Goto("worker", "armResolver", "notify")
               /\ ready' = ready \o TimerAbort(resolverTimer, "resolverDeadline")
               /\ resolverTimer' = Armed(req.worker)
               /\ Release("worker")
               /\ UNCHANGED <<queue, endpoints, lookups, resolving, sock, socketTimer,
                              stopped, calls, excused, clientVars>>

\* The cached endpoints enter onEndpointResolutionAttemptCompleted directly.
UseCache == /\ Goto("worker", "cached", "close")
            /\ ready' = ready \o TimerAbort(resolverTimer, "resolverDeadline")
            /\ resolverTimer' = Cancelled(resolverTimer)
            /\ UNCHANGED <<queue, req, endpoints, lookups, resolving, sock, socketTimer,
                           stopped, calls, excused, clientVars>>

\* notify_one, which only a sleeping io thread notices.  Mutant: forgotten.
WakeNobody(p) == p
WakeIo(p) == IF p.io = "asleep" THEN [p EXCEPT !.io = "awake"] ELSE p

NotifyIo == /\ pc.worker = "notify"
            /\ pc' = WakeIo([pc EXCEPT !.worker = "idle"])
            /\ UNCHANGED <<queue, req, endpoints, ioVars, stopped, calls, excused, clientVars>>

-----------------------------------------------------------------------------
(* onEndpointResolutionAttemptCompleted without error, on either thread t  *)

SetupClose(t) == /\ Goto(t, "close", "connect")
                 /\ ready' = ready \o SocketAbort
                 /\ sock' = Closed
                 /\ UNCHANGED <<queue, req, endpoints, lookups, resolving, resolverTimer,
                                socketTimer, stopped, calls, excused, clientVars>>

\* async_connect closes the socket once more, opens it and connects; over an
\* empty range it only posts not_found.
SetupConnect(t) ==
  /\ Goto(t, "connect", "arm")
  /\ IF endpoints = "empty"
     THEN /\ ready' = Append(ready, Handler("connected", req[t], "notFound"))
          /\ UNCHANGED sock
     ELSE /\ ready' = ready \o SocketAbort
          /\ sock' = [st |-> "connecting", owner |-> req[t], written |-> NoRequest]
  /\ UNCHANGED <<queue, req, endpoints, lookups, resolving, resolverTimer, socketTimer,
                 stopped, calls, excused, clientVars>>

\* scheduleNextSocketConnectionDeadline.  Mutant: the wait is not started.
ArmedSilently(r) == [expired |-> FALSE, waiting |-> FALSE, for |-> r]
SocketArmed(r) == Armed(r)

SetupArm(t) ==
  /\ Goto(t, "arm", IF t = "io" THEN "run" ELSE "notify")
  /\ ready' = ready \o TimerAbort(socketTimer, "socketDeadline")
  /\ socketTimer' = SocketArmed(req[t])
  /\ Release(t)
  /\ UNCHANGED <<queue, endpoints, lookups, resolving, sock, resolverTimer, stopped,
                 calls, excused, clientVars>>
-----------------------------------------------------------------------------
(* The io thread: ioServiceTask                                            *)

IoTest == /\ Goto("io", "test", IF interruptIoServiceTask THEN "done" ELSE "run")
          /\ UNCHANGED <<queue, req, endpoints, ioVars, stopped, calls, excused, clientVars>>

NoWork == /\ ready = <<>> /\ resolving = {} /\ sock.st # "connecting"
          /\ ~resolverTimer.waiting /\ ~socketTimer.waiting

\* run() returns, leaving the io_service stopped.
IoRunReturns == /\ Goto("io", "run", "block")
                /\ stopped \/ NoWork
                /\ stopped' = TRUE
                /\ UNCHANGED <<queue, req, endpoints, ioVars, calls, excused, clientVars>>

IoBlock == /\ Goto("io", "block", "asleep")
           /\ UNCHANGED <<queue, req, endpoints, ioVars, stopped, calls, excused, clientVars>>

IoSpuriousWake == /\ Goto("io", "asleep", "awake")
                  /\ UNCHANGED <<queue, req, endpoints, ioVars, stopped, calls, excused, clientVars>>

\* reset(), then the loop again.  Mutant: run() at once.
LoopWithoutTest == Goto("io", "awake", "run")
LoopAgain == Goto("io", "awake", "test")

IoReset == /\ LoopAgain
           /\ stopped' = FALSE
           /\ UNCHANGED <<queue, req, endpoints, ioVars, calls, excused, clientVars>>

-----------------------------------------------------------------------------
(* The handlers, each run by the io thread from the head of ready          *)

Running(h) == /\ pc.io = "run" /\ ~stopped
              /\ ready # <<>> /\ Head(ready).h = h

answerVars == <<calls, excused>>
handlerFrame == <<queue, stopped, clientVars>>

\* Mutant: the error code is handed on as it is.
RawResult(e) == e
Result(e) == IF e = "aborted" THEN "timeout" ELSE "failed"
Call(r, results) == /\ calls' = [calls EXCEPT ![r] = @ \o results]
                    /\ excused' = excused \ {r}

\* What a completed resolution leaves in deviceEndpoints: the empty results
\* of a failure too.
CacheResult(e) == IF e = "ok" THEN "good" ELSE "empty"

OnResolved ==
  /\ Running("resolved")
  /\ endpoints' = CacheResult(Head(ready).e)
  /\ ready' = Tail(ready) \o TimerAbort(resolverTimer, "resolverDeadline")
  /\ resolverTimer' = Cancelled(resolverTimer)
  /\ IF Head(ready).e = "ok"
     THEN /\ Goto("io", "run", "close")
          /\ req' = [req EXCEPT !.io = Head(ready).r]
          /\ UNCHANGED answerVars
     ELSE /\ Call(Head(ready).r, <<Result(Head(ready).e)>>)
          /\ UNCHANGED threadVars
  /\ UNCHANGED <<handlerFrame, lookups, resolving, sock, socketTimer>>

\* The composed connect operation reports an abort when it finds its socket
\* closed, whatever the attempt gave; not when it had no endpoint to try.
\* Mutant: a closed socket always counts.
ClosedIsAbort(m) == IF sock.st = "closed" THEN "aborted" ELSE m.e
ConnectError(m) == IF m.e # "notFound" /\ sock.st = "closed" THEN "aborted" ELSE m.e

OnConnected ==
  LET m == Head(ready)  e == ConnectError(m)
  IN /\ Running("connected")
     /\ ready' = Tail(ready) \o TimerAbort(socketTimer, "socketDeadline")
     /\ socketTimer' = Cancelled(socketTimer)
     /\ IF e = "ok"
        THEN /\ Goto("io", "run", "write")
             /\ req' = [req EXCEPT !.io = m.r]
             /\ UNCHANGED answerVars
        ELSE /\ Call(m.r, <<Result(e)>>)
             /\ UNCHANGED threadVars
     /\ UNCHANGED <<handlerFrame, endpoints, lookups, resolving, sock, resolverTimer>>

OnResolverDeadline ==
  /\ Running("resolverDeadline")
  /\ IF resolverTimer.expired
     THEN resolving' = {} /\ ready' = Tail(ready) \o ResolverAbort
     ELSE ready' = Tail(ready) /\ UNCHANGED resolving
  /\ UNCHANGED <<handlerFrame, threadVars, endpoints, lookups, sock, resolverTimer, socketTimer, answerVars>>

OnSocketDeadline ==
  /\ Running("socketDeadline")
  /\ IF socketTimer.expired
     THEN sock' = Closed /\ ready' = Tail(ready) \o SocketAbort
     ELSE ready' = Tail(ready) /\ UNCHANGED sock
  /\ UNCHANGED <<handlerFrame, threadVars, endpoints, lookups, resolving, resolverTimer, socketTimer, answerVars>>

-----------------------------------------------------------------------------
(* HttpGet on asyncSocket, synchronously inside OnConnected                *)

exchangeFrame == <<handlerFrame, endpoints, lookups, resolving, resolverTimer, socketTimer, ready>>

\* The request is written on whatever connection the socket holds now; a
\* connection the peer has already served answers nothing more.
HttpWrite ==
  /\ pc.io = "write"
  /\ IF sock.st = "connected" /\ sock.written = NoRequest
     THEN /\ Goto("io", "write", "read")
          /\ sock' = [sock EXCEPT !.written = req.io]
          /\ UNCHANGED <<req, answerVars>>
     ELSE /\ Goto("io", "write", "run")
          /\ Call(req.io, <<"failed">>)
          /\ Release("io")
          /\ UNCHANGED sock
  /\ UNCHANGED exchangeFrame

Intact == sock.st = "connected" /\ sock.written = req.io

\* The results of an exchange: an answer, an answer whose error_code is set
\* (SUCCESS with an empty tree), an HTTP or stream error, unparsable JSON
\* (caught, FAILED).  A callable that throws is invoked again with FAILED.
Outcomes == DeviceAnswers \cup {"failed"}
Delivered(r, o) == IF o = "hollow" /\ r \in Throwing THEN <<o, "failed">> ELSE <<o>>

HttpRead ==
  /\ Goto("io", "read", "run")
  /\ \E o \in (IF Intact THEN Outcomes ELSE {"failed"}) : Call(req.io, Delivered(req.io, o))
  /\ Release("io")
  /\ UNCHANGED <<exchangeFrame, sock>>

-----------------------------------------------------------------------------
(* The network and the clock                                               *)

envFrame == <<queue, threadVars, endpoints, lookups, stopped, calls, clientVars>>

ResolverCompletes(r, e) ==
  /\ r \in resolving
  /\ resolving' = resolving \ {r}
  /\ ready' = Append(ready, Handler("resolved", r, e))
  /\ UNCHANGED <<envFrame, sock, resolverTimer, socketTimer, excused>>

ConnectCompletes(e) ==
  /\ sock.st = "connecting"
  /\ sock' = [sock EXCEPT !.st = IF e = "ok" THEN "connected" ELSE "open", !.owner = NoRequest]
  /\ ready' = Append(ready, Handler("connected", sock.owner, e))
  /\ UNCHANGED <<envFrame, resolving, resolverTimer, socketTimer, excused>>

Expired(t) == [t EXCEPT !.expired = TRUE, !.waiting = FALSE, !.for = NoRequest]

ResolverTimerExpires ==
  /\ ~resolverTimer.expired
  /\ resolverTimer' = Expired(resolverTimer)
  /\ ready' = ready \o TimerAbort(resolverTimer, "resolverDeadline")
  /\ excused' = excused \cup ({resolverTimer.for} \cap InFlight)
  /\ UNCHANGED <<envFrame, resolving, sock, socketTimer>>

SocketTimerExpires ==
  /\ ~socketTimer.expired
  /\ socketTimer' = Expired(socketTimer)
  /\ ready' = ready \o TimerAbort(socketTimer, "socketDeadline")
  /\ excused' = excused \cup ({socketTimer.for} \cap InFlight)
  /\ UNCHANGED <<envFrame, resolving, sock, resolverTimer>>

-----------------------------------------------------------------------------
(* ~R2000                                                                  *)

DtorCancel ==
  /\ MayDestroy /\ dtor = "none"
  /\ dtor' = "stop"
  /\ CancelAll
  /\ resolverTimer' = Cancelled(resolverTimer) /\ socketTimer' = Cancelled(socketTimer)
  /\ ready' = ready \o TimerAbort(resolverTimer, "resolverDeadline")
                    \o TimerAbort(socketTimer, "socketDeadline")
                    \o ResolverAbort \o SocketAbort
  /\ UNCHANGED <<queue, threadVars, endpoints, lookups, stopped, calls, submitted, cancels,
                 interruptIoServiceTask>>

DtorStop == /\ dtor = "stop" /\ dtor' = "notify"
            /\ interruptIoServiceTask' = TRUE
            /\ stopped' = TRUE
            /\ UNCHANGED <<queue, threadVars, endpoints, ioVars, calls, excused,
                           submitted, cancels>>

DtorNotify == /\ dtor = "notify" /\ dtor' = "join"
              /\ pc' = WakeIo(pc)
              /\ UNCHANGED <<queue, req, endpoints, ioVars, stopped, calls, excused,
                             submitted, cancels, interruptIoServiceTask>>

destroyFrame == <<queue, req, endpoints, ioVars, stopped, calls, excused,
                  submitted, cancels, interruptIoServiceTask>>

\* ioServiceTaskFuture.wait() returns; the last member is destroyed first, and
\* ~Worker interrupts.
DtorJoin == /\ dtor = "join" /\ pc.io = "done"
            /\ dtor' = "notifyWorker"
            /\ UNCHANGED <<destroyFrame, pc>>

DtorNotifyWorker == /\ dtor = "notifyWorker" /\ dtor' = "joinWorker"
                    /\ pc' = WakeWorker(pc)
                    /\ UNCHANGED destroyFrame

\* workingTask.wait() returns.  The requests that are still in the worker's list
\* and in the io_service go with them, unanswered.
DtorJoinWorker == /\ dtor = "joinWorker" /\ pc.worker = "done"
                  /\ dtor' = "gone"
                  /\ UNCHANGED <<destroyFrame, pc>>

-----------------------------------------------------------------------------
WorkerStep == \/ WorkerPredicate \/ WorkerBlock \/ WorkerEnds
              \/ TakeJob \/ Resolve \/ ArmResolver \/ UseCache \/ NotifyIo
              \/ SetupClose("worker") \/ SetupConnect("worker") \/ SetupArm("worker")
\* The io thread but for the wait for the device's answer.
IoStep == \/ IoTest \/ IoRunReturns \/ IoBlock \/ IoReset
          \/ OnResolved \/ OnConnected \/ OnResolverDeadline \/ OnSocketDeadline
          \/ SetupClose("io") \/ SetupConnect("io") \/ SetupArm("io") \/ HttpWrite
NetworkStep == \/ \E r \in Requests, e \in {"ok", "error"} : ResolverCompletes(r, e)
               \/ \E e \in {"ok", "error"} : ConnectCompletes(e)
ClockStep == ResolverTimerExpires \/ SocketTimerExpires
DtorEnds == DtorStop \/ DtorNotify \/ DtorJoin \/ DtorNotifyWorker \/ DtorJoinWorker
DtorStep == DtorCancel \/ DtorEnds
ClientStep == Cancel \/ \E r \in Requests : Submit(r)

Next == \/ WorkerStep \/ IoStep \/ HttpRead \/ IoSpuriousWake
        \/ WorkerSpuriousWake \/ NetworkStep \/ ClockStep \/ ClientStep \/ DtorStep

Spec == Init /\ [][Next]_vars

\* Runnable threads run and armed timers expire.  Clients owe nothing, the network
\* may stay silent, and a connected device may never answer.
Fairness == /\ WF_vars(WorkerStep) /\ WF_vars(IoStep)
            /\ WF_vars(ResolverTimerExpires) /\ WF_vars(SocketTimerExpires)
            /\ WF_vars(DtorEnds)

FairSpec == Spec /\ Fairness

-----------------------------------------------------------------------------
(* Properties                                                              *)

HandlerType == [h : {"resolved", "connected", "resolverDeadline", "socketDeadline"},
                r : Requests \cup {NoRequest},
                e : {"ok", "error", "aborted", "notFound"}]
TimerType == [expired : BOOLEAN, waiting : BOOLEAN, for : Requests \cup {NoRequest}]

\* Every variable has its type.
TypeOK ==
  /\ queue \in Seq(Requests) /\ resolving \subseteq Requests
  /\ endpoints \in {"unknown", "good", "empty"}
  /\ pc.worker \in {"idle", "block", "asleep", "done", "resolve", "armResolver", "cached", "close", "connect",
                    "arm", "notify"}
  /\ pc.io \in {"test", "run", "close", "connect", "arm", "write", "read", "block",
                "asleep", "awake", "done"}
  /\ req \in [{"worker", "io"} -> Requests \cup {NoRequest}]
  /\ sock \in [st : {"closed", "connecting", "open", "connected"},
               owner : Requests \cup {NoRequest}, written : Requests \cup {NoRequest}]
  /\ resolverTimer \in TimerType /\ socketTimer \in TimerType
  /\ ready \in Seq(HandlerType)
  /\ stopped \in BOOLEAN /\ interruptIoServiceTask \in BOOLEAN
  /\ calls \in [Requests -> Seq({"timeout"} \cup Outcomes)]
  /\ submitted \subseteq Requests /\ excused \subseteq Requests
  /\ cancels \in 0..MaxCancels /\ dtor \in {"none", "stop", "notify", "join", "notifyWorker", "joinWorker", "gone"}

Count(b) == IF b THEN 1 ELSE 0

\* In how many places an unanswered request is: the worker's queue, the hands
\* of the worker, a resolution, a connection attempt, a completed handler, the
\* hands of the io thread.
Places(r) ==
  Count(\E i \in DOMAIN queue : queue[i] = r)
  + Count(pc.worker \in {"resolve", "cached", "close", "connect"} /\ req.worker = r)
  + Count(r \in resolving)
  + Count(sock.st = "connecting" /\ sock.owner = r)
  + Cardinality({i \in DOMAIN ready : ready[i].r = r})
  + Count(pc.io \in {"close", "connect", "write", "read"} /\ req.io = r)

\* However requests abort one another, none is forgotten and none is processed
\* twice: each unanswered one is in exactly one place, an answered one nowhere.
Accounted ==
  \A r \in Requests : Places(r) = Count(r \in submitted /\ calls[r] = <<>>)

\* Requests are answered once, and in the order of submission but for those
\* that look up the endpoints, which any later request may overtake (module
\* CommandService): whoever closes whose socket on whichever thread, the
\* aborted attempt still completes before the one that aborted it.
Service == INSTANCE CommandService WITH
             Verdicts <- {"timeout"} \cup Outcomes, known <- endpoints # "unknown"
ImplementsService == Service!Spec

\* Nobody cancels the attempt in progress any more: its deadline has been
\* called off, or has struck before the attempt began.
Unguarded == /\ sock.st = "connecting"
             /\ \A t \in {"worker", "io"} : pc[t] # "arm"
             /\ ~socketTimer.waiting
             /\ ~(socketTimer.expired /\ \E i \in DOMAIN ready : ready[i].h = "socketDeadline")

\* An attempt in progress loses its deadline in one way only: the completion of
\* another attempt, which it aborted, runs after the deadline was armed and calls
\* it off.  (scheduleNextSocketConnectionDeadline's documentation knows of none:
\* the timeout is the "maximum time allowed for the socket to connect before
\* cancelling the operation".)
DeadlineIsLostToAnother ==
  [][~Unguarded /\ Unguarded' => OnConnected /\ Head(ready).r # sock.owner]_vars

\* asyncSendHttpCommand's documentation: a request is cancelled by its timeout.
\* A TIMEOUT result means that a deadline armed for the request has passed or
\* that a client cancelled it.
TimeoutIsDue ==
  [][\A r \in Requests : calls'[r] = Append(calls[r], "timeout") => r \in excused]_vars

\* Once a failed resolution has been cached and no other is under way, every
\* request submitted later fails, for as long as the object lives.
Poisoned == /\ endpoints = "empty" /\ resolving = {}
            /\ pc.worker \notin {"resolve", "armResolver"}
            /\ \A i \in DOMAIN ready : ready[i].h # "resolved"
PoisonedCacheIsFinal ==
  \A r \in Requests :
    [](Poisoned /\ r \notin submitted => [](calls[r] \in {<<>>, <<"failed">>}))

\* Nobody cancels a resolution in progress any more, as for attempts.
UnguardedLookup ==
  /\ resolving # {} /\ pc.worker # "armResolver"
  /\ ~resolverTimer.waiting
  /\ ~(resolverTimer.expired /\ \E i \in DOMAIN ready : ready[i].h = "resolverDeadline")

\* The device or the network may stay silent and nothing ends it: no deadline
\* reaches an exchange, and that of a pending operation has been lost.
Unanswered == pc.io = "read" \/ Unguarded \/ UnguardedLookup

\* A thread sleeps on a notification it missed: the io thread although handlers
\* or operations are waiting, and the worker has nothing left to notify it of; or
\* the worker although jobs are waiting.
IoStranded == /\ pc.io = "asleep" /\ ~NoWork
              /\ queue = <<>> /\ pc.worker \in {"idle", "block", "asleep"}
WorkerStranded == pc.worker = "asleep" /\ queue # <<>>

\* Every request is answered, in time or late, unless the object is destroyed or
\* the channel is held for ever, by a notification that the io thread or the worker
\* missed or by a silence that nothing ends.
AnsweredUnlessStranded ==
  \A r \in Requests :
    r \in submitted ~> \/ calls[r] # <<>> \/ dtor # "none"
                      \/ [](Unanswered \/ IoStranded \/ WorkerStranded)

\* A request stranded with the io thread is not lost for good: the next request
\* whose notification finds the io thread asleep gets it answered, long after its
\* timeout, unless the device or the network stays silent as above.
InService(r) == \/ r \in resolving
                \/ sock.st = "connecting" /\ sock.owner = r
                \/ \E i \in DOMAIN ready : ready[i].r = r
NextRequestRescues ==
  \A r \in Requests :
    (InService(r) /\ pc.worker = "notify" /\ pc.io = "asleep")
      ~> (calls[r] # <<>> \/ dtor # "none" \/ []Unanswered)

\* After ioService.stop() only the exchange in progress may still call back:
\* the handlers left in the io_service never run, even when the io thread
\* resets the service after the stop.
StopIsFinal ==
  [][(dtor \notin {"none", "stop"} /\ calls' # calls)
       => (pc.io \in {"write", "read"})]_vars

\* A destructor whose notification finds the io thread asleep does end, unless
\* the destruction of the worker, its last member, waits for ever for a thread
\* that missed the other notification.
DestructionEndsIfHeard ==
  (dtor = "notify" /\ pc.io = "asleep")
    ~> (dtor = "gone" \/ [](dtor = "joinWorker" /\ pc.worker = "asleep"))
=============================================================================
