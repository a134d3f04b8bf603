--------------------------- MODULE DataLinkBuilder ---------------------------
(***************************************************************************)
(* Links built and destroyed over one device: src/DataLink/DataLinkBuilder *)
(* .cpp, with the commands of a link's constructor and destructor, one more*)
(* client that runs any other command, the worker's list, the io thread and*)
(* the device's handles.                                                   *)
(*                                                                         *)
(* Each of the Builders builds one link, and its handle bears its name.    *)
(* The worker hands its whole list to the io thread.  The commands are     *)
(* answered as module CommandService promises: in the order of submission, *)
(* but for those that look up the device's endpoints, which any later one  *)
(* may overtake.                                                           *)
(***************************************************************************)
EXTENDS Commands, RequestBuilders

CONSTANTS
  Builders,   (* the clients that build a link                             *)
  TcpBuilders,   (* those that ask for a TCP link                          *)
  Operator,   (* the client that runs other commands                       *)
  OperatorCommands,   (* and which                                         *)
  Slots,      (* how many streams the device serves (three, Readme.md)     *)
  MaxJob,     (* the worker's maxJob                                       *)
  MaxOperations,   (* bound on the commands of the Operator                *)
  Nobody

ASSUME BuilderAssumption ==
  /\ TcpBuilders \subseteq Builders /\ Operator \notin Builders
  /\ Nobody \notin Builders \cup {Operator}
  /\ OperatorCommands \subseteq OtherCommands
  /\ Slots \in Nat /\ MaxJob \in Nat /\ MaxOperations \in Nat

VARIABLES
  complete,   (* per builder: the handle's parameters hold everything      *)
              (* constructDataLink extracts from them                      *)
  phase,      (* of each build and of the link it gave                     *)
  dropped,    (* the future of the build has been destroyed                *)
  told,       (* what the promise of each build was set to, in order       *)
  jobs,       (* the worker's list                                         *)
  pending,    (* the commands taken by the worker and not yet answered     *)
  known,      (* deviceEndpoints is set: commands taken from now on do not *)
              (* look them up                                              *)
  io,         (* the io thread: the command it completes and its answer,   *)
              (* or the builder whose link it destroys                     *)
  held,       (* the handles the device has granted                        *)
  lost,       (* history: the handles whose grant no answer told, or whose *)
              (* release was refused or never reached the device           *)
  revoked,    (* history: those the device took back by itself             *)
  cut,        (* history: links destroyed with both commands refused       *)
  operator, operations,
  crashed     (* std::terminate, or a callback into a destroyed link       *)

deviceVars == <<held, revoked>>
historyVars == <<lost, cut>>
operatorVars == <<operator, operations>>
buildVars == <<complete, phase, dropped, told>>
vars == <<buildVars, jobs, pending, known, io, deviceVars, historyVars, operatorVars, crashed>>

Job(c, command) == [client |-> c, command |-> command, lookup |-> FALSE]
IdleIo == [at |-> "idle", job |-> Job(Nobody, ""), answer |-> Answer("FAILED", {})]

Section(c) == IF c \in TcpBuilders THEN "HandleTcp" ELSE "HandleUdp"

\* The map of a handle's builder, whatever was called, in the parameters that
\* constructDataLink extracts.
HandleMaps(section) ==
  LET names == {"watchdog", "watchdogtimeout", "address", "port"}
                 \cap {ReadWrite[section][m] : m \in DOMAIN ReadWrite[section]}
      written(name) == UNION {{ValueOf(m, a) : a \in Arguments(m)} :
                                m \in {m \in DOMAIN ReadWrite[section] :
                                         ReadWrite[section][m] = name}}
      total(given) == {map \in [given -> UNION {written(name) : name \in given}] :
                         \A name \in given : map[name] \in written(name)}
  IN  UNION {total(given \cup {"watchdog"}) : given \in SUBSET names}

Init == /\ \E given \in [Builders -> HandleMaps("HandleTcp") \cup HandleMaps("HandleUdp")] :
             /\ \A c \in Builders : given[c] \in HandleMaps(Section(c))
             /\ complete = [c \in Builders |-> HandleExtracted(Section(c), given[c])]
        /\ phase = [c \in Builders |-> "idle"]
        /\ dropped = {} /\ told = [c \in Builders |-> <<>>]
        /\ jobs = <<>> /\ pending = <<>> /\ known = FALSE /\ io = IdleIo
        /\ held = {} /\ lost = {} /\ revoked = {} /\ cut = {}
        /\ operator = Told("none", {}) /\ operations = 0
        /\ crashed = FALSE

RequestOf(c) == IF c \in TcpBuilders THEN "RequestTcpHandle" ELSE "RequestUdpHandle"

Goto(c, from, to) == phase[c] = from /\ phase' = [phase EXCEPT ![c] = to]

-----------------------------------------------------------------------------
(* The device.  A command may fail before it reaches it (one it rejects    *)
(* changes as little), be executed or refused with an error code, or be    *)
(* executed while its answer is lost.                                      *)

Outcomes == {"unreached", "lost", "done"}

Accepts(job) ==
  CASE job.command \in RequestCommands -> Cardinality(held) < Slots
    [] job.command \in HandleCommands -> job.client \in held
    [] OTHER -> TRUE

Executes(job, outcome) == outcome \in {"lost", "done"} /\ Accepts(job)

ExchangeOf(job, outcome) ==
  CASE outcome = "lost" -> [Whole({}) EXCEPT !.ended = FALSE]
    [] outcome = "done" ->
         IF Accepts(job)
         THEN Whole(InfoFields \cup {"port", "handle", "parameters"} \cup Parameters)
         ELSE [Whole({}) EXCEPT !.body = "refused"]

AnswerTo(job, outcome) ==
  IF outcome = "unreached" THEN Failure("TIMEOUT")
                           ELSE Asynchronously(ExchangeOf(job, outcome))

\* A reboot forgets every handle.
Serve(job, outcome) ==
  IF Executes(job, outcome)
  THEN CASE job.command \in RequestCommands ->
              held' = held \cup {job.client} /\ UNCHANGED revoked
         [] job.command = "ReleaseHandle" -> held' = held \ {job.client} /\ UNCHANGED revoked
         [] job.command = "RebootDevice" -> held' = {} /\ revoked' = revoked \cup held
         [] OTHER -> UNCHANGED deviceVars
  ELSE UNCHANGED deviceVars

\* The host forgets a handle it holds, or is told nothing of.
Loses(job, outcome) ==
  \/ job.command \in RequestCommands /\ outcome = "lost" /\ Accepts(job)
  \/ job.command = "ReleaseHandle" /\ ~Executes(job, outcome) /\ job.client \in held

\* The device's watchdog, or its operator, takes a handle back.
Revoke(c) == /\ ~crashed /\ c \in held
             /\ held' = held \ {c} /\ revoked' = revoked \cup {c}
             /\ UNCHANGED <<buildVars, jobs, pending, known, io, historyVars, operatorVars, crashed>>

-----------------------------------------------------------------------------
(* Submission: Worker::pushJob, and the batches the worker hands over      *)

Full == Len(jobs) > MaxJob

\* pushJob tests the length, then appends, and locks nobody out: a caller whose
\* test has passed may find the list longer by what the others have appended
\* since.  (What such a race does to the list itself is in module Worker.)
MayAppend(c) == \A i \in DOMAIN jobs : i > MaxJob => jobs[i].client # c

Refused == Full /\ UNCHANGED jobs
Accepted(job) == MayAppend(job.client) /\ jobs' = Append(jobs, job)

Push(job) == Refused \/ Accepted(job)

\* Of the list the worker hands over, the first k look up the endpoints: all
\* but those it gets to after a lookup has ended.
HandedOver(k) ==
  pending \o [i \in DOMAIN jobs |-> [jobs[i] EXCEPT !.lookup = (i <= k)]]

WorkerTakes ==
  /\ ~crashed /\ jobs # <<>> /\ jobs' = <<>>
  /\ \E k \in IF known THEN {0} ELSE 1..Len(jobs) :
       pending' = HandedOver(k) /\ known' = (known \/ k < Len(jobs))
  /\ UNCHANGED <<buildVars, io, deviceVars, historyVars, operatorVars, crashed>>

LookupEnds ==
  /\ ~crashed /\ ~known /\ known' = TRUE
  /\ \E i \in DOMAIN pending : pending[i].lookup
  /\ UNCHANGED <<buildVars, jobs, pending, io, deviceVars, historyVars, operatorVars, crashed>>

-----------------------------------------------------------------------------
(* constructDataLink                                                       *)

\* The link's constructor submits StartScan and waits for nothing.
ConstructLink(c, from) == Goto(c, from, "linked") /\ Push(Job(c, "StartScanOutput"))

\* On the caller's thread; the request has no timeout.  What is not SUCCESS, or
\* throws, gives no link.
AnswerNow(job, outcome) ==
  IF outcome = "unreached" THEN Synchronously(FALSE, Whole({}))
                           ELSE Synchronously(TRUE, ExchangeOf(job, outcome))

BuildNow(c, outcome) ==
  /\ ~crashed /\ complete[c]
  /\ LET job == Job(c, RequestOf(c))
     IN  /\ Serve(job, outcome)
         /\ lost' = IF Loses(job, outcome) THEN lost \cup {c} ELSE lost
         /\ IF CompletedNow(job.command, AnswerNow(job, outcome)).result = "SUCCESS"
            THEN ConstructLink(c, "idle")
            ELSE Goto(c, "idle", "failed") /\ UNCHANGED jobs
  /\ UNCHANGED <<complete, dropped, told, pending, known, io, cut, operatorVars, crashed>>

\* extractWatchdogParameters or extractUdpDataLinkParameters throws: the
\* synchronous form lets the exception out, the asynchronous one is noexcept.
BuildThrows(c) ==
  /\ ~crashed /\ ~complete[c]
  /\ Goto(c, "idle", "failed") /\ crashed' \in BOOLEAN
  /\ UNCHANGED <<complete, dropped, told, jobs, pending, known, io, deviceVars, historyVars,
                 operatorVars>>

BuildLater(c) ==
  /\ ~crashed /\ complete[c]
  /\ \/ /\ Refused /\ Goto(c, "idle", "failed")
        /\ told' = [told EXCEPT ![c] = Append(@, Told("FAILED", {}))]
     \/ Accepted(Job(c, RequestOf(c))) /\ Goto(c, "idle", "building") /\ UNCHANGED told
  /\ UNCHANGED <<complete, dropped, pending, known, io, deviceVars, historyVars, operatorVars,
                 crashed>>

\* The client destroys the future.  The promise lives in the callback.
Drop(c) == /\ ~crashed /\ phase[c] = "building" /\ c \notin dropped
           /\ dropped' = dropped \cup {c}
           /\ UNCHANGED <<complete, phase, told, jobs, pending, known, io, deviceVars, historyVars,
                          operatorVars, crashed>>

-----------------------------------------------------------------------------
(* The io thread                                                           *)

\* Mutant: any command may overtake any other.
AnyTurn == DOMAIN pending
Turns == {i \in DOMAIN pending : \A k \in 1..(i - 1) : pending[k].lookup}

IoTakes(outcome) ==
  /\ ~crashed /\ io.at = "idle"
  /\ \E i \in Turns :
       LET job == pending[i]
       IN  /\ Serve(job, outcome)
           /\ lost' = IF Loses(job, outcome) THEN lost \cup {job.client} ELSE lost
           /\ io' = [at |-> "answering", job |-> job, answer |-> AnswerTo(job, outcome)]
           /\ pending' = RemoveAt(pending, i)
           /\ known' = TRUE
  /\ UNCHANGED <<buildVars, jobs, cut, operatorVars, crashed>>

Completes(command) == ~crashed /\ io.at = "answering" /\ io.job.command = command

\* The callback of constructDataLink.  When the future is gone the callback
\* holds the last reference to the promise, and its destruction destroys the
\* link that has just been made, on the thread that runs the callback.
BuildAnswered ==
  /\ \E request \in RequestCommands : Completes(request)
  /\ LET c == io.job.client
         results == Delivered(io.job.command, io.answer)
     IN  /\ told' = [told EXCEPT ![c] = @ \o results]
         /\ IF results[Len(results)].result = "SUCCESS"
            THEN /\ ConstructLink(c, "building")
                 /\ io' = IF c \in dropped THEN [IdleIo EXCEPT !.at = "destroying", !.job = io.job]
                                         ELSE IdleIo
            ELSE Goto(c, "building", "failed") /\ io' = IdleIo /\ UNCHANGED jobs
  /\ UNCHANGED <<complete, dropped, pending, known, deviceVars, historyVars, operatorVars, crashed>>

\* The callback of the link's constructor uses the link.
StartAnswered ==
  /\ Completes("StartScanOutput")
  /\ crashed' = (phase[io.job.client] = "closed") /\ io' = IdleIo
  /\ UNCHANGED <<buildVars, jobs, pending, known, deviceVars, historyVars, operatorVars>>

\* ~DataLink gets the futures of its two commands.
StopAnswered ==
  /\ Completes("StopScanOutput")
  /\ Goto(io.job.client, "stopping", "stopped") /\ io' = IdleIo
  /\ UNCHANGED <<complete, dropped, told, jobs, pending, known, deviceVars, historyVars,
                 operatorVars, crashed>>

ReleaseAnswered ==
  /\ Completes("ReleaseHandle")
  /\ Goto(io.job.client, "releasing", "closed") /\ io' = IdleIo
  /\ UNCHANGED <<complete, dropped, told, jobs, pending, known, deviceVars, historyVars,
                 operatorVars, crashed>>

OperatorAnswered ==
  /\ \E command \in OtherCommands : Completes(command)
  /\ LET results == Delivered(io.job.command, io.answer)
     IN  operator' = results[Len(results)]
  /\ io' = IdleIo
  /\ UNCHANGED <<buildVars, jobs, pending, known, deviceVars, historyVars, operations, crashed>>

-----------------------------------------------------------------------------
(* ~DataLink, on a client's thread or on the io thread.  A refused command *)
(* is not waited for.                                                      *)

\* Mutant: the answer is waited for even when StopScan was refused.
WaitAnyway == "stopping"
AfterRefusal == "unstopped"

DestroyLink(c) ==
  /\ ~crashed
  /\ \/ Refused /\ Goto(c, "linked", AfterRefusal)
     \/ Accepted(Job(c, "StopScanOutput")) /\ Goto(c, "linked", "stopping")
  /\ UNCHANGED <<complete, dropped, told, pending, known, io, deviceVars, historyVars, operatorVars,
                 crashed>>

\* Mutant: the handle of a stream that did not stop is not released.
OnlyIfStopped(c) == Full \/ phase[c] = "unstopped"
Unreleased(c) == Full

Abandon(c) ==
  /\ Unreleased(c) /\ UNCHANGED jobs
  /\ phase' = [phase EXCEPT ![c] = "closed"]
  /\ lost' = IF Full /\ c \in held THEN lost \cup {c} ELSE lost
  /\ cut' = IF phase[c] = "unstopped" THEN cut \cup {c} ELSE cut
  /\ io' = IF io.at = "destroying" /\ io.job.client = c THEN IdleIo ELSE io

AskRelease(c) ==
  /\ Accepted(Job(c, "ReleaseHandle"))
  /\ phase' = [phase EXCEPT ![c] = "releasing"] /\ UNCHANGED <<io, historyVars>>

Release(c) ==
  /\ ~crashed /\ phase[c] \in {"stopped", "unstopped"}
  /\ Abandon(c) \/ AskRelease(c)
  /\ UNCHANGED <<complete, dropped, told, pending, known, deviceVars, operatorVars, crashed>>

-----------------------------------------------------------------------------
(* The other commands, synchronous or with a callback (which is also what  *)
(* sets the promise of the forms that return a future)                     *)

OperateNow(command, outcome) ==
  /\ ~crashed /\ operations < MaxOperations /\ command \in Synchronous
  /\ Serve(Job(Operator, command), outcome)
  /\ operator' = CompletedNow(command, AnswerNow(Job(Operator, command), outcome))
  /\ operations' = operations + 1
  /\ UNCHANGED <<buildVars, jobs, pending, known, io, historyVars, crashed>>

Operate(command) ==
  /\ ~crashed /\ operations < MaxOperations
  /\ \/ Refused /\ operator' = Told("refused", {})
     \/ Accepted(Job(Operator, command)) /\ UNCHANGED operator
  /\ operations' = operations + 1
  /\ UNCHANGED <<buildVars, pending, known, io, deviceVars, historyVars, crashed>>

BuilderStep(c) == \/ \E outcome \in Outcomes : BuildNow(c, outcome)
                  \/ BuildThrows(c) \/ BuildLater(c) \/ Drop(c)
                  \/ DestroyLink(c) \/ Release(c) \/ Revoke(c)

Callback == \/ BuildAnswered \/ StartAnswered \/ StopAnswered \/ ReleaseAnswered
            \/ OperatorAnswered

IoStep == Callback \/ \E outcome \in Outcomes : IoTakes(outcome)

OperatorStep == \E command \in OperatorCommands :
                  \/ Operate(command)
                  \/ \E outcome \in Outcomes : OperateNow(command, outcome)

Next == (\E c \in Builders : BuilderStep(c)) \/ WorkerTakes \/ LookupEnds \/ IoStep \/ OperatorStep

Spec == Init /\ [][Next]_vars

\* A callback that has begun ends, and a destructor goes on.  The worker may
\* never take what is in its list and the io thread never end an exchange
\* (module CommandChannel says when).
FairSpec == Spec /\ WF_vars(Callback) /\ \A c \in Builders : WF_vars(Release(c))

\* The worker misses no notification, and every exchange ends.
AnsweredSpec == FairSpec /\ WF_vars(WorkerTakes) /\ WF_vars(IoStep)

-----------------------------------------------------------------------------
(* Properties                                                              *)

\* Every variable has its type; the promise of a build is set at most once (a
\* second set_value throws on the io thread), even when the extraction of the
\* handle throws and the callback runs again; what the list has beyond MaxJob is
\* one job at most of each client.
TypeOK ==
  /\ complete \in [Builders -> BOOLEAN] /\ crashed \in BOOLEAN
  /\ phase \in [Builders -> {"idle", "building", "linked", "failed", "stopping", "stopped",
                             "unstopped", "releasing", "closed"}]
  /\ dropped \cup held \cup revoked \cup lost \cup cut \subseteq Builders
  /\ \A c \in Builders : Len(told[c]) <= 1
  /\ \A i, j \in DOMAIN jobs :
       MaxJob < i /\ i < j => jobs[i].client # jobs[j].client
  /\ \A job \in {(jobs \o pending)[i] : i \in 1..(Len(jobs) + Len(pending))} :
       job.client \in Builders \cup {Operator} /\ job.command \in CommandNames
  /\ io.at \in {"idle", "answering", "destroying"} /\ io.answer.result \in Results
  /\ operator.result \in Results \cup {"none", "refused", "exception"}
  /\ operator.version \in Versions /\ operations \in 0..MaxOperations

\* No handle is forgotten.  One the device holds belongs to a link or to the
\* answer being delivered, unless the answer that granted it was lost or its
\* release never reached the device; and a link's handle is one the device
\* granted, which only the device itself takes back.
HandlesAccounted ==
  /\ \A c \in held :
       \/ c \in lost
       \/ phase[c] \in {"linked", "stopping", "stopped", "unstopped", "releasing"}
       \/ phase[c] = "building" /\ io.at = "answering" /\ io.job.client = c
  /\ \A c \in Builders : phase[c] = "linked" => c \in held \cup revoked

Queued(job) == \/ \E i \in 1..Len(jobs) : jobs[i] = job
               \/ \E i \in 1..Len(pending) : pending[i] = job
               \/ io.at = "answering" /\ io.job = job

\* The callback of StartScan captures the link by reference.  It never runs
\* after the link's destruction, because the destructor waits for a command
\* submitted later: unless the worker refused both of the destructor's commands,
\* or StartScan was still looking up the endpoints and was overtaken.
StartFindsItsLink ==
  \A c \in Builders :
    phase[c] = "closed" /\ Queued(Job(c, "StartScanOutput")) => c \in cut

\* A client waits for an answer (Awaits) only as long as its command is in the
\* worker's list, or taken and not answered.
Awaits(c) == phase[c] \in {"building", "stopping", "stopped", "unstopped", "releasing"}

Unanswered(c) ==
  LET command == CASE phase[c] = "building" -> RequestOf(c)
                   [] phase[c] = "stopping" -> "StopScanOutput"
                   [] OTHER -> "ReleaseHandle"
  IN  \E i \in 1..(Len(jobs) + Len(pending)) :
        (jobs \o pending)[i].client = c /\ (jobs \o pending)[i].command = command

\* A build that was accepted gives its future a value, and a destructor that
\* has begun ends, unless the very command it waits for is never answered (by a
\* worker that missed its notification, a silent exchange) or the io thread
\* destroys a link.
CallsEnd ==
  \A c \in Builders :
    <>[](Awaits(c) /\ ~crashed) => <>[](Unanswered(c) \/ io.at = "destroying")

\* ~DataLink's documentation: "then instruct the device to stop and release the
\* stream of data".
StreamIsReleased ==
  \A c \in Builders :
    (phase[c] = "stopping") ~> (phase[c] = "closed" \/ crashed)
=============================================================================
