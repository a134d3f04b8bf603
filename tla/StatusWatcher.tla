---------------------------- MODULE StatusWatcher ----------------------------
(***************************************************************************)
(* The polling task of src/StatusWatcher.cpp, the registration of          *)
(* callbacks in include/StatusWatcher.hpp and the destructor.              *)
(*                                                                         *)
(* A listener stands for a client that registers a disconnected callback,  *)
(* then a connected callback, and keeps in view what they last told it;    *)
(* it may also register a status callback.  The two connection lists are   *)
(* really locked; the status list is not: its registration adopts the      *)
(* mutex, and a push_back during the task's iteration may crash.           *)
(***************************************************************************)
EXTENDS Integers, FiniteSets

CONSTANTS
  Listeners,
  Thresholds,     (* arguments of setDisconnectionTriggerThreshold         *)
  DefaultThreshold,
  HitBits,        (* width of disconnectionHitCount (32 in the source)     *)
  ThresholdBits,  (* width of disconnectionTriggerThreshold (64)           *)
  MaxFlips        (* bound on the device's changes of reachability         *)

ASSUME WatcherAssumption ==
  /\ Thresholds \subseteq Int /\ DefaultThreshold \in 0..(2 ^ ThresholdBits - 1)
  /\ ThresholdBits \in Nat /\ HitBits \in Nat /\ MaxFlips \in Nat

\* Powers of two are numbers, and the counter is not the wider of the two.
ASSUME CounterAssumption == /\ {2 ^ HitBits, 2 ^ ThresholdBits} \subseteq Nat \ {0}
                            /\ 2 ^ HitBits <= 2 ^ ThresholdBits

VARIABLES
  task,         (* where the task is                                       *)
  answer,       (* the answer being treated: TRUE is SUCCESS               *)
  hits,         (* disconnectionHitCount                                   *)
  limit,        (* the threshold loaded for this answer                    *)
  threshold,    (* disconnectionTriggerThreshold                           *)
  isConnected,
  told,         (* listeners in the connected list                         *)
  warned,       (* listeners in the disconnected list                      *)
  statusList,   (* listeners in the status list                            *)
  adding,       (* listeners pushing into the status list                  *)
  informed,     (* listeners whose status callback has run                 *)
  client,       (* where each listener's registration is                   *)
  view,         (* what each listener was last told: TRUE is connected     *)
  late,         (* listeners whose registration overlapped a change        *)
  failures,     (* history: failed answers since the last success, capped  *)
  interruptFlag, dtor, reachable, flips, crashed

taskVars == <<task, answer, hits, limit, isConnected, failures>>
listVars == <<told, warned, statusList, adding>>
clientVars == <<client, late>>
envVars == <<reachable, flips>>
vars == <<taskVars, threshold, listVars, informed, clientVars, view,
          interruptFlag, dtor, envVars, crashed>>

\* The task holds both connection locks between Lock and Unlock.
Locked == task \in {"treat", "publish", "status", "connect", "fire", "unlock"}

\* Counts in the history need only be compared with thresholds in use.
Cap == 2 ^ ThresholdBits

Init == /\ task = "test" /\ answer = FALSE /\ hits = 0 /\ limit = 0
        /\ threshold = DefaultThreshold
        /\ isConnected = FALSE
        /\ told = {} /\ warned = {} /\ statusList = {} /\ adding = {} /\ informed = {}
        /\ client = [l \in Listeners |-> "out"]
        /\ view = [l \in Listeners |-> FALSE]
        /\ late = {} /\ failures = 0
        /\ interruptFlag = FALSE /\ dtor = "none"
        /\ reachable \in BOOLEAN /\ flips = 0 /\ crashed = FALSE

-----------------------------------------------------------------------------
(* statusWatcherTask                                                       *)

Goto(from, to) == ~crashed /\ task = from /\ task' = to
taskFrame == <<threshold, listVars, clientVars, interruptFlag, dtor, envVars>>

\* The loop's condition.  Mutant: it is not tested.
ProceedAnyway == "ask"
Proceed == IF interruptFlag THEN "done" ELSE "ask"

Test == /\ Goto("test", Proceed)
        /\ UNCHANGED <<taskFrame, answer, hits, limit, isConnected, failures, view,
                       informed, crashed>>

\* asyncExecute gives a future, or none when the device is busy.
Ask == /\ Goto("ask", "await") \/ Goto("ask", "sleep")
       /\ UNCHANGED <<taskFrame, answer, hits, limit, isConnected, failures, view,
                      informed, crashed>>

\* future->get(): the answer may come late or, as a request may be stranded and
\* an exchange has no deadline, never; the threshold is read once per answer.
Answer == /\ Goto("await", "lock")
          /\ answer' = reachable
          /\ limit' = threshold
          /\ failures' = IF reachable THEN 0
                         ELSE IF failures < Cap THEN failures + 1 ELSE failures
          /\ UNCHANGED <<taskFrame, hits, isConnected, view, informed, crashed>>

\* A registration holds a connection lock while it pushes its callback.
Lock == /\ Goto("lock", "treat")
        /\ UNCHANGED <<taskFrame, answer, hits, limit, isConnected, failures, view,
                       informed, crashed>>

\* Consecutive failures are counted.  Mutant: a success does not restart them.
CountAll == hits' = IF answer THEN hits ELSE (hits + 1) % 2 ^ HitBits
Count == hits' = IF answer THEN 0 ELSE (hits + 1) % 2 ^ HitBits

\* Mutant: the event needs one failure more.
AboveLimit(h) == h > limit
AtLimit(h) == h >= limit

\* A failure below the threshold changes nothing; at the threshold it
\* disconnects, whether or not the device was connected.
Treat == /\ Count
         /\ IF answer THEN Goto("treat", "publish") /\ UNCHANGED isConnected
            ELSE IF AtLimit(hits')
            THEN /\ Goto("treat", IF isConnected THEN "fire" ELSE "unlock")
                 /\ isConnected' = FALSE
            ELSE Goto("treat", "unlock") /\ UNCHANGED isConnected
         /\ late' = late \cup IF isConnected' # isConnected
                              THEN {l \in Listeners : client[l] \notin {"out", "in"}} ELSE {}
         /\ UNCHANGED <<threshold, listVars, client, interruptFlag, dtor, envVars, answer,
                        limit, failures, view, informed, crashed>>

\* The status is stored, then the status callbacks are called in turn.
Publish == /\ Goto("publish", "status")
           /\ UNCHANGED <<taskFrame, answer, hits, limit, isConnected, failures, view,
                          informed, crashed>>

EndPublish == /\ Goto("status", "connect")
              /\ informed' = informed \cup statusList
              /\ UNCHANGED <<taskFrame, answer, hits, limit, isConnected, failures, view,
                             crashed>>

Connect == /\ Goto("connect", IF isConnected THEN "unlock" ELSE "fire")
           /\ isConnected' = TRUE
           /\ late' = late \cup IF isConnected THEN {}
                                ELSE {l \in Listeners : client[l] \notin {"out", "in"}}
           /\ UNCHANGED <<threshold, listVars, client, interruptFlag, dtor, envVars, answer,
                          hits, limit, failures, view, informed, crashed>>

\* Whom an event reaches.
Audience == IF isConnected THEN told ELSE warned

Fire == /\ Goto("fire", "unlock")
        /\ view' = [l \in Listeners |-> IF l \in Audience THEN isConnected ELSE view[l]]
        /\ UNCHANGED <<taskFrame, answer, hits, limit, isConnected, failures, informed, crashed>>

Unlock == /\ Goto("unlock", "sleep")
          /\ UNCHANGED <<taskFrame, answer, hits, limit, isConnected, failures, view,
                         informed, crashed>>

\* wait_for with a predicate under a lock really taken: the period elapses or
\* the destructor interrupts.  Mutant: the task leaves the loop by itself.
GiveUp == Goto("sleep", "done")
Again == Goto("sleep", "test")

Wake == /\ Again
        /\ UNCHANGED <<taskFrame, answer, hits, limit, isConnected, failures, view,
                       informed, crashed>>

-----------------------------------------------------------------------------
(* Registration, and the threshold                                         *)

ClientAt(l, from, to) == /\ ~crashed /\ dtor = "none" /\ client[l] = from
                         /\ client' = [client EXCEPT ![l] = to]
clientFrame == <<taskVars, threshold, informed, interruptFlag, dtor, envVars>>

\* addOnDeviceDisconnectedCallback
AddDisconnected(l) == /\ ClientAt(l, "out", "warned")
                      /\ ~Locked
                      /\ warned' = warned \cup {l}
                      /\ UNCHANGED <<clientFrame, told, statusList, adding, view, late, crashed>>

\* addOnDeviceConnectedCallback: the test, the immediate call, the push.
\* Mutant: there is no immediate call.
NeverAtOnce == "push"
AtOnce == IF isConnected THEN "call" ELSE "push"

TestConnected(l) == /\ ClientAt(l, "warned", AtOnce)
                    /\ UNCHANGED <<clientFrame, listVars, view, late, crashed>>

CallAtOnce(l) == /\ ClientAt(l, "call", "push")
                 /\ view' = [view EXCEPT ![l] = TRUE]
                 /\ UNCHANGED <<clientFrame, listVars, late, crashed>>

AddConnected(l) == /\ ClientAt(l, "push", "in")
                   /\ ~Locked
                   /\ told' = told \cup {l}
                   /\ UNCHANGED <<clientFrame, warned, statusList, adding, view, late, crashed>>

\* addOnStatusAvailableCallback locks nothing: two pushes at once, or a push
\* during the iteration, are a data race, which may end the program.
Races(l) == adding \ {l} # {} \/ task = "status"

BeginAddStatus(l) == /\ ~crashed /\ dtor = "none" /\ l \notin statusList \cup adding
                     /\ adding' = adding \cup {l}
                     /\ crashed' \in IF Races(l) THEN BOOLEAN ELSE {FALSE}
                     /\ UNCHANGED <<clientFrame, told, warned, statusList, view, clientVars>>

EndAddStatus(l) == /\ ~crashed /\ l \in adding
                   /\ adding' = adding \ {l}
                   /\ statusList' = statusList \cup {l}
                   /\ crashed' \in IF Races(l) THEN BOOLEAN ELSE {FALSE}
                   /\ UNCHANGED <<clientFrame, told, warned, view, clientVars>>

\* A signed threshold is stored in an unsigned variable.  Mutant: it is kept.
StoredSigned(n) == n
Stored(n) == n % 2 ^ ThresholdBits

SetThreshold(n) == /\ ~crashed /\ dtor = "none"
                   /\ threshold' = Stored(n)
                   /\ UNCHANGED <<taskVars, listVars, informed, clientVars, view,
                                  interruptFlag, dtor, envVars, crashed>>

-----------------------------------------------------------------------------
(* ~StatusWatcher, and the device                                          *)

Interrupt == /\ ~crashed /\ dtor = "none"
             /\ \A l \in Listeners : client[l] \in {"out", "in"}
             /\ adding = {}
             /\ dtor' = "join" /\ interruptFlag' = TRUE
             /\ UNCHANGED <<taskVars, threshold, listVars, informed, clientVars, view,
                            envVars, crashed>>

Join == /\ ~crashed /\ dtor = "join" /\ task = "done" /\ dtor' = "gone"
        /\ UNCHANGED <<taskVars, threshold, listVars, informed, clientVars, view,
                       interruptFlag, envVars, crashed>>

Flip == /\ flips < MaxFlips /\ flips' = flips + 1
        /\ reachable' = ~reachable
        /\ UNCHANGED <<taskVars, threshold, listVars, informed, clientVars, view,
                       interruptFlag, dtor, crashed>>

-----------------------------------------------------------------------------
TaskStep == \/ Test \/ Ask \/ Lock \/ Treat \/ Publish \/ EndPublish
            \/ Connect \/ Fire \/ Unlock \/ Wake
Registration(l) == TestConnected(l) \/ CallAtOnce(l) \/ AddConnected(l)

Next == \/ TaskStep \/ Answer
        \/ \E l \in Listeners : AddDisconnected(l) \/ Registration(l)
                                   \/ BeginAddStatus(l) \/ EndAddStatus(l)
        \/ \E n \in Thresholds : SetThreshold(n)
        \/ Interrupt \/ Join \/ Flip

Spec == Init /\ [][Next]_vars

\* The task's thread runs and the device is not busy for ever.  Nothing is assumed
\* of the answers.
FairSpec == /\ Spec
            /\ WF_vars(TaskStep) /\ SF_vars(Goto("ask", "await") /\ Ask)
            /\ WF_vars(Join)

-----------------------------------------------------------------------------
(* Properties                                                              *)

\* Every variable has its type.
TypeOK == /\ task \in {"test", "ask", "await", "lock", "treat", "publish", "status",
                       "connect", "fire", "unlock", "sleep", "done"}
          /\ hits \in 0..(2 ^ HitBits - 1)
          /\ {limit, threshold} \subseteq 0..(2 ^ ThresholdBits - 1)
          /\ {answer, isConnected, interruptFlag, reachable, crashed} \subseteq BOOLEAN
          /\ told \cup warned \cup statusList \cup adding \cup informed \cup late \subseteq Listeners
          /\ client \in [Listeners -> {"out", "warned", "call", "push", "in"}]
          /\ view \in [Listeners -> BOOLEAN]
          /\ failures \in 0..Cap /\ flips \in 0..MaxFlips
          /\ dtor \in {"none", "join", "gone"}

\* The connection is declared lost only on the answer that makes the number of
\* consecutive failed requests reach the threshold in force, never earlier:
\* busy periods do not count, and a success in between starts the count again.
DisconnectionIsEarned == [][isConnected /\ ~isConnected' => failures >= limit]_vars

\* Nor later: as long as the device counts as connected, the failures since
\* the last success stay below the threshold they were compared with, until
\* there are so many that the counter has gone round.
ConnectionIsEarned ==
  task \in {"unlock", "sleep"} /\ isConnected /\ failures \in 1..(2 ^ HitBits - 1)
  => failures < limit

\* addOnDeviceConnectedCallback's documentation: "If the device is already
\* connected, the callback will be immediately executed."  A listener whose
\* registration no change of connection overlapped knows the state of the
\* connection whenever the task is not about to tell it; one that registers
\* while it changes may never be told.
PunctualListenerInSync ==
  \A l \in Listeners \ late :
    client[l] = "in" /\ task # "fire" => view[l] = isConnected

\* The task waits for an answer, which nothing guarantees: module CommandChannel
\* has the requests that are never answered.
Awaiting == task = "await"

\* Unless the task waits for ever for an answer, a device that stays unreachable
\* is declared disconnected for good, provided the threshold can be reached by the
\* width of the counter; one that stays reachable is declared connected for good,
\* and every listener of the status receives it.
ChangesAreDetected ==
  /\ <>[](~reachable /\ threshold < 2 ^ HitBits /\ dtor = "none" /\ ~crashed)
       => <>[]~isConnected \/ <>[]Awaiting
  /\ <>[](reachable /\ dtor = "none" /\ ~crashed)
       => <>[](isConnected /\ statusList \subseteq informed) \/ <>[]Awaiting

\* The destructor ends, whatever the task was doing, unless it waits for ever for
\* an answer: future->get() has no timeout and the interruption does not end it.
DestructionEnds == (dtor = "join") ~> (dtor = "gone" \/ crashed \/ []Awaiting)
=============================================================================
