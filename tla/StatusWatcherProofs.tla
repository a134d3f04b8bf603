------------------------ MODULE StatusWatcherProofs ------------------------
(***************************************************************************)
(* Proofs about StatusWatcher, for every set of listeners, every threshold *)
(* and every width of the counters, provided that failures are not counted *)
(* in more bits than the threshold has.                                    *)
(***************************************************************************)
EXTENDS StatusWatcher, TLAPS

\* What every step of the system is, one disjunct per action.
LEMMA StepCases ==
  ASSUME [Next]_vars
  PROVE  \/ Test \/ Ask \/ Answer \/ Lock \/ Treat \/ Publish \/ EndPublish
         \/ Connect \/ Fire \/ Unlock \/ Wake
         \/ \E l \in Listeners : AddDisconnected(l)
         \/ \E l \in Listeners : TestConnected(l)
         \/ \E l \in Listeners : CallAtOnce(l)
         \/ \E l \in Listeners : AddConnected(l)
         \/ \E l \in Listeners : BeginAddStatus(l)
         \/ \E l \in Listeners : EndAddStatus(l)
         \/ \E n \in Thresholds : SetThreshold(n)
         \/ Interrupt \/ Join \/ Flip
         \/ UNCHANGED vars
  BY DEF Next, TaskStep, Registration

\* Type correctness: the task, the registrations, the threshold and the
\* destructor keep every variable in its type; the counters stay in their width.
THEOREM TypeCorrect == Spec => []TypeOK
<1>1. Init => TypeOK
  <2> SUFFICES ASSUME Init PROVE TypeOK
    OBVIOUS
  <2>1. /\ hits \in 0..(2 ^ HitBits - 1)
        /\ limit \in 0..(2 ^ ThresholdBits - 1) /\ threshold \in 0..(2 ^ ThresholdBits - 1)
        /\ failures \in 0..Cap /\ flips \in 0..MaxFlips
    BY WatcherAssumption, CounterAssumption DEF Init, Cap
  <2>2. /\ client \in [Listeners -> {"out", "warned", "call", "push", "in"}]
        /\ view \in [Listeners -> BOOLEAN]
    BY DEF Init
  <2> QED
    BY <2>1, <2>2 DEF Init, TypeOK
<1>2. TypeOK /\ [Next]_vars => TypeOK'
  <2> SUFFICES ASSUME TypeOK, [Next]_vars PROVE TypeOK'
    OBVIOUS
  <2> USE DEF TypeOK
  <2>1. CASE Test \/ Ask \/ Lock \/ Publish \/ Unlock \/ Wake
    BY <2>1 DEF Test, Ask, Lock, Publish, Unlock, Wake, Again, Goto, Proceed, taskFrame,
                listVars, clientVars, envVars
  <2>2. CASE Answer
    <3>1. failures' \in 0..Cap
      BY <2>2, CounterAssumption DEF Answer, Cap
    <3> QED
      BY <2>2, <3>1 DEF Answer, Goto, taskFrame, listVars, clientVars, envVars
  <2>3. CASE Treat
    <3>1. hits' \in 0..(2 ^ HitBits - 1)
      BY <2>3, CounterAssumption DEF Treat, Count
    <3> QED
      BY <2>3, <3>1 DEF Treat, Goto, listVars, envVars
  <2>4. CASE EndPublish \/ Connect
    BY <2>4 DEF EndPublish, Connect, Goto, taskFrame, listVars, clientVars, envVars
  <2>5. CASE Fire
    <3>1. view' \in [Listeners -> BOOLEAN]
      BY <2>5 DEF Fire
    <3> QED
      BY <2>5, <3>1 DEF Fire, Goto, taskFrame, listVars, clientVars, envVars
  <2>6. CASE \/ \E l \in Listeners : AddDisconnected(l)
             \/ \E l \in Listeners : TestConnected(l)
             \/ \E l \in Listeners : CallAtOnce(l)
             \/ \E l \in Listeners : AddConnected(l)
    <3> USE DEF ClientAt, clientFrame, taskVars, listVars, envVars
    <3>1. CASE \E l \in Listeners : AddDisconnected(l)
      BY <3>1 DEF AddDisconnected
    <3>2. CASE \E l \in Listeners : TestConnected(l)
      <4>1. AtOnce \in {"call", "push"}
        BY DEF AtOnce
      <4>2. client' \in [Listeners -> {"out", "warned", "call", "push", "in"}]
        BY <3>2, <4>1 DEF TestConnected
      <4> QED
        BY <3>2, <4>2 DEF TestConnected
    <3>3. CASE \E l \in Listeners : CallAtOnce(l)
      BY <3>3 DEF CallAtOnce, AtOnce
    <3>4. CASE \E l \in Listeners : AddConnected(l)
      BY <3>4 DEF AddConnected
    <3> QED
      BY <2>6, <3>1, <3>2, <3>3, <3>4
  <2>7. CASE \/ \E l \in Listeners : BeginAddStatus(l)
             \/ \E l \in Listeners : EndAddStatus(l)
    BY <2>7 DEF BeginAddStatus, EndAddStatus, Races, clientFrame, taskVars, clientVars, envVars
  <2>8. CASE \E n \in Thresholds : SetThreshold(n)
    <3>1. threshold' \in 0..(2 ^ ThresholdBits - 1)
      BY <2>8, WatcherAssumption, CounterAssumption DEF SetThreshold, Stored
    <3> QED
      BY <2>8, <3>1 DEF SetThreshold, taskVars, listVars, clientVars, envVars
  <2>9. CASE Interrupt \/ Join
    BY <2>9 DEF Interrupt, Join, taskVars, listVars, clientVars, envVars
  <2>10. CASE Flip
    BY <2>10, WatcherAssumption DEF Flip, taskVars, listVars, clientVars
  <2>11. CASE UNCHANGED vars
    BY <2>11 DEF vars, taskVars, listVars, clientVars, envVars
  <2> QED
    BY StepCases, <2>1, <2>2, <2>3, <2>4, <2>5, <2>6, <2>7, <2>8, <2>9, <2>10, <2>11
<1> QED
  BY <1>1, <1>2, PTL DEF Spec

-----------------------------------------------------------------------------
\* disconnectionHitCount against the failures since the last success: it is
\* never ahead of them, and equal to them until it has gone round.  Between an
\* answer and its treatment it is one failure behind.
CountInv ==
  IF task \in {"lock", "treat"}
  THEN IF answer THEN failures = 0
       ELSE /\ failures = Cap \/ hits + 1 <= failures
            /\ failures < 2 ^ HitBits => hits + 1 = failures
  ELSE /\ failures = Cap \/ hits <= failures
       /\ failures < 2 ^ HitBits => hits = failures

\* The same of every state the task can be in: the count agrees with the
\* failures, an answer that says the device is there leaves none, and a device
\* that counts as connected has fewer than were compared.
EarnedInv ==
  /\ CountInv
  /\ task \in {"publish", "status", "connect"} => failures = 0
  /\ task = "fire" /\ isConnected => failures = 0
  /\ task \in {"test", "ask", "await", "unlock", "sleep", "done"} /\ isConnected
     /\ failures \in 1..(2 ^ HitBits - 1) => failures < limit

LEMMA EarnedInvHolds == Spec => []EarnedInv
<1>1. Init => EarnedInv
  BY DEF Init, EarnedInv, CountInv
<1>2. TypeOK /\ EarnedInv /\ [Next]_vars => EarnedInv'
  <2> SUFFICES ASSUME TypeOK, EarnedInv, [Next]_vars PROVE EarnedInv'
    OBVIOUS
  <2> USE DEF EarnedInv, CountInv
  <2>0. /\ hits \in Nat /\ hits < 2 ^ HitBits /\ failures \in Nat /\ failures <= Cap
        /\ limit \in Nat /\ limit < Cap /\ Cap \in Nat /\ 2 ^ HitBits \in Nat
        /\ 2 ^ HitBits <= Cap /\ answer \in BOOLEAN /\ isConnected \in BOOLEAN
    BY CounterAssumption DEF TypeOK, Cap
  <2>1. CASE Test \/ Ask \/ Lock \/ Publish \/ Unlock \/ Wake \/ EndPublish \/ Connect \/ Fire
    BY <2>1 DEF Test, Ask, Lock, Publish, Unlock, Wake, EndPublish, Connect, Fire, Again,
                Goto, Proceed, Cap, TypeOK
  <2>2. CASE Answer
    <3>1. /\ task = "await" /\ task' = "lock" /\ hits' = hits
          /\ answer' = reachable
          /\ failures' = IF reachable THEN 0 ELSE IF failures < Cap THEN failures + 1 ELSE failures
      BY <2>2 DEF Answer, Goto
    <3> QED
      BY <2>0, <3>1 DEF Cap
  <2>3. CASE Treat
    <3>1. task = "treat" /\ UNCHANGED <<answer, limit, failures>>
      BY <2>3 DEF Treat, Goto
    <3>2. CASE answer
      BY <2>0, <2>3, <3>1, <3>2, CounterAssumption DEF Treat, Count, Goto, Cap
    <3>3. CASE ~answer
      <4>1. hits' = (hits + 1) % 2 ^ HitBits
        BY <2>3, <3>3 DEF Treat, Count
      <4>2. hits' \in Nat /\ hits' <= hits + 1
        BY <2>0, <4>1, CounterAssumption
      <4>3. failures < 2 ^ HitBits => hits' = failures
        BY <2>0, <3>1, <3>3, <4>1
      <4>4. failures = Cap \/ hits' <= failures
        BY <2>0, <3>1, <3>3, <4>2
      <4>5. CASE AtLimit(hits')
        BY <2>0, <2>3, <3>1, <3>3, <4>3, <4>4, <4>5 DEF Treat, Goto, Cap
      <4>6. CASE ~AtLimit(hits')
        BY <2>0, <2>3, <3>1, <3>3, <4>2, <4>3, <4>4, <4>6 DEF Treat, Goto, Cap, AtLimit
      <4> QED
        BY <4>5, <4>6
    <3> QED
      BY <3>2, <3>3
  <2>4. CASE UNCHANGED taskVars
    BY <2>4 DEF taskVars, Cap
  <2>5. ASSUME \/ \E l \in Listeners : AddDisconnected(l)
               \/ \E l \in Listeners : TestConnected(l)
               \/ \E l \in Listeners : CallAtOnce(l)
               \/ \E l \in Listeners : AddConnected(l)
               \/ \E l \in Listeners : BeginAddStatus(l)
               \/ \E l \in Listeners : EndAddStatus(l)
               \/ \E n \in Thresholds : SetThreshold(n)
               \/ Interrupt \/ Join \/ Flip
               \/ UNCHANGED vars
        PROVE  UNCHANGED taskVars
    BY <2>5 DEF AddDisconnected, TestConnected, CallAtOnce, AddConnected, BeginAddStatus,
                EndAddStatus, SetThreshold, Interrupt, Join, Flip, clientFrame, vars
  <2> QED
    BY StepCases, <2>1, <2>2, <2>3, <2>4, <2>5
<1> QED
  BY <1>1, <1>2, TypeCorrect, PTL DEF Spec

\* The watcher declares the connection lost only on the failure that brings the
\* count of consecutive ones to the threshold loaded for it.
THEOREM DisconnectionEarned == Spec => DisconnectionIsEarned
<1>1. TypeOK /\ EarnedInv /\ [Next]_vars => [isConnected /\ ~isConnected' => failures >= limit]_vars
  <2> SUFFICES ASSUME TypeOK, EarnedInv, Next, isConnected, ~isConnected'
               PROVE  failures >= limit
    BY DEF vars
  <2>0. /\ hits \in Nat /\ failures \in Nat /\ limit \in Nat /\ limit < Cap /\ Cap \in Nat
    BY CounterAssumption DEF TypeOK, Cap
  <2>1. CASE Treat
    <3>1. task = "treat" /\ ~answer /\ hits' >= limit /\ hits' = (hits + 1) % 2 ^ HitBits
      BY <2>1 DEF Treat, Goto, Count, AtLimit
    <3>2. hits' \in Nat /\ hits' <= hits + 1
      BY <2>0, <3>1, CounterAssumption
    <3> QED
      BY <2>0, <3>1, <3>2 DEF EarnedInv, CountInv
  <2>2. CASE ~Treat
    <3>1. isConnected' = isConnected \/ isConnected' = TRUE
      BY <2>2, StepCases DEF Test, Ask, Answer, Lock, Publish, EndPublish, Connect, Fire, Unlock,
           Wake, AddDisconnected, TestConnected, CallAtOnce, AddConnected, BeginAddStatus,
           EndAddStatus, SetThreshold, Interrupt, Join, Flip, clientFrame, taskVars, vars
    <3> QED
      BY <3>1
  <2> QED
    BY <2>1, <2>2
<1> QED
  BY <1>1, TypeCorrect, EarnedInvHolds, PTL DEF Spec, DisconnectionIsEarned

\* A device that counts as connected has failed fewer times in a row than the
\* threshold it was compared with, until the counter has gone round.
THEOREM ConnectionEarned == Spec => []ConnectionIsEarned
<1>1. EarnedInv => ConnectionIsEarned
  BY DEF EarnedInv, ConnectionIsEarned
<1> QED
  BY <1>1, EarnedInvHolds, PTL

-----------------------------------------------------------------------------
\* What is known of a listener whose registration overlapped no change: which
\* lists it is in, and what it was told, at each place of its registration.
\* While an event is being fired it is not in the middle of one.
ListenerInv(l) ==
  /\ client[l] = "out" => l \notin told /\ l \notin warned /\ ~view[l]
  /\ client[l] # "out" => l \in warned
  /\ client[l] = "in" => l \in told
  /\ l \notin late =>
       /\ client[l] = "warned" => ~view[l]
       /\ client[l] = "call" => isConnected
       /\ client[l] = "push" => view[l] = isConnected
       /\ client[l] = "in" /\ task # "fire" => view[l] = isConnected
       /\ task = "fire" => client[l] \in {"out", "in"}

SyncInv == \A l \in Listeners : ListenerInv(l)

LEMMA SyncInvHolds == Spec => []SyncInv
<1>1. Init => SyncInv
  BY DEF Init, SyncInv, ListenerInv
<1>2. TypeOK /\ SyncInv /\ [Next]_vars => SyncInv'
  <2> SUFFICES ASSUME TypeOK, SyncInv, [Next]_vars, NEW l \in Listeners PROVE ListenerInv(l)'
    BY DEF SyncInv
  <2> USE DEF ListenerInv
  <2>0. /\ ListenerInv(l) /\ client[l] \in {"out", "warned", "call", "push", "in"}
        /\ view[l] \in BOOLEAN /\ isConnected \in BOOLEAN
    BY DEF SyncInv, TypeOK
  <2>1. CASE Test \/ Ask \/ Answer \/ Lock \/ Publish \/ EndPublish \/ Unlock \/ Wake
    BY <2>0, <2>1 DEF Test, Ask, Answer, Lock, Publish, EndPublish, Unlock, Wake, Again, Goto,
                      Proceed, taskFrame, listVars, clientVars
  <2>2. CASE Treat \/ Connect
    <3>1. /\ UNCHANGED <<told, warned, client, view>> /\ task # "fire"
          /\ late' = late \cup IF isConnected' # isConnected
                               THEN {k \in Listeners : client[k] \notin {"out", "in"}} ELSE {}
          /\ isConnected' \in BOOLEAN
          /\ task' = "fire" <=> isConnected' # isConnected
      BY <2>0, <2>2 DEF Treat, Connect, Goto, listVars
    <3> QED
      BY <2>0, <3>1
  <2>3. CASE Fire
    <3>1. /\ UNCHANGED <<told, warned, client, late, isConnected>>
          /\ task = "fire" /\ task' = "unlock"
          /\ view'[l] = IF l \in IF isConnected THEN told ELSE warned THEN isConnected ELSE view[l]
      BY <2>3 DEF Fire, Audience, Goto, taskFrame, listVars, clientVars
    <3> QED
      BY <2>0, <3>1
  <2>4. CASE \E k \in Listeners : AddDisconnected(k)
    <3> PICK k \in Listeners : AddDisconnected(k)
      BY <2>4
    <3>1. /\ UNCHANGED <<told, view, late, isConnected, task>> /\ task # "fire"
          /\ client[k] = "out" /\ client' = [client EXCEPT ![k] = "warned"]
          /\ warned' = warned \cup {k}
      BY DEF AddDisconnected, ClientAt, Locked, clientFrame, taskVars
    <3> QED
      BY <2>0, <3>1 DEF TypeOK
  <2>5. CASE \E k \in Listeners : TestConnected(k)
    <3> PICK k \in Listeners : TestConnected(k)
      BY <2>5
    <3>1. /\ UNCHANGED <<told, warned, view, late, isConnected, task>>
          /\ client[k] = "warned" /\ client' = [client EXCEPT ![k] = AtOnce]
      BY DEF TestConnected, ClientAt, clientFrame, taskVars, listVars
    <3> QED
      BY <2>0, <3>1 DEF TypeOK, AtOnce
  <2>6. CASE \E k \in Listeners : CallAtOnce(k)
    <3> PICK k \in Listeners : CallAtOnce(k)
      BY <2>6
    <3>1. /\ UNCHANGED <<told, warned, late, isConnected, task>>
          /\ client[k] = "call" /\ client' = [client EXCEPT ![k] = "push"]
          /\ view' = [view EXCEPT ![k] = TRUE]
      BY DEF CallAtOnce, ClientAt, clientFrame, taskVars, listVars
    <3> QED
      BY <2>0, <3>1 DEF TypeOK
  <2>7. CASE \E k \in Listeners : AddConnected(k)
    <3> PICK k \in Listeners : AddConnected(k)
      BY <2>7
    <3>1. /\ UNCHANGED <<warned, view, late, isConnected, task>> /\ task # "fire"
          /\ client[k] = "push" /\ client' = [client EXCEPT ![k] = "in"]
          /\ told' = told \cup {k}
      BY DEF AddConnected, ClientAt, Locked, clientFrame, taskVars
    <3> QED
      BY <2>0, <3>1 DEF TypeOK
  <2>8. CASE \/ \E k \in Listeners : BeginAddStatus(k)
             \/ \E k \in Listeners : EndAddStatus(k)
             \/ \E n \in Thresholds : SetThreshold(n)
             \/ Interrupt \/ Join \/ Flip
             \/ UNCHANGED vars
    BY <2>0, <2>8 DEF BeginAddStatus, EndAddStatus, SetThreshold, Interrupt, Join, Flip,
                      clientFrame, taskVars, listVars, clientVars, vars
  <2> QED
    BY StepCases, <2>1, <2>2, <2>3, <2>4, <2>5, <2>6, <2>7, <2>8
<1> QED
  BY <1>1, <1>2, TypeCorrect, PTL DEF Spec

\* A listener registered while the connection did not change knows its state
\* whenever the task is not about to tell it, for any number of listeners.
THEOREM PunctualListenersInSync == Spec => []PunctualListenerInSync
<1>1. SyncInv => PunctualListenerInSync
  BY DEF SyncInv, ListenerInv, PunctualListenerInSync
<1> QED
  BY <1>1, SyncInvHolds, PTL
=============================================================================
