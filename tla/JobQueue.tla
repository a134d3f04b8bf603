------------------------------ MODULE JobQueue ------------------------------
(***************************************************************************)
(* What a Worker promises its callers, stripped of threads, mutex and      *)
(* condition variable: accepted jobs start in the order of acceptance, at  *)
(* most once each; a refused or dropped job never starts; a job is refused *)
(* only when more than MaxJob jobs are waiting or being handed over.       *)
(* A job that throws takes the jobs of its batch down with it.  The list is*)
(* not protected: once two accesses have raced (sound is FALSE) jobs may be*)
(* lost, refused early or put in another's place, and all that is left of  *)
(* the promise is that none starts twice or after it was refused or dropped*)
(***************************************************************************)
EXTENDS Naturals, Sequences

CONSTANTS Jobs, MaxJob

VARIABLES queue, state, sound

vars == <<queue, state, sound>>

Queued == {queue[i] : i \in DOMAIN queue}

Init == queue = <<>> /\ state = [j \in Jobs |-> "fresh"] /\ sound = TRUE

Accept(j) == /\ state[j] = "fresh"
             /\ queue' = Append(queue, j)
             /\ state' = [state EXCEPT ![j] = "queued"]
             /\ UNCHANGED sound

Refuse(j) == /\ state[j] = "fresh"
             /\ sound => Len(queue) > MaxJob
             /\ state' = [state EXCEPT ![j] = "refused"]
             /\ UNCHANGED <<queue, sound>>

\* The oldest job runs; one that throws drops the next of its batch with it.
Run(n) == /\ queue' = SubSeq(queue, n + 1, Len(queue))
          /\ state' = [j \in Jobs |-> IF j = queue[1] THEN "ran"
                                      ELSE IF \E i \in 2..n : j = queue[i] THEN "dropped"
                                      ELSE state[j]]
          /\ UNCHANGED sound

\* Two accesses race over job j: it is lost, or some of the last jobs are and it
\* follows the others, or it gets ahead of them.
Lose(j) == /\ state' = [state EXCEPT ![j] = "dropped"]
           /\ UNCHANGED queue

CutOff(j, n) == /\ queue' = Append(SubSeq(queue, 1, n), j)
                /\ state' = [i \in Jobs |-> IF i = j THEN "queued"
                                            ELSE IF \E k \in (n + 1)..Len(queue) : i = queue[k]
                                            THEN "dropped" ELSE state[i]]

GetAhead(j, n) == /\ queue' = Append(SubSeq(queue, 1, n), j) \o SubSeq(queue, n + 1, Len(queue))
                  /\ state' = [state EXCEPT ![j] = "queued"]

Race(j) == /\ state[j] = "fresh" /\ sound' = FALSE
           /\ Lose(j) \/ \E n \in 0..Len(queue) : CutOff(j, n) \/ GetAhead(j, n)

\* The jobs that wait are destroyed with the queue.
Close == /\ queue' = <<>>
         /\ state' = [j \in Jobs |-> IF j \in Queued THEN "dropped" ELSE state[j]]
         /\ UNCHANGED sound

Next == \/ \E j \in Jobs : Accept(j) \/ Refuse(j) \/ Race(j)
        \/ \E n \in 1..Len(queue) : Run(n)
        \/ Close

Spec == Init /\ [][Next]_vars
=============================================================================
