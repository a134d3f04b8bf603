---------------------------- MODULE CommandService ----------------------------
(***************************************************************************)
(* What the asynchronous commands of src/R2000.cpp promise their clients,  *)
(* without the worker, the io thread, the socket and the timers.  Requests *)
(* are numbered in the order of their submission.                          *)
(*                                                                         *)
(* Every request that is answered is answered once (a callable that throws *)
(* is told FAILED in addition).  Answers come in the order of submission,  *)
(* with one exception: requests that were taken before the device's        *)
(* endpoints were known look them up, each on its own, and can be overtaken*)
(* by any later request.                                                   *)
(***************************************************************************)
EXTENDS Naturals

CONSTANTS
  Requests,   (* the numbers of the requests clients may submit, naturals  *)
  Throwing,   (* those whose callable throws on an answer without the      *)
              (* fields it extracts                                        *)
  Verdicts    (* the results a request can be answered with                *)

VARIABLES
  submitted,
  lookups,    (* the requests that looked up the endpoints                 *)
  known,      (* the outcome of a lookup has been kept                     *)
  calls       (* the results each callable was invoked with                *)

vars == <<submitted, lookups, known, calls>>

Init == /\ submitted = {} /\ lookups = {} /\ known = FALSE
        /\ calls = [r \in Requests |-> <<>>]

Pending == {r \in submitted : calls[r] = <<>>}
Earlier(r) == {q \in Pending : q < r}

Submit(r) == /\ r \notin submitted /\ submitted' = submitted \cup {r}
             /\ UNCHANGED <<lookups, known, calls>>

LookUp(r) == /\ ~known /\ r \in Pending \ lookups /\ Earlier(r) \subseteq lookups
             /\ lookups' = lookups \cup {r}
             /\ UNCHANGED <<submitted, known, calls>>

Learn == /\ ~known /\ lookups # {} /\ known' = TRUE
         /\ UNCHANGED <<submitted, lookups, calls>>

Answers(r) == {<<v>> : v \in Verdicts}
              \cup (IF r \in Throwing THEN {<<v, "failed">> : v \in Verdicts} ELSE {})

Reply(r) == /\ r \in Pending /\ Earlier(r) \subseteq lookups
            /\ known \/ r \in lookups
            /\ \E a \in Answers(r) : calls' = [calls EXCEPT ![r] = a]
            /\ known' = TRUE
            /\ UNCHANGED <<submitted, lookups>>

Next == Learn \/ \E r \in Requests : Submit(r) \/ LookUp(r) \/ Reply(r)

Spec == Init /\ [][Next]_vars
===============================================================================
