------------------------------ MODULE MCWorker ------------------------------
(***************************************************************************)
(* Instances of Worker.  Two callers and three jobs are the least that let *)
(* two push_backs overlap while a third job waits; a single caller is      *)
(* enough for the missed notification and for the off-by-one of maxJob.    *)
(***************************************************************************)
EXTENDS Worker
=============================================================================
