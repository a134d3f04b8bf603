------------------------------- MODULE MCLinks -------------------------------
(***************************************************************************)
(* Instances of Links: two scans, so that a waiter can be shown a scan that*)
(* is stored and not yet counted; every other choice is made by the model. *)
(***************************************************************************)
EXTENDS Links
=============================================================================
