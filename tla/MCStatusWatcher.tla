--------------------------- MODULE MCStatusWatcher ---------------------------
(***************************************************************************)
(* Instances of StatusWatcher.  Counters two and three bits wide keep the  *)
(* order of the source's 32 and 64: a threshold the counter cannot reach   *)
(* exists (a negative argument gives one).  What a listener then reads in  *)
(* the status is evaluated in MCDeviceStatus.                              *)
(***************************************************************************)
EXTENDS StatusWatcher, MCDeviceStatus

MCThresholds == {-1, 1}
=============================================================================
