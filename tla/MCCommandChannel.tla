--------------------------- MODULE MCCommandChannel ---------------------------
(***************************************************************************)
(* Instances of CommandChannel.  Two requests are the least that share the *)
(* socket and the timers.                                                  *)
(***************************************************************************)
EXTENDS CommandChannel
===============================================================================
