------------------------- MODULE MCDataLinkBuilder -------------------------
(***************************************************************************)
(* Instances of DataLinkBuilder for TLC, and what the executors of Commands*)
(* make of every answer, evaluated over all results and all sets of fields.*)
(***************************************************************************)
EXTENDS DataLinkBuilder, MCRequestBuilders, MCHttpExchange

Fields == InfoFields \cup {"port", "handle", "parameters"} \cup Parameters

\* A completion that does not throw tells the answer's own result, and fields
\* the device sent; it throws on hollow successes only, so that the second
\* call, with FAILED, never throws.
ASSUME ExecutorsTellTheAnswer ==
  \A command \in CommandNames, result \in Results, tree \in SUBSET Fields :
    LET t == Completed(command, Answer(result, tree))
    IN  IF t = Throws THEN result = "SUCCESS" /\ tree # Fields
        ELSE /\ t.result = result /\ t.fields \subseteq tree
             /\ t.fields # {} \/ t.version # 0 => result = "SUCCESS"

\* Later protocols are given later versions, as long as minors stay below 100.
ASSUME VersionsAreOrdered ==
  \A M, N \in 0..2, m, n \in 0..99 :
    (M < N \/ (M = N /\ m <= n)) => ProtocolVersion(M, m) <= ProtocolVersion(N, n)

\* The version is told by the forms that do not wait on the caller's thread, alike;
\* the one that does never tells it.
ASSUME WaitingTellsNoVersion ==
  \A result \in Results, tree \in SUBSET InfoFields :
    LET a == Answer(result, tree)
    IN  /\ GetProtocolVersionLater(TRUE, a) = Completed("GetProtocolVersion", a)
        /\ CompletedNow("GetProtocolVersion", a).version = 0
=============================================================================
