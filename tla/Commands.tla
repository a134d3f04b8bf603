------------------------------ MODULE Commands ------------------------------
(***************************************************************************)
(* What the executors of include/Control/Commands.hpp make of an answer of *)
(* the device.  An answer is a result and a property tree (HttpExchange).  *)
(* What an executor gives to its promise, its callable or its caller is a  *)
(* result, the fields told and, of GetProtocolVersion, a version.          *)
(*                                                                         *)
(* Left out because the compiler refuses to instantiate them: every form of*)
(* FactoryResetParameters (a map is chained as a list), GetParameters'     *)
(* execute, and the executes over several handles (DeviceHandle's value is *)
(* private, a DeviceAnswer is neither a pair nor a pointer).               *)
(***************************************************************************)
EXTENDS HttpExchange, Sequences, FiniteSets

CONSTANTS
  Parameters,     (* the names GetParameters asks for                      *)
  VersionMajor, VersionMinor   (* of the protocol the device speaks        *)

ASSUME VersionAssumption == VersionMajor \in Nat /\ VersionMinor \in Nat

InfoFields == {"commands", "protocol_name", "version_major", "version_minor"}
HandleCommands == {"StartScanOutput", "StopScanOutput", "ReleaseHandle"}
RequestCommands == {"RequestTcpHandle", "RequestUdpHandle"}
OtherCommands == {"GetProtocolInfo", "GetProtocolVersion", "FeedWatchdog", "GetParameters",
                  "SetParameters", "FetchParameterList", "FactoryResetDevice",
                  "RebootDevice", "GetScanOutputConfig", "SetScanOutputConfig"}
CommandNames == HandleCommands \cup RequestCommands \cup OtherCommands

\* The commands a caller can also wait for on its own thread.
Synchronous == RequestCommands \cup
  {"GetProtocolInfo", "GetProtocolVersion", "SetParameters", "FetchParameterList",
   "FactoryResetDevice", "RebootDevice"}

Versions == {0} \cup 100..105        (* UNKNOWN, V100 to V104, ABOVE_V104   *)

Told(result, fields) == [result |-> result, fields |-> fields, version |-> 0]
Throws == Told("exception", {})

-----------------------------------------------------------------------------
(* One operator per executor: what becomes of the answer a                 *)

ResultOnly(a) == Told(a.result, {})

ReleaseHandle(a) == ResultOnly(a)
StartScanOutput(a) == ResultOnly(a)
StopScanOutput(a) == ResultOnly(a)
FeedWatchdog(a) == ResultOnly(a)
SetParameters(a) == ResultOnly(a)
FactoryResetDevice(a) == ResultOnly(a)
RebootDevice(a) == ResultOnly(a)
SetScanOutputConfig(a) == ResultOnly(a)

\* extractInfoFromPropertyTree: all or nothing, and SUCCESS all the same.
GetProtocolInfo(a) ==
  IF a.result = "SUCCESS" /\ InfoFields \subseteq a.tree THEN Told(a.result, InfoFields)
                                                         ELSE ResultOnly(a)

\* protocolVersionFromString
ProtocolVersion(major, minor) ==
  LET n == major * 100 + minor
  IN  CASE n \in 100..104 -> n [] n > 104 -> 105 [] n < 100 -> 0

\* at() throws when the version is not among the information.
VersionOf(info) ==
  IF {"version_major", "version_minor"} \subseteq info.fields
  THEN [Told(info.result, {}) EXCEPT !.version = ProtocolVersion(VersionMajor, VersionMinor)]
  ELSE Throws

GetProtocolVersion(a) ==
  IF a.result = "SUCCESS" THEN VersionOf(GetProtocolInfo(a)) ELSE ResultOnly(a)

\* The synchronous form tests the result the other way round.
GetProtocolVersionNow(a) ==
  IF a.result = "SUCCESS" THEN ResultOnly(a) ELSE VersionOf(GetProtocolInfo(a))

\* The future form: a thread of its own waits for the answer to GetProtocolInfo,
\* if that is accepted, and an exception stays in its future.
GetProtocolVersionLater(accepted, a) ==
  IF accepted THEN GetProtocolVersion(a) ELSE Told("FAILED", {})

\* The parameters the device left out are told as empty strings.
GetParameters(a) ==
  IF a.result = "SUCCESS" THEN Told(a.result, Parameters \cap a.tree) ELSE ResultOnly(a)

FetchParameterList(a) ==
  IF a.result = "SUCCESS" THEN Told(a.result, {"parameters"} \cap a.tree) ELSE ResultOnly(a)

\* Every node's value is looked up as if it were a field's name: the first one
\* that is not, and none is, ends the loop with the empty configuration.
GetScanOutputConfig(a) == ResultOnly(a)

\* extractHandleInfoFromPropertyTree: get<> throws when a field is missing.
Extracted(fields, a) == IF fields \subseteq a.tree THEN Told(a.result, fields) ELSE Throws

RequestTcpHandle(a) ==
  IF a.result = "SUCCESS" THEN Extracted({"port", "handle"}, a) ELSE ResultOnly(a)
RequestUdpHandle(a) ==
  IF a.result = "SUCCESS" THEN Extracted({"handle"}, a) ELSE ResultOnly(a)

-----------------------------------------------------------------------------

\* The completion an executor gives to asyncSendHttpCommand.
Completed(command, a) ==
  CASE command = "GetProtocolInfo" -> GetProtocolInfo(a)
    [] command = "GetProtocolVersion" -> GetProtocolVersion(a)
    [] command = "ReleaseHandle" -> ReleaseHandle(a)
    [] command = "StartScanOutput" -> StartScanOutput(a)
    [] command = "StopScanOutput" -> StopScanOutput(a)
    [] command = "FeedWatchdog" -> FeedWatchdog(a)
    [] command = "GetParameters" -> GetParameters(a)
    [] command = "SetParameters" -> SetParameters(a)
    [] command = "FetchParameterList" -> FetchParameterList(a)
    [] command = "FactoryResetDevice" -> FactoryResetDevice(a)
    [] command = "RebootDevice" -> RebootDevice(a)
    [] command = "RequestTcpHandle" -> RequestTcpHandle(a)
    [] command = "RequestUdpHandle" -> RequestUdpHandle(a)
    [] command = "GetScanOutputConfig" -> GetScanOutputConfig(a)
    [] command = "SetScanOutputConfig" -> SetScanOutputConfig(a)

\* execute
CompletedNow(command, a) ==
  IF command = "GetProtocolVersion" THEN GetProtocolVersionNow(a) ELSE Completed(command, a)

\* What the io thread makes of a completion: when it throws, the completion is
\* called a second time, with FAILED.  Mutant: the first call had told its
\* result before it threw.
ToldTwice(command, a) ==
  IF Completed(command, a) = Throws
  THEN <<ResultOnly(a), Completed(command, Answer("FAILED", {}))>>
  ELSE <<Completed(command, a)>>
Delivered(command, a) ==
  <<IF Completed(command, a) = Throws THEN Completed(command, Answer("FAILED", {}))
                                      ELSE Completed(command, a)>>
=============================================================================
