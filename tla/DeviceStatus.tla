---------------------------- MODULE DeviceStatus ----------------------------
(***************************************************************************)
(* What a client reads in a status of the device: DeviceStatus and         *)
(* StatusFlagInterpreter of include/StatusWatcher.hpp.                     *)
(*                                                                         *)
(* An unsigned integer is the set of the positions of its bits.  A text is *)
(* what std::stoul sees of it: whether it starts with a number, a minus    *)
(* sign, and the bits of the number's magnitude.  A status is a function   *)
(* from the names of the parameters it holds to texts.                     *)
(***************************************************************************)
EXTENDS Integers, RequestBuilders

CONSTANTS LongBits,      (* bits of unsigned long and of uint64_t (64)     *)
          FlagBits       (* of uint32_t (32)                               *)

ASSUME WidthAssumption == LongBits \in Nat /\ FlagBits \in 1..LongBits

Long == 0..(LongBits - 1)

Text(negative, bits) == [number |-> TRUE, negative |-> negative, bits |-> bits]
NoNumber == [number |-> FALSE, negative |-> FALSE, bits |-> {}]
Zero == {}

-----------------------------------------------------------------------------
(* QuietCastOptionalHelper                                                 *)

Value(bits) == [raised |-> "nothing", bits |-> bits]
Raised(exception) == [raised |-> exception, bits |-> Zero]

\* Two's complement: the lowest bit stays, those above it are inverted.
Negated(bits) == IF bits = Zero THEN Zero
                 ELSE {Min(bits)} \cup {b \in Long : b > Min(bits) /\ b \notin bits}

stoul(text) ==
  CASE ~text.number -> Raised("invalid_argument")
    [] text.number /\ ~(text.bits \subseteq Long) -> Raised("out_of_range")
    [] text.number /\ text.bits \subseteq Long ->
         Value(IF text.negative THEN Negated(text.bits) ELSE text.bits)

\* The quiet NaN of an integer type is zero.
castQuietly(status, key) == IF key \in DOMAIN status THEN stoul(status[key]) ELSE Value(Zero)

-----------------------------------------------------------------------------
(* The getters                                                             *)

Getters == [getCpuLoad |-> "load_indication", getRawSystemTime |-> "system_time_raw",
            getUptime |-> "up_time", getPowerCyclesCount |-> "power_cycles",
            getOperationTime |-> "operation_time",
            getScaledOperationTime |-> "operation_time_scaled",
            getCurrentTemperature |-> "temperature_current",
            getMinimalTemperature |-> "temperature_min",
            getMaximalTemperature |-> "temperature_max"]

\* Both exceptions are caught; a parameter that is missing is no exception.
Get(getter, status, otherwise) ==
  LET cast == castQuietly(status, Getters[getter])
  IN  IF cast.raised = "nothing" THEN cast.bits ELSE otherwise

\* Nothing is caught, and the bits above the 32nd are lost.
getStatusFlags(status) ==
  LET cast == castQuietly(status, "status_flags")
  IN  [cast EXCEPT !.bits = @ \cap 0..(FlagBits - 1)]

FlagPositions ==
  [isInitializing |-> 0, outputScanIsMuted |-> 3, headHasUnstableRotation |-> 4,
   deviceHasWarning |-> 9, hasLensContaminationWarning |-> 10,
   hasLowTemperatureWarning |-> 11, hasHighTemperatureWarning |-> 12,
   hasDeviceOverloadWarning |-> 13, deviceHasError |-> 17,
   hasLensContaminationError |-> 18, hasLowTemperatureError |-> 19,
   hasHighTemperatureError |-> 20, hasDeviceOverloadError |-> 21,
   hasUnrecoverableDefect |-> 31]

Flag(query, flags) == FlagPositions[query] \in flags

-----------------------------------------------------------------------------
(* What the watcher's task asks for and makes a status of; the empty text  *)
(* of a parameter the device left out is no number                         *)

Requested == ReadOnlyBuild("SystemStatus",
  <<"requestLoadIndication", "requestSystemTimeRaw", "requestUpTime", "requestPowerCycles",
    "requestOperationTime", "requestOperationTimeScaled", "requestCurrentTemperature",
    "requestMinimalTemperature", "requestMaximalTemperature", "requestStatusFlags">>)

StatusOf(device) == ParameterValues(Requested, device, NoNumber)
=============================================================================
