-------------------------- MODULE RequestBuilders --------------------------
(***************************************************************************)
(* The builders of include/Control/Parameters.hpp and how a command chains *)
(* them (ParametersChaining of include/Control/Commands.hpp).              *)
(*                                                                         *)
(* A section is a record from its methods to the names they write or ask   *)
(* for.  A value is "on", "off", or what a method makes of its argument: an*)
(* argument is "plain", "spaced" when it is a text with blanks, "named"    *)
(* when it is one that is no IP address, "beyond" when it is an unsigned   *)
(* number no int holds.                                                    *)
(***************************************************************************)
EXTENDS Naturals, SequencesExt

HandleSection ==
  [withWatchdog |-> "watchdog", withoutWatchdog |-> "watchdog",
   withWatchdogTimeout |-> "watchdogtimeout", withPacketType |-> "packet_type",
   withPacketCrc |-> "packet_crc", withStartAngle |-> "start_angle",
   withNumberOfPointsPerScan |-> "max_num_points_scan",
   withNumberOfScanToSkip |-> "skip_scans"]

ReadWrite ==
  [BasicInformation |-> [withUserTag |-> "user_tag", withUserNotes |-> "user_notes"],
   Ethernet |->
     [withIpMode |-> "ip_address", withIpAddress |-> "ip_address",
      withSubnetMask |-> "subnet_mask", withGateway |-> "gateway"],
   Measuring |->
     [withOperatingMode |-> "operating_mode", withScanFrequency |-> "scan_frequency",
      withSamplesPerScan |-> "samples_per_scan", withScanDirection |-> "scan_direction"],
   HmiDisplay |->
     [withHmiDisplayMode |-> "hmi_display_mode", withHmiLanguage |-> "hmi_language",
      lockHmiButton |-> "hmi_button_lock", unlockHmiButton |-> "hmi_button_lock",
      lockHmiParameters |-> "hmi_parameter_lock", unlockHmiParameters |-> "hmi_parameter_lock",
      enableLEDLocatorIndication |-> "locator_indication",
      disableLEDLocatorIndication |-> "locator_indication",
      withHmiStaticLogo |-> "hmi_static_logo", withHmiStaticText1 |-> "hmi_static_text_1",
      withHmiStaticText2 |-> "hmi_static_text_2",
      withHmiApplicationBitmap |-> "hmi_application_bitmap",
      withHmiApplicationText1 |-> "hmi_application_text_1",
      withHmiApplicationText2 |-> "hmi_application_text_2"],
   HandleTcp |-> HandleSection,
   HandleUdp |-> HandleSection @@ [withHostname |-> "address", withPort |-> "port"],
   LensContaminationMonitor |->
     [withSensitivity |-> "lcm_detection_sensitivity",
      withDetectionPeriod |-> "lcm_detection_period",
      withLcmEnabled |-> "lcm_sector_enable", withLcmDisabled |-> "lcm_sector_enable"]]

InformationSection ==
  [requestDeviceFamily |-> "device_family", requestVendor |-> "vendor",
   requestProduct |-> "product", requestPart |-> "part", requestSerial |-> "serial",
   requestFirmwareRevision |-> "revision_fw", requestHardwareRevision |-> "revision_hw",
   withUserTag |-> "user_tag", withUserNotes |-> "user_notes"]

CapabilitiesSection ==
  [requestFeatureFlags |-> "feature_flags", requestEmitterType |-> "emitter_type",
   requestRadialMinRange |-> "radial_range_min", requestRadialMaxRange |-> "radial_range_max",
   requestRadialResolution |-> "radial_resolution", requestAngularFov |-> "angular_fov",
   requestAngularResolution |-> "sampling_rate_max",
   requestMinimalScanFrequency |-> "scan_frequency_min",
   requestMaximalScanFrequency |-> "scan_frequency_max",
   requestMinimalSamplingRate |-> "sampling_rate_min",
   requestMaximalSamplingRate |-> "angular_fov",
   requestMaximalConnections |-> "max_connections"]

ReadOnly ==
  [BasicInformation |-> InformationSection,
   Capabilities |-> CapabilitiesSection,
   Ethernet |->
     [requestCurrentIpMode |-> "ip_mode_current",
      requestCurrentIpAddress |-> "ip_address_current",
      requestCurrentSubnetMask |-> "subnet_mask_current",
      requestCurrentGateway |-> "gateway_current", requestMacAddress |-> "mac_address",
      withIpMode |-> "ip_mode", withIpAddress |-> "ip_address",
      withSubnetMask |-> "subnet_mask", withGateway |-> "gateway"],
   Measuring |->
     [requestMeasuredFrequency |-> "scan_frequency_measured",
      withOperatingMode |-> "operating_mode", withScanFrequency |-> "scan_frequency",
      withScanDirection |-> "scan_direction", withSamplesPerScan |-> "samples_per_scan"],
   HmiDisplay |->
     [withHmiDisplayMode |-> "hmi_display_mode", withHmiLanguage |-> "hmi_language",
      withLockHmiButton |-> "hmi_button_lock", withLockHmiParameters |-> "hmi_parameter_lock",
      withLEDLocatorIndication |-> "locator_indication",
      withHmiStaticLogo |-> "hmi_static_logo", withHmiStaticText1 |-> "hmi_static_text_1",
      withHmiStaticText2 |-> "hmi_static_text_2",
      withHmiApplicationBitmap |-> "hmi_application_bitmap",
      withHmiApplicationText1 |-> "hmi_application_text_1",
      withHmiApplicationText2 |-> "hmi_application_text_2"],
   SystemStatus |->
     [requestStatusFlags |-> "status_flags", requestLoadIndication |-> "load_indication",
      requestSystemTimeRaw |-> "system_time_raw", requestUpTime |-> "up_time",
      requestPowerCycles |-> "power_cycles", requestOperationTime |-> "operation_time",
      requestOperationTimeScaled |-> "operation_time_scaled",
      requestCurrentTemperature |-> "temperature_current",
      requestMinimalTemperature |-> "temperature_min",
      requestMaximalTemperature |-> "temperature_max"],
   LensContaminationMonitor |->
     [requestLcmSectorWarningFlag |-> "lcm_sector_warn_flags",
      requestLcmSectorErrorFlag |-> "lcm_sector_error_flags",
      withSensitivity |-> "lcm_detection_sensitivity",
      withDetectionPeriod |-> "lcm_detection_period", withLcmState |-> "lcm_sector_enable"]]

\* The sections a client can name: ParametersRequestBuilder gives the others no
\* alias.
Exported == [readOnly |-> DOMAIN ReadOnly \ {"HmiDisplay", "LensContaminationMonitor"},
             readWrite |-> DOMAIN ReadWrite \ {"LensContaminationMonitor"}]

-----------------------------------------------------------------------------
(* The methods                                                             *)

On == {"lockHmiButton", "lockHmiParameters", "enableLEDLocatorIndication", "withWatchdog",
       "withLcmEnabled"}
Off == {"unlockHmiButton", "unlockHmiParameters", "disableLEDLocatorIndication",
        "withoutWatchdog", "withLcmDisabled"}
Encoded == {"withHmiStaticText1", "withHmiStaticText2", "withHmiApplicationText1",
            "withHmiApplicationText2"}        (* encoreSpaceInUrl *)
Verbatim == {"withUserTag", "withUserNotes", "withIpAddress", "withSubnetMask", "withGateway",
             "withHmiStaticLogo", "withHmiApplicationBitmap", "withHostname"}
Unsigned32 == {"withScanFrequency", "withSamplesPerScan", "withWatchdogTimeout",
               "withNumberOfPointsPerScan", "withNumberOfScanToSkip"}

Arguments(method) == CASE method \in Encoded \cup Verbatim -> {"plain", "spaced", "named"}
                       [] method \in Unsigned32 -> {"plain", "beyond"}
                       [] OTHER -> {"plain"}

ValueOf(method, argument) ==
  CASE method \in On -> "on" [] method \in Off -> "off"
    [] method \in Encoded /\ argument = "spaced" -> "encoded"
    [] OTHER -> argument

\* The map of a ReadWriteRequestBuilder after a sequence of calls: the last call
\* that writes a name wins.  Those of the handles begin with withoutWatchdog().
Initially(section) ==
  IF section \in {"HandleTcp", "HandleUdp"}
  THEN <<[method |-> "withoutWatchdog", argument |-> "plain"]>> ELSE <<>>

ReadWriteBuild(section, calls) ==
  FoldLeft(LAMBDA map, call :
             (ReadWrite[section][call.method] :> ValueOf(call.method, call.argument)) @@ map,
           <<>>, Initially(section) \o calls)

\* The list of a ReadOnlyRequestBuilder, repetitions included.
ReadOnlyBuild(section, methods) == [i \in DOMAIN methods |-> ReadOnly[section][methods[i]]]

-----------------------------------------------------------------------------
(* ParametersChaining: lists are appended, but insert keeps what a map     *)
(* already holds, so that the first builder wins                           *)

ChainedList(lists) == FlattenSeq(lists)
ChainedMap(maps) == FoldLeft(LAMBDA chained, map : chained @@ map, <<>>, maps)

\* A request is one line, cut at its first blank.
IsOneLine(map) == \A name \in DOMAIN map : map[name] # "spaced"

\* extractParametersValues; a name the answer does not hold has an empty text.
ParameterValues(list, tree, empty) ==
  [name \in {list[i] : i \in DOMAIN list} |-> IF name \in DOMAIN tree THEN tree[name] ELSE empty]

-----------------------------------------------------------------------------
(* What constructDataLink extracts from the map of a handle; the           *)
(* predicates say that nothing throws                                      *)

WatchdogEnabled(map) == "watchdog" \in DOMAIN map /\ map["watchdog"] = "on"

\* The timeout is looked for only if the watchdog is on, and must fit an int.
WatchdogFound(map) ==
  WatchdogEnabled(map) => "watchdogtimeout" \in DOMAIN map /\ map["watchdogtimeout"] # "beyond"

\* The host name must be an address.
EndpointFound(map) == /\ {"address", "port"} \subseteq DOMAIN map
                      /\ map["address"] = "plain"

HandleExtracted(section, map) ==
  WatchdogFound(map) /\ (section = "HandleUdp" => EndpointFound(map))
=============================================================================
