--------------------------- MODULE LivoxCommands ---------------------------
(***************************************************************************)
(* The control interface of Livox-SDK2: an application calls a function of *)
(* livox_lidar_api.h, CommandImpl makes a request of it that writes keys   *)
(* of the lidar, and the answer is the callback of the call.  The lidar    *)
(* pushes the keys with their values, which parse_lidar_state_info.cpp     *)
(* turns into the names the application reads.                             *)
(*                                                                         *)
(* A command waits for its answer in commands_, under its sequence number. *)
(* Mid360CommandHandler sends a command before GeneralCommandHandler       *)
(* registers it; HapCommandHandler registers it as well, so that one is    *)
(* registered twice.  Each call runs in a thread of its own.               *)
(***************************************************************************)
EXTENDS IpAddress, FiniteSets

CONSTANTS
  Programs,    \* what an application does with a lidar of which type: [type, calls],
               \* where calls is a sequence of [fn, parts], and parts the address
               \* the function takes, as a sequence of numbers
  SeqMax,      \* UINT16_MAX
  MaxSessions, \* of one run (a bound)
  MaxMishaps   \* lost, refused and unsent commands of one run (a bound)

ASSUME CommandAssumption ==
  /\ SeqMax \in Nat \ {0} /\ {MaxSessions, MaxMishaps} \subseteq Nat
  /\ \A p \in Programs :
       p.type \in {"Mid360", "HAP"} /\ p.calls \in Seq([fn : STRING, parts : Seq(Int)])

VARIABLES
  program,    \* the calls the application has yet to make
  sdk,        \* is_initialized
  sessions,   \* how often it became TRUE
  lidarType,  \* dev_type of the lidar: "Mid360" or "HAP"
  found,      \* the lidar is in device_dev_type_
  lastSeq,    \* seq of GenerateSeq
  calls,      \* the accepted calls, with the steps their threads have left
  pending,    \* commands_: the calls that wait for an answer
  results,    \* the statuses each call was called back with
  readings,   \* what each query was answered
  udp,        \* the datagrams under way
  settings,   \* the lidar's keys: which call wrote them, and what
  obeyed,     \* the calls the lidar obeyed, in its order
  reported,   \* what livox_lidar_info_cb_ was told last
  mishaps

session == <<sdk, sessions, lidarType, found>>
keyVars == <<settings, obeyed, reported>>
commandVars ==
  <<program, session, lastSeq, calls, pending, results, readings, udp, keyVars, mishaps>>
-----------------------------------------------------------------------------
(* Which key a function writes                                             *)

ScanKeys ==
  {<<"SetLivoxLidarPclDataType", "kKeyPclDataType">>,
   <<"SetLivoxLidarScanPattern", "kKeyPatternMode">>,
   <<"SetLivoxLidarDualEmit", "kKeyDualEmitEn">>,
   <<"EnableLivoxLidarPointSend", "kKeyPointSendEn">>,
   <<"DisableLivoxLidarPointSend", "kKeyPointSendEn">>}

AddressKeys ==
  {<<"SetLivoxLidarIp", "kKeyLidarIpCfg">>,
   <<"SetLivoxLidarStateInfoHostIPCfg", "kKeyStateInfoHostIpCfg">>,
   <<"SetLivoxLidarPointDataHostIPCfg", "kKeyLidarPointDataHostIpCfg">>,
   <<"SetLivoxLidarImuDataHostIPCfg", "kKeyLidarImuHostIpCfg">>}

\* The copy of SetLivoxLidarFovCfg0 kept its key.
CopiedFovKeys ==
  {<<"SetLivoxLidarFovCfg0", "kKeyFovCfg0">>, <<"SetLivoxLidarFovCfg1", "kKeyFovCfg0">>}

FovKeys ==
  {<<"SetLivoxLidarInstallAttitude", "kKeyInstallAttitude">>,
   <<"SetLivoxLidarFovCfg0", "kKeyFovCfg0">>,
   <<"SetLivoxLidarFovCfg1", "kKeyFovCfg1">>,
   <<"EnableLivoxLidarFov", "kKeyFovCfgEn">>,
   <<"DisableLivoxLidarFov", "kKeyFovCfgEn">>,
   <<"SetLivoxLidarDetectMode", "kKeyDetectMode">>}

ModeKeys ==
  {<<"SetLivoxLidarFuncIOCfg", "kKeyFuncIoCfg">>,
   <<"SetLivoxLidarBlindSpot", "kKeyBlindSpotSet">>,
   <<"SetLivoxLidarWorkMode", "kKeyWorkMode">>,
   <<"EnableLivoxLidarGlassHeat", "kKeyGlassHeat">>,
   <<"DisableLivoxLidarGlassHeat", "kKeyGlassHeat">>,
   <<"SetLivoxLidarGlassHeat", "kKeyGlassHeat">>}

EnableKeys ==
  {<<"EnableLivoxLidarImuData", "kKeyImuDataEn">>,
   <<"DisableLivoxLidarImuData", "kKeyImuDataEn">>,
   <<"EnableLivoxLidarFusaFunciont", "kKeyFusaEn">>,
   <<"DisableLivoxLidarFusaFunciont", "kKeyFusaEn">>,
   <<"StartForcedHeating", "kKeyForceHeatEn">>,
   <<"StopForcedHeating", "kKeyForceHeatEn">>,
   <<"SetLivoxLidarLogParam", "kKeyLogParamSet">>}

BootKeys == {<<"SetLivoxLidarWorkModeAfterBoot", "kKeyWorkModeAfterBoot">>}

\* They write no key.
Requests ==
  {"LivoxLidarRequestReset", "SetLivoxLidarDebugPointCloud", "SetLivoxLidarRmcSyncTime"}

UpgradeRequests ==
  {"LivoxLidarStartUpgrade", "LivoxLidarXferFirmware", "LivoxLidarCompleteXferFirmware",
   "LivoxLidarGetUpgradeProgress", "LivoxLidarRequestFirmwareInfo", "LivoxLidarRequestReboot"}

Queries ==
  {"QueryLivoxLidarInternalInfo", "QueryLivoxLidarFwType", "QueryLivoxLidarFirmwareVer"}

KeyTable == ScanKeys \cup AddressKeys \cup FovKeys \cup ModeKeys \cup EnableKeys \cup BootKeys

\* The data type of the IMU is not a data type of the points.
PclImu == "SetLivoxLidarPclDataType(kLivoxLidarImuData)"

Dispatch(fn) == IF fn = PclImu THEN "EnableLivoxLidarImuData" ELSE fn

TakesAddress(fn) == \E p \in AddressKeys : p[1] = fn

\* The three host addresses of a Mid-360.
Mid360CfgKeys == {"kKeyStateInfoHostIpCfg", "kKeyLidarPointDataHostIpCfg", "kKeyLidarImuHostIpCfg"}

HapCfgKeys == {"kKeyLidarPointDataHostIpCfg", "kKeyLidarImuHostIpCfg"}

\* UpdateLidarCfg is what the SDK calls itself when it found the lidar.
Writes(fn) ==
  IF fn = "UpdateLidarCfg"
  THEN IF lidarType = "HAP" THEN HapCfgKeys ELSE Mid360CfgKeys
  ELSE {p[2] : p \in {q \in KeyTable : q[1] = Dispatch(fn)}}

\* GetQueryLidarInternalInfoKeys
HapQueryKeys ==
  {"kKeyPclDataType", "kKeyPatternMode", "kKeyDualEmitEn", "kKeyPointSendEn", "kKeyLidarIpCfg",
   "kKeyLidarPointDataHostIpCfg", "kKeyLidarImuHostIpCfg", "kKeyLogHostIpCfg",
   "kKeyInstallAttitude", "kKeyBlindSpotSet", "kKeyWorkMode", "kKeyGlassHeat", "kKeyImuDataEn",
   "kKeyFusaEn", "kKeyForceHeatEn", "kKeySn", "kKeyProductInfo", "kKeyVersionApp",
   "kKeyVersionLoader", "kKeyVersionHardware", "kKeyMac", "kKeyCurWorkState", "kKeyStatusCode",
   "kKeyLidarDiagStatus", "kKeyLidarFlashStatus", "kKeyFwType", "kKeyCurGlassHeatState"}

Mid360QueryKeys ==
  {"kKeyPclDataType", "kKeyPatternMode", "kKeyLidarIpCfg", "kKeyStateInfoHostIpCfg",
   "kKeyLidarPointDataHostIpCfg", "kKeyLidarImuHostIpCfg", "kKeyInstallAttitude", "kKeyFovCfg0",
   "kKeyFovCfg1", "kKeyFovCfgEn", "kKeyDetectMode", "kKeyFuncIoCfg", "kKeyWorkMode",
   "kKeyImuDataEn", "kKeySn", "kKeyProductInfo", "kKeyVersionApp", "kKeyVersionLoader",
   "kKeyVersionHardware", "kKeyMac", "kKeyCurWorkState", "kKeyCoreTemp", "kKeyPowerUpCnt",
   "kKeyLocalTimeNow", "kKeyLastSyncTime", "kKeyTimeOffset", "kKeyTimeSyncType",
   "kKeyLidarDiagStatus", "kKeyFwType", "kKeyHmsCode"}

Asks(fn) ==
  CASE fn = "QueryLivoxLidarFwType" -> {"kKeyFwType"}
    [] fn = "QueryLivoxLidarFirmwareVer" -> {"kKeyVersionApp"}
    [] fn = "QueryLivoxLidarInternalInfo" ->
         IF lidarType = "HAP" THEN HapQueryKeys ELSE Mid360QueryKeys
    [] OTHER -> {}
-----------------------------------------------------------------------------
(* What the lidar pushes, and what the application is told of it           *)

\* The member of DirectLidarStateInfo a key is copied to.
ConfigFields ==
  {<<"kKeyPclDataType", "pcl_data_type">>, <<"kKeyPatternMode", "pattern_mode">>,
   <<"kKeyDualEmitEn", "dual_emit_en">>, <<"kKeyPointSendEn", "point_send_en">>,
   <<"kKeyLidarIpCfg", "lidar_ipcfg">>, <<"kKeyStateInfoHostIpCfg", "host_state_info">>,
   <<"kKeyLidarPointDataHostIpCfg", "pointcloud_host_ipcfg">>,
   <<"kKeyLidarImuHostIpCfg", "imu_host_ipcfg">>, <<"kKeyCtlHostIpCfg", "ctl_host_ipcfg">>,
   <<"kKeyLogHostIpCfg", "log_host_ipcfg">>, <<"kKeyVehicleSpeed", "vehicle_speed">>,
   <<"kKeyEnvironmentTemp", "environment_temp">>, <<"kKeyInstallAttitude", "install_attitude">>,
   <<"kKeyBlindSpotSet", "blind_spot_set">>, <<"kKeyFrameRate", "frame_rate">>,
   <<"kKeyFovCfg0", "fov_cfg0">>, <<"kKeyFovCfg1", "fov_cfg1">>,
   <<"kKeyFovCfgEn", "fov_cfg_en">>, <<"kKeyDetectMode", "detect_mode">>,
   <<"kKeyFuncIoCfg", "func_io_cfg">>, <<"kKeyWorkMode", "work_tgt_mode">>,
   <<"kKeyGlassHeat", "glass_heat">>, <<"kKeyImuDataEn", "imu_data_en">>,
   <<"kKeyFusaEn", "fusa_en">>}

StatusFields ==
  {<<"kKeySn", "sn">>, <<"kKeyProductInfo", "product_info">>, <<"kKeyVersionApp", "version_app">>,
   <<"kKeyVersionLoader", "version_loader">>, <<"kKeyVersionHardware", "version_hardware">>,
   <<"kKeyMac", "mac">>, <<"kKeyCurWorkState", "cur_work_state">>, <<"kKeyCoreTemp", "core_temp">>,
   <<"kKeyPowerUpCnt", "powerup_cnt">>, <<"kKeyLocalTimeNow", "local_time_now">>,
   <<"kKeyLastSyncTime", "last_sync_time">>, <<"kKeyTimeOffset", "time_offset">>,
   <<"kKeyTimeSyncType", "time_sync_type">>, <<"kKeyStatusCode", "status_code">>,
   <<"kKeyLidarDiagStatus", "lidar_diag_status">>,
   <<"kKeyLidarFlashStatus", "lidar_flash_status">>, <<"kKeyFwType", "fw_type">>,
   <<"kKeyHmsCode", "hms_code">>, <<"kKeyRoiMode", "ROI_Mode">>}

\* The name a member gets in the text, where it gets another one.
ConfigName(member) ==
  CASE member = "host_state_info" -> "state_info_host_ipcfg"
    [] member = "pointcloud_host_ipcfg" -> "ponitcloud_host_ipcfg"
    [] OTHER -> member

StatusName(member) == IF member = "fw_type" THEN "FW_TYPE" ELSE member

NamesOf(key) ==
  {ConfigName(p[2]) : p \in {q \in ConfigFields : q[1] = key}}
  \cup {StatusName(p[2]) : p \in {q \in StatusFields : q[1] = key}}

\* LivoxLidarStateInfoToJson of what ParseStateInfo reads: keys it does not know
\* are skipped.
Parse(values) ==
  LET names == [k \in DOMAIN values |-> NamesOf(k)]
  IN [n \in UNION {names[k] : k \in DOMAIN values} |->
        values[CHOOSE k \in DOMAIN values : n \in names[k]]]
-----------------------------------------------------------------------------
\* A key that no call has written.
Factory == [by |-> 0, value |-> <<>>]

\* A key the parser does not know is pushed with those the application writes.
KeysOf(calling) ==
  {"kKeyCurGlassHeatState"} \cup UNION {Writes(calling[i].fn) : i \in DOMAIN calling}

CommandInit ==
  /\ \E p \in Programs : program = p.calls /\ lidarType = p.type
  /\ sdk = FALSE /\ sessions = 0 /\ found = FALSE
  /\ lastSeq = 1 /\ calls = <<>> /\ pending = {} /\ results = <<>> /\ readings = <<>>
  /\ udp = {} /\ settings = [k \in KeysOf(program) |-> Factory] /\ obeyed = <<>>
  /\ reported = <<>> /\ mishaps = 0

\* A number that repeats at once.
ConstantSeq == 1

NextSeq == IF lastSeq = SeqMax THEN 1 ELSE lastSeq + 1

Mishap == mishaps < MaxMishaps /\ mishaps' = mishaps + 1

\* What the thread of a call has to do.  The configuration goes through
\* SendCommand of the device's handler alone.
StepsOf(fn) ==
  CASE fn = "UpdateLidarCfg" -> <<"add", "send">>
    [] fn # "UpdateLidarCfg" /\ lidarType = "HAP" -> <<"add", "send", "add">>
    [] OTHER -> <<"send", "add">>

Said(i, status) == \E j \in DOMAIN results[i] : results[i][j] = status
-----------------------------------------------------------------------------
(* The application                                                         *)

\* LivoxLidarSdkInit, with a configuration that can be read.
SdkInit ==
  /\ ~sdk /\ sessions < MaxSessions
  /\ sdk' = TRUE /\ sessions' = sessions + 1
  /\ UNCHANGED <<program, lidarType, found, lastSeq, calls, pending, results, readings, udp,
                 keyVars, mishaps>>

\* LivoxLidarSdkUninit, when no call is being made.  Destory declares its own
\* commands_: what is pending stays, and times out in the next session.
SdkUninit ==
  /\ sdk
  /\ \A i \in DOMAIN calls : calls[i].steps = <<>>
  /\ sdk' = FALSE /\ found' = FALSE
  /\ udp' = {d \in udp : d.what = "request"}
  /\ UNCHANGED <<program, sessions, lidarType, lastSeq, calls, pending, results, readings, keyVars,
                 mishaps>>

\* A search answer makes the type of the lidar known.
DetectLidar ==
  /\ sdk /\ ~found
  /\ found' = TRUE
  /\ UNCHANGED <<program, sdk, sessions, lidarType, lastSeq, calls, pending, results, readings,
                 udp, keyVars, mishaps>>

NextCall == program # <<>> /\ program' = Tail(program)

\* A call that is accepted: the lidar is known, and the address can be read.
Call ==
  /\ NextCall
  /\ sdk /\ found
  /\ LET call  == Head(program)
         value == IF TakesAddress(call.fn) THEN IpToU8(call.parts) ELSE <<>>
     IN /\ value # <<>> \/ ~TakesAddress(call.fn)
        /\ calls' = Append(calls, [fn |-> call.fn, value |-> value, seq |-> NextSeq,
                                   steps |-> StepsOf(call.fn),
                                   after |-> {i \in DOMAIN calls : Said(i, "ok")}])
  /\ lastSeq' = NextSeq
  /\ results' = Append(results, <<>>)
  /\ readings' = Append(readings, <<>>)
  /\ UNCHANGED <<session, pending, udp, keyVars, mishaps>>

\* One that is refused.  SendCommand to a lidar that is not known uses up a
\* number; a reset, a query of all keys and a wrong address do not get there.
CallRefused ==
  /\ NextCall
  /\ LET call == Head(program)
         bad  == TakesAddress(call.fn) /\ IpToU8(call.parts) = <<>>
     IN /\ ~found \/ bad
        /\ lastSeq' = IF bad \/ call.fn \in {"QueryLivoxLidarInternalInfo", "LivoxLidarRequestReset"}
                      THEN lastSeq ELSE NextSeq
  /\ UNCHANGED <<session, calls, pending, results, readings, udp, keyVars, mishaps>>
-----------------------------------------------------------------------------
(* The threads of the calls, and those of the SDK                          *)

NextStep(i, name) ==
  /\ calls[i].steps # <<>> /\ Head(calls[i].steps) = name
  /\ calls' = [calls EXCEPT ![i].steps = Tail(@)]

CallsBack(i, status) == results' = [results EXCEPT ![i] = Append(@, status)]

SendRequest(i) ==
  /\ NextStep(i, "send")
  /\ \/ udp' = udp \cup {[what |-> "request", call |-> i]} /\ UNCHANGED <<results, mishaps>>
     \/ CallsBack(i, "unsent") /\ Mishap /\ UNCHANGED udp
  /\ UNCHANGED <<program, session, lastSeq, pending, readings, keyVars>>

\* A command with the same number is replaced.
Register(i) ==
  /\ NextStep(i, "add")
  /\ pending' = {j \in pending : calls[j].seq # calls[i].seq} \cup {i}
  /\ UNCHANGED <<program, session, lastSeq, results, readings, udp, keyVars, mishaps>>

\* The answer belongs to whatever waits under its number; if nothing does, it is
\* dropped.
HandleAck ==
  /\ sdk
  /\ \E d \in udp :
       /\ d.what = "answer"
       /\ udp' = udp \ {d}
       /\ \/ /\ \A i \in pending : calls[i].seq # d.seq
             /\ UNCHANGED <<pending, results, readings>>
          \/ \E i \in pending :
               /\ calls[i].seq = d.seq
               /\ pending' = pending \ {i}
               /\ CallsBack(i, d.status)
               /\ readings' = [readings EXCEPT ![i] = d.values]
  /\ UNCHANGED <<program, session, lastSeq, calls, keyVars, mishaps>>

CommandTimesOut ==
  /\ sdk
  /\ \E i \in pending :
       /\ pending' = pending \ {i}
       /\ CallsBack(i, "timeout")
  /\ UNCHANGED <<program, session, lastSeq, calls, readings, udp, keyVars, mishaps>>

\* OnCommandCmd and PushLivoxLidarInfo, when the lidar pushes its keys (it is not
\* modelled that a push is under way for a time): of a lidar that is not known
\* nothing is told, and of a push that ends too early an empty text.
HandlePush ==
  /\ sdk /\ found
  /\ reported' \in {Parse(settings), <<>>}
  /\ UNCHANGED <<program, session, lastSeq, calls, pending, results, readings, udp, settings,
                 obeyed, mishaps>>
-----------------------------------------------------------------------------
(* The lidar and the network                                               *)

\* The lidar obeys or refuses.
LidarObeys ==
  \E d \in udp, obeys \in BOOLEAN :
    /\ d.what = "request"
    /\ LET i == d.call
           c == calls[i]
           new == [k \in DOMAIN settings |-> IF obeys /\ k \in Writes(c.fn)
                                             THEN [by |-> i, value |-> c.value] ELSE settings[k]]
       IN /\ settings' = new
          /\ obeyed' = IF obeys THEN Append(obeyed, i) ELSE obeyed
          /\ udp' = (udp \ {d}) \cup
               {[what |-> "answer", seq |-> c.seq, status |-> IF obeys THEN "ok" ELSE "refused",
                 values |-> IF obeys THEN [k \in DOMAIN settings \cap Asks(c.fn) |-> new[k]]
                            ELSE <<>>]}
    /\ IF obeys THEN UNCHANGED mishaps ELSE Mishap
    /\ UNCHANGED <<program, session, lastSeq, calls, pending, results, readings, reported>>

UdpLoses ==
  /\ \E d \in udp : udp' = udp \ {d}
  /\ Mishap
  /\ UNCHANGED <<program, session, lastSeq, calls, pending, results, readings, keyVars>>
-----------------------------------------------------------------------------
CallStep(i) == SendRequest(i) \/ Register(i)

CommandNext ==
  \/ SdkInit \/ SdkUninit \/ DetectLidar \/ Call \/ CallRefused
  \/ \E i \in DOMAIN calls : CallStep(i)
  \/ HandleAck \/ CommandTimesOut \/ HandlePush
  \/ LidarObeys \/ UdpLoses

CommandSpec == CommandInit /\ [][CommandNext]_commandVars
-----------------------------------------------------------------------------
(* Properties *)

CommandTypeOK ==
  /\ {sdk, found} \subseteq BOOLEAN
  /\ sessions \in 0..MaxSessions
  /\ lidarType \in {"Mid360", "HAP"}
  /\ lastSeq \in 1..SeqMax
  /\ \A i \in DOMAIN calls : calls[i].seq \in 1..SeqMax
  /\ pending \subseteq DOMAIN calls
  /\ results \in Seq(Seq({"ok", "refused", "timeout", "unsent"}))
  /\ DOMAIN results = DOMAIN calls /\ DOMAIN readings = DOMAIN calls
  /\ \A k \in DOMAIN settings :
       settings[k].by \in {0} \cup DOMAIN calls /\ Len(settings[k].value) \in {0, 4}
  /\ obeyed \in Seq(DOMAIN calls)
  /\ mishaps \in 0..MaxMishaps

\* A call that is told "ok" was obeyed by the lidar: an answer that is late, or
\* that overtakes another, is never taken for the answer to another call (as
\* long as no number is used again while it is in use).  And a command that was
\* sent to a Mid-360 calls back once, whether the answer comes before the command
\* is registered, after it timed out, or never.
CallbackIsTrue ==
  \A i \in DOMAIN calls :
    /\ Said(i, "ok") => \E j \in DOMAIN obeyed : obeyed[j] = i
    /\ lidarType = "Mid360" => Len(results[i]) <= IF Said(i, "unsent") THEN 2 ELSE 1

\* What a function is for, by the name the application reads (empty when the
\* parser knows no name for it).
Purpose(fn) ==
  CASE fn \in {"EnableLivoxLidarImuData", "DisableLivoxLidarImuData", PclImu} -> {"imu_data_en"}
    [] fn = "SetLivoxLidarPclDataType" -> {"pcl_data_type"}
    [] fn = "SetLivoxLidarScanPattern" -> {"pattern_mode"}
    [] fn = "SetLivoxLidarDualEmit" -> {"dual_emit_en"}
    [] fn \in {"EnableLivoxLidarPointSend", "DisableLivoxLidarPointSend"} -> {"point_send_en"}
    [] fn = "SetLivoxLidarIp" -> {"lidar_ipcfg"}
    [] fn = "SetLivoxLidarStateInfoHostIPCfg" -> {"state_info_host_ipcfg"}
    [] fn = "SetLivoxLidarPointDataHostIPCfg" -> {"ponitcloud_host_ipcfg"}
    [] fn = "SetLivoxLidarImuDataHostIPCfg" -> {"imu_host_ipcfg"}
    [] fn = "UpdateLidarCfg" ->
         {"state_info_host_ipcfg", "ponitcloud_host_ipcfg", "imu_host_ipcfg"}
    [] fn = "SetLivoxLidarInstallAttitude" -> {"install_attitude"}
    [] fn = "SetLivoxLidarFovCfg0" -> {"fov_cfg0"}
    [] fn = "SetLivoxLidarFovCfg1" -> {"fov_cfg1"}
    [] fn \in {"EnableLivoxLidarFov", "DisableLivoxLidarFov"} -> {"fov_cfg_en"}
    [] fn = "SetLivoxLidarDetectMode" -> {"detect_mode"}
    [] fn = "SetLivoxLidarFuncIOCfg" -> {"func_io_cfg"}
    [] fn = "SetLivoxLidarBlindSpot" -> {"blind_spot_set"}
    [] fn = "SetLivoxLidarWorkMode" -> {"work_tgt_mode"}
    [] fn \in {"EnableLivoxLidarGlassHeat", "DisableLivoxLidarGlassHeat", "SetLivoxLidarGlassHeat"} ->
         {"glass_heat"}
    [] fn \in {"EnableLivoxLidarFusaFunciont", "DisableLivoxLidarFusaFunciont"} -> {"fusa_en"}
    [] OTHER -> {}

\* What the application is told of a setting was set by a call for that setting,
\* with that value: no function writes the key of another, and no key is copied
\* to the member or the name of another.  And what was set and acknowledged
\* before a query is what the query reads, or what was obeyed later.
SettingsReadBack ==
  /\ \A n \in DOMAIN reported :
       reported[n].by # 0 =>
         /\ n \in Purpose(calls[reported[n].by].fn)
         /\ reported[n].value = calls[reported[n].by].value
  /\ \A q \in DOMAIN calls : \A k \in DOMAIN readings[q] :
       \A i \in {j \in calls[q].after : k \in Writes(calls[j].fn)} :
         \E a, b \in DOMAIN obeyed :
           a <= b /\ obeyed[a] = i /\ obeyed[b] = readings[q][k].by
=============================================================================
