# Verification of RM_radar_Cpp_2027

TLA+ models, TLC runs and TLAPS proofs for the RoboMaster radar station in this
repository. The modules are translated from the source under `src/src/`; the
line ranges each definition stands for are in `PROJECT.json`, "map".

## The system

The station is a set of ROS 2 nodes that exchange messages.

| Component | Source | State it keeps | Operations | What makes it correct |
|---|---|---|---|---|
| Livox SDK and driver, connection | `Livox-SDK2/sdk_core`, `livox_ros_driver2/src/call_back` | `devices_`, `commands_`, `set_bits`, `connect_state` | search answers, answers and timeouts of commands, the driver's callbacks | a lidar that is found samples in the end, and not before it answered every option |
| Livox SDK, start and stop | `livox_lidar_sdk.cpp`, `parse_cfg_file.cpp`, `params_check.cpp`, `device_manager.cpp` | the lists and maps of configurations, `channel_info_`, the sockets, the IO loops, the search thread | `LivoxLidarSdkInit` with a file, `LivoxLidarSdkUninit`, lidars added when they are heard, failures half-way | every port has a socket and a listener, a stop leaves nothing open |
| Livox SDK, control interface | `command_impl.cpp`, the command handlers, `parse_lidar_state_info.cpp` | `commands_`, the running number `seq`, the keys of the lidar | the functions of `livox_lidar_api.h`, answers, timeouts, pushes | a callback tells what became of its own call; a setting is read back as it was written |
| Livox SDK, firmware upgrade | `sdk_core/upgrade` | `fsm_state_`, `read_offset_`, `try_count_` | `UpgradeLivoxLidars`, the events, five callbacks, the destructor | an outcome is final, and success means every piece arrived |
| Livox SDK, log files | `sdk_core/logger_handler` | `queue_`, `current_files_`, the files and their hidden names | packets, the writing thread, the cleaning, `Destory` | a file that has its name is whole, cleaning spares the file in work |
| Livox driver, points | `livox_ros_driver2/src/comm`, `lds.cpp`, `lddc.cpp` | packet queue, ring of frames, semaphore | data callback, `RawDataProcess`, poll thread, destructor | frames in order, no standstill |
| lidar | `hnurm_radar/src/lidar.cpp` | `pcd_queue_` (10 frames), `accumulated_clouds_`, `other_accumulated_clouds_` (3 each) | `callback` (filter, TF, split, background, accumulate, publish), `publishRawLoop` at 100 Hz | targets that left are forgotten; raw and target clouds belong together |
| detect | `detect.cpp`, `tracker.cpp`, `infer.cu` | three queues with mutex and condition variable, tracker, `track_histories_` | camera callbacks, `decode_worker`, `process_loop`, `display_loop`, destructor | the newest frame is processed, results never go back in time, shutdown ends |
| camera | `hik_camera_node.cpp` | shared memory segment `/hik_camera` | create, write frame, unlink | a reader sees whole frames, and survives a restart |
| radar, ground | `radar.cpp` | `KFs_`, `last_known_locs_` | `detectCb`, `pcdCb`, `otherCb` | tracks expire, identities are what the camera said, lost cars are reported |
| radar, drones | `radar.cpp` | `KFs_air_`, `air_color_cache_` | `otherCb`, `appendAirLocations` (also from `pcdCb`) | drones expire, a drone keeps its side |
| registration | `registration/src/registration_node.cpp` | initial pose, Quatro and GICP flags, accumulated cloud, the transform | cloud callback, `/initialpose`, 2 s and 10 ms timers, `reset` | a transform is sent only when there is one, and is the last result; the flags of the guess agree with it |
| judge_messager | `judge_messager.cpp` | `latest_`, sequence number | `cb`, 150 ms `loop` | what is sent is what the radar last said |
| sentry_decision | `sentry_decision.cpp` | last publication, last target, own speed | `cb` | targets stay on the field and do not jitter |
| ai_decision | `ai_decision.cpp` | window of 128 states | `locCb` | indices stay in their tables |
| display_panel | `display_panel.cpp` | last message per topic | callbacks, draw loop | - |
| web UI | `radar_web_ui/web_ui_node.py`, `web/app.js` | snapshot, generation counter, wave history, HTTP clients | topic callbacks, HTTP and SSE handlers | clients see every generation once, histories keep what arrived |

They interact by topics: the driver sends `livox/lidar` to `lidar`; `lidar`
sends `target_pointcloud` and `livox/lidar_other` to `radar` and `lidar_pcds` to
`registration`; `registration` sends the transform `map` to `livox_frame` that
`lidar` and `radar` look up; `hik_camera` hands frames to `detect` through
shared memory (or a bag does, compressed); `detect` sends `detect_result` to
`radar`; `radar` sends `location` to `judge_messager` (serial line to the
referee system), `sentry_decision`, `ai_decision`, `display_panel` and the web
UI.

### Concurrency

`radar`, `lidar`, `judge_messager`, `sentry_decision` and `ai_decision` call
`rclcpp::spin`: one thread runs all callbacks of the node, one after the other.
`registration` and the web UI have a multi-threaded executor, but all their
callbacks are in the default, mutually exclusive group. Real threads beside the
executor exist in `detect` (up to four), `lidar` (`publishRawLoop`),
`judge_messager`, `display_panel`, `hik_camera` and in the HTTP server of the
web UI; `hik_camera` and `detect` also share memory between two processes. The
lidar driver runs three IO loops of the SDK (search, commands, data), a thread
that collects points and one that publishes them.

### Where it is hard

The hazards in `PROJECT.json` give the line of each. In short: identities are
elected from windows of camera votes that arrive between lidar frames; tracks
expire, are saved, purged and published within one callback that two topics
trigger in any order; a cache is keyed by addresses that move; accumulated
clouds are sent again when nothing new arrives; queues between threads drop
frames at different ends and are shut down through condition variables;
processes share memory without a lock; the lidar's driver shares a ring of frames
without one and configures the device through callbacks of three threads; its
commands are sent before they are registered, in one table that outlives the
session; an upgrade is a chain of callbacks that a destructor watches by polling;
a log file is written, renamed and deleted by different threads; the
lidar node waits for the registration and the registration for the lidar node;
a browser follows a server that may be killed; and registration is a state machine
spread over two timers, two subscriptions and eight flags.

## Modules

```
Votes              pure: windows of votes, the elected team and number, car ids
  RadarTracks      EXTENDS Votes: ground tracks, last known positions, messages
    MCRadarTracks  instance for TLC
    RadarTracksProofs  the elections and the tracks
AirTracks          drone tracks, vector slots, the cache of sides
  MCAirTracks      instance for TLC
  AirTracksProofs
LatestFrame        abstract: frames published and shown in order, at most once
  DetectPipeline   threads, queues, shutdown of the detect node; implements it
    DetectPipelineProofs
Registration       guess, Quatro bootstrap, small_gicp, the repeated transform
  MCRegistration   instances for TLC
  RegistrationProofs
LivoxConnect       the lidar is found, asked, configured and set to work
LivoxUpgrade       the upgrade of the firmware
IpAddress          pure: how an address in text is read
  LivoxStart       EXTENDS IpAddress: the file, the sockets, start and stop
  LivoxCommands    EXTENDS IpAddress: the functions of the SDK, their requests,
                   answers and keys
LivoxLogger        the log files
LivoxDriver        packets, the ring of frames, the semaphore, the poll thread
  LidarNode        EXTENDS LivoxDriver: frames kept, accumulated, published;
                   the whole way implements LatestFrame
HikCamera          shared memory between the camera node and the detect node
Sensors            composes LivoxConnect, LidarNode, HikCamera, LivoxCommands,
                   LivoxUpgrade, LivoxLogger and LivoxStart
  MCSensors        instance for TLC
  LivoxConnectProofs   LivoxConnect, LivoxUpgrade, LivoxStart
  LivoxCommandsProofs  LivoxCommands, LivoxLogger
  SensorsProofs        LidarNode, HikCamera, Sensors
CarTracks          car boxes, ids, and the histories that label them
Location           the messages on the topic location, and their publisher
  JudgeMessager    EXTENDS Location: what the referee system is told
  Decisions        EXTENDS Location: sentry_decision and ai_decision
    DisplayPanel   EXTENDS Decisions: the operator's window
WebUi              aggregate, generation, server-sent events, the page
Outputs            composes CarTracks, JudgeMessager, DisplayPanel and WebUi
  MCOutputs        instance for TLC
  OutputsProofs    all five
```

### Votes

`detect_history` is a sequence of pairs <<team, number>>; `parseLabel` lets only
known teams and listed numbers through, so a vote is a member of `Vote`.
`getColor`, `getNumber`, `Push` and `CarId` are the functions of the same name
(`labelToCarId` for `CarId`). `getNumber`'s loop over a `std::map` becomes "the
most voted number of the winning team, the smallest on a tie", which is what an
ascending loop with a strict comparison yields.

### RadarTracks

| Code | Model |
|---|---|
| `KFs_`, a vector | `KFs`, a function from birth numbers to tracks: elements are appended at the end and erasing keeps the order, so birth order is vector order |
| `predict_point`, last point of `history`, `dt_`, `last_time`, `hits`, `detect_history` | `pos`, `seen`, `dt`, `idle`, `hits`, `votes` |
| `timer` of each track | `gap`: all tracks are predicted together, so the time since the last predict is one number |
| `last_known_locs_` | `lastKnown`, entries with the track they came from, the negated id and an age |
| the message | `sent`: which track is published under which id, and which entries follow |
| `detectCb` | `DetectCb`, one robot per step |
| `pcdCb` | `PcdPredict`, then `PcdCreate` or `PcdUpdate` per cluster centre, then `PcdFinish`; `busy` keeps all other callbacks out |
| `otherCb`, ground part | `OtherCb` |
| time | `Tick`, which runs between callbacks only |

The Kalman filter is abstracted to what the control depends on: `KF.predict()`
carries the estimate by a drift from a set, `KF.correct()` leaves it between
prediction and measurement. Positions are integers on a line; the match radius,
its cap on `dt_` and the 0.3 s limit are kept. Clamping of published positions
changes no decision and is left out, as are `detect_cache_` (written, never
read) and `printStats` (reads only). An empty cloud returns at once and changes
nothing.

### AirTracks

The same tracks without votes, but here the vector is a sequence, because the
address of an element matters: slot `<<block, i>>`. `push_back` beyond the
capacity doubles it and moves to any other block (one freed earlier may come
back), an erase moves the tracks behind it. `cache` is `air_color_cache_`.
`shown` is a history variable: the side and slot each live track was last
published with. `OtherFinish` and `PcdCb` run `appendAirLocations`
(`CacheAfter`, `ShownAfter`). The loop of `otherCb` that erases backwards is
there round by round: `OtherErase` sets its index `at` to the end of the vector,
each `EraseStep` looks at one track, erases it and the entry of its address if it
expired (`Erase`), and moves the index by one.

### DetectPipeline

| Code | Model |
|---|---|
| camera callback, `hik_worker`, `decode_worker`, `process_loop`, `display_loop` | `CompressedCallback`, `ImageCallback`, and one program counter `pc[t]` per thread |
| the three deques | `queue[t]` by the thread that reads them; a frame is its number in the order of arrival |
| `cv.wait(lock, pred)` | `Check` evaluates the predicate, `Block` sleeps, `WakeSpuriously` is the library's licence. Between `Check` and `Block` the mutex is held, so pushes wait (`Free`), but the destructor, which sets the flag and notifies without the mutex, does not |
| `wait_for(lock, 2ms)` | `Take`: stays until a frame is there or goes round the loop |
| `rclcpp::ok()`, end of `spin` | `Signal`, then `SpinReturns`; callbacks may still end in between |
| `~DetectorNode` | `DtorStop`, `DtorNotify`, `DtorJoin` for hik, decode, process and display in that order |

The model reproduces that the destructor can wait for ever: a decode or display
thread that has just found its queue empty and goes to sleep after
`notify_all` is not woken again, and spurious wake-ups are not promised. No text
in the repository says that shutdown ends, so no run states it as a finding;
`ShutdownEnds` names that moment (`NotifiedTooEarly`) and states the rest: nothing
else keeps the destructor from its end. Because
the system may really stop there (and does after the destructor), the run does
not check for deadlock.

`LatestFrame` is what users of `detect_result` and `detect_view` rely on. Its
variables are `captured`, `published` and `shown` of the detailed module.

### Registration

| Code | Model |
|---|---|
| the parameters `use_fixed_`, `use_quatro_`, `use_config_initial_pose_`, `prefer_config_initial_pose_` | `mode`, chosen from `Modes` at the start |
| `getInitialPose_`, `doFirstRegistration_`, `get_first_tf_from_quatro_`, `using_config_initial_guess_` | `node.gotPose`, `first`, `quatroDone`, `usingConfig` |
| `initial_guess_`, `pre_result_`, `transform`, `accumulation_counter_`, the global `fail_counter` | `guess`, `pre`, `transform`, `counter`, `fails` |
| `source_cloud_` | the number of `scans` in it and its `frame`, which `clear()` leaves alone |
| `sendTransform` | `tf`: the transform last sent, and whether Quatro, the 2 s or the 10 ms timer sent it |
| `pointcloud_sub_callback`, `initial_pose_callback`, `timer_callback`, `timer_pub_tf_callback` | `CloudCb`, `InitialPoseCb`, `TimerCb`, `TimerPubTf` |

A pose is a number, so that the jump of the first result from its guess is a
difference. What Quatro and small_gicp yield, and whether they converge, is
arbitrary. The map is taken to be loaded (`cloud_`): without it both timers do
nothing. The node has a multi-threaded executor but one mutually exclusive
callback group, so a callback is one step. `by` in a transform and the variable
`streak` belong to the properties: where a pose came from, and how many
registrations failed in a row. The model shows two more things that contradict
no text strongly enough for a run of their own: after a failed Quatro attempt
the next one aligns six scans, since the cloud is kept; and an operator's pose
is ignored as long as the node runs from a preferred configured pose.

### LivoxConnect

| Code | Model |
|---|---|
| `commands_` of the two command handlers | `commands`, by kind and sequence number |
| datagrams between host and lidar | `net`, a set: lost by `Lose`, answered by `LidarAnswers`, in any order |
| the three IO loops | `todo[t]`: what thread t has yet to do, the calls inside a callback first |
| `SendCommand`, which sends and then registers | `SendOk` puts the datagram into `net`, `AddCommand` registers it; `SendFails` is `sendto` returning an error, whose callback runs before the command is registered all the same |
| `Mid360CommandHandler::SendCommand` with a port, which registers first | `DetectionData`, then `PutCfg` |
| `Handler`, `CommandsHandle` | `Handler`: an answer to a command that is not registered is dropped; `CommandsHandle`: a timeout, by any of the threads |
| `QueryFwTypeCallback`, `UpdateLidarCallback`, the callbacks of `livox_lidar_callback.cpp` | the operators of these names, `OptionCallback` for the four of the options |
| `config_mutex_`, `set_bits` | `holder`, `setBits`; `Lock`, `SendOk`, `Unlock`, `ClearBit` |

`is_view_` is off, as in this driver. A callback that is given
neither success nor a timeout reads a response that is a null pointer:
`crashed`. The install attitude and the IMU switch are sent and nobody waits for
their answers, so they are left out.

### LivoxDriver and LidarNode

`slot`, `wr_idx`, `rd_idx` are the ring of `ldq.cpp`; storing a frame and raising
the index are two steps of the writer (`StoreFrame`, `BumpWriteIndex`), copying a
slot and raising the other index two of the reader (`Drain`, `QueuePopUpdate`).
`Distribute`, `Wait`, `Poll`, `PollingLidarPointCloudData` are the nested loops of
`lddc.cpp`; the semaphore holds `count`, and `SignalReader` the look at it without
its mutex. A frame is the number of its newest packet. `LidarNode` adds
`pcd_queue_` (`pcd_queue`), `accumulated_clouds_` (`accumulated`), what was
published last (`targets`) and what the registration was sent last (`sent`);
`PointCloudCallback` is the whole callback, `PublishRaw` one round of
`publishRawLoop`. Of the registration node the way to its first transform is here,
as one `RegistrationStep` after another once it was sent a cloud: it takes the
configured pose (`TakeConfigPose`) and its next timer sends a transform
(`TimerCb`), or it waits for a pose of the operator (`InitialPoseCb`), counts three
scans (`CountScan`) and has Quatro align them, which fails and starts again
(`QuatroFails`) or sends a transform (`QuatroAligns`). `pose` and `scans` say how
far it is. What it does from then on is `Registration`.

### HikCamera

| Code | Model |
|---|---|
| the name `/hik_camera` and the segments it denoted | `name`, `seg[c]`, one per start of the camera |
| `shm_unlink`, `shm_open`, `ftruncate`, the header | `Unlink`, `Create`, `Truncate`, `InitHeader` |
| `write_shared_memory` | `WriteRow` twice, then `BumpIndex` |
| `init_hik_shared_memory`, which maps the header and then, by name again, the image | `OpenHeader`, `ReadWidth`, `OpenImage` |
| `hik_worker` | `HikWorker`, `CopyRow` twice, `PushImage` |
| SIGTERM, SIGKILL and a new start of the camera | `StopCamera`, `KillCamera`, `StartCamera` |

An access behind the end of the file kills the detect node (`"killed"`), a header
that is not written leaves it without images for good (`"null"`).

### LivoxCommands

| Code | Model |
|---|---|
| `commands_` of `GeneralCommandHandler` | `pending`, the calls that wait; a command replaces one that waits under the same number |
| `GenerateSeq`, 16 bits | `lastSeq`, `NextSeq`: after `SeqMax` comes 1 |
| the threads that call and the steps they take | `calls[i].steps` (`StepsOf`): the Mid-360 handler sends and is then registered, a call on a HAP is registered, sent and registered again |
| `LivoxLidarSdkInit`, `LivoxLidarSdkUninit` | `SdkInit`, `SdkUninit`, which leaves `pending` alone: `Destory` clears a local map it declares itself |
| `CommandImpl`, which makes a list of keys of each call | `KeyTable`, `Writes`, `Asks` |
| the check of an address | `IpToU8`: four numbers, 256 passes and becomes 0 |
| `Handler`, `CommandsHandle` | `HandleAck`, `CommandTimesOut` |
| `ParseStateInfo` and the text made of it | `ConfigFields`, `StatusFields`, `NamesOf`, `Parse` |

A request is the call it came from, a value the address it writes. The lidar
(`LidarObeys`) obeys or refuses, in any order. Which call wrote a key stands with
the key (`settings`), so that what the application reads back can be compared
with what it asked for. A command that cannot be sent calls back twice, once at
once and once at its timeout; on a HAP the second registration can call back
after an answer too. `CallbackIsTrue` says how far that goes.

### LivoxUpgrade

| Code | Model |
|---|---|
| `upgrade_event_table` | `InTable`, `FsmEventHandler`: an event is taken in its own state and the one before |
| `StartUpgrade`, `XferFirmware`, `CompleteXferFirmware`, `GetUpgradeProgress`, the restart | the events `Request` to `Complete`, whose command `Post` puts into `waiting` |
| their five callbacks | `Succeeds`, `Answers` (busy, or an error of the lidar), `Fails` (no answer; counts `try_count` up to its limit) |
| `upgrade_thread_`, the polling destructor, `join` | `UpgradeThread`, `PollOutcome`, `Join`, and `caller` for where the destructor is |

A command that cannot be sent calls back at once and again when it times out: two
chains of events then run in one upgrader. `forked` says so and the properties
except it, for with two chains neither holds. `"early"` is the destructor that
looks before the thread has begun and takes the idle state for success.

### LivoxLogger

| Code | Model |
|---|---|
| `queue_`, and the queue `Write` swaps it with | `queue_`, `batch` |
| `current_files_` of the type | `file` |
| the directory | `disk`, from names to the packets written; a name has a second, an index, and is hidden while it is written |
| `CreateFile`, `WriteFile`, `StopFile` | the same names |
| `CycleDelete`, with `GetFileNames` | `CycleDelete`, `FilesToDelete`: the oldest go, the order within a second is open |
| `LoggerManager::Destory`, `LoggerHandler::Destory` | the stages of `logging`: the cleaning thread, then the handlers, then the names |

An old packet (`Stale`) makes the writing loop `continue` without removing it:
the thread looks at it for ever (`Spins`). A lidar that was never detected and
sends the start of a log makes the process read a handler that is not there
(`"crashed"`).

### LivoxStart

| Code | Model |
|---|---|
| the JSON file | a record, as the parser would find it: `"wrong"` for a member of another type, `"none"` for one that is missing |
| `ParseCfgFile`, `ParamsCheck` | `Parses`, `Checks`, and `Checked`, which gives each Mid-360 the ports it has |
| `lidars_cfg_ptr_`, `custom_lidars_cfg_ptr_`, the maps by type and by address | `byType`, `customs`, `byIp` |
| `channel_info_`, `custom_command_channel_`, `socket_vec_` with `vec_broadcast_socket_` | `channel`, `command`, `kept` |
| sockets and IO loops | `opened`, `open`, `heard`: a new start makes new loops, which hear only what is added to them |
| `CreateChannel` and the loop at the end of `OnData` | `toOpen[who]`, the sockets the application's thread and the thread that heard a lidar have yet to look after; `Pass`, `OpenSocket`, `SocketRefused` take one at a time |
| `detection_thread_`, `is_stop_detection_` | `search`, `stop`; `StartSearch` creates the thread, `StoreStop` clears the flag after it |
| `cycle_delete_thread_`, `is_destroy_` of `LoggerManager` | `cleaner`, `stopped` |
| `LivoxLidarSdkUninit` | `SdkStop`, which waits, and `SdkStopped` |

Four things the code does are in the model and outside the promises, since
nothing prevents them. A start that fails leaves its sockets behind: the next
one finds them in `channel_info_`, does not open them again, and its loops never
poll them (`failed`). A thread that hears a lidar while the SDK stops goes
through a list that the stop frees (`broken`), or opens sockets that nobody
closes (`strays`). A start with logs that finds the cleaning thread of another
one (`cleaner`) destroys it while it runs, which ends the process (`broken`
too): a start that failed leaves that thread, and so does every stop after the
first, as `LoggerManager::Destory` then returns at once. And after a stop the
flag is still set when the next start creates the search thread: if that reads
it before `StoreStop`, the search ends at once (`stopped`).

### CarTracks

`ProcessFrame` is one frame through `ObjectTracker::update` and the part of
`process_frame` that keeps histories. A box is a place on a line; overlapping
boxes are those at most one place apart, and a closer one overlaps more, so
`Matchings` (the outcomes of sorting by IoU and taking pairs greedily) has ties,
in which the order of the sort decides. `tracks` and `track_histories` are the
two tables, which forget by rules of their own. `Observation` carries the frame
it was made in, which the program does not keep; only the properties read it.

### Location, JudgeMessager, Decisions, DisplayPanel

`Location` publishes messages, each a sequence of ids; a place is the number of
the message that told it and the index of its entry. `JudgeMessager` takes
`latest_` once per round (`CopyLatest`) and builds two frames from it and a third
without data. `Decisions` holds the throttle and the hysteresis of
`sentry_decision` and the window of `ai_decision`. `DisplayPanel` keeps three
messages behind three mutexes and copies them one after the other. Coordinates
and what is drawn are left out.

### WebUi

`web` and `generation` are the aggregate and its counter, `storing` the time
between storing a wave and announcing it, `sse` the thread of `/api/events` with
the snapshot it took and the generation it sent last, `browser` what the page
shows and of which server. A page that lost its connection connects again with
generation 0, as `app.js` does.

### Sensors and Outputs

A behaviour of `Sensors` is one of `LivoxConnect`, of `LidarNode`, of
`HikCamera`, of `LivoxCommands`, of `LivoxUpgrade`, of `LivoxLogger` or of
`LivoxStart` (`path`), one of `Outputs` is one of `CarTracks`, `JudgeMessager`,
the window (`Decisions` and `DisplayPanel` together) or `WebUi`: the paths share
nothing but `connected`, which is `sampling` of the connection and which
`LidarNode` lets become true at any moment, and the messages of `location`, whose
subscribers do not influence each other. Interleaving paths that do not interact
would multiply the states and show nothing. That each path is a behaviour of its
component is proved (`PathsAreComponents`), and so is what follows from it.

## Runs

| Run | Result | Shows |
|---|---|---|
| `radar_tracks` | passes, 560 850 states | type invariant; no track is older than `delete_time` when `pcdCb` returned (`NoGhostTrack`); a published id was voted for (`PublishedIdWasVoted`); a last known position is never that of a live track (`LostMeansErased`); an identified track never disappears unreported (`NoSilentLoss`); a lead of three votes survives one vote (`NoSingleVoteFlip`) |
| `radar_liveness` | passes | neither a track nor the memory of one stays for ever (`TracksEnd`): lost tracks are erased (`GhostsDie`), lost positions forgotten (`LostExpires`) |
| `radar_one_entry` | violated | `docs/KNOWN_ISSUES.md:26`: each target once per message |
| `radar_filter` | violated | `docs/PROJECT_ANALYSIS.md:20`: only enemies and the own sentry |
| `air_tracks` | passes, 1 977 271 states | type invariant with slots inside the capacity; the loop that erases steps over no expired drone (`NoGhostDrone`); same slot, same side (`SameSlotSameSide`) |
| `detect_pipeline` | passes, 224 279 states | the pipeline implements `LatestFrame` (`LatestSpec`); the newest frame is never among those dropped (`NewestIsPublished`); nobody sleeps on a queue with a frame in it (`NoLostWakeup`); the destructor comes to its end, unless it notifies a thread that is about to sleep (`ShutdownEnds`); the destructor outlasts every thread (`NoThreadOutlivesNode`); type invariant with the bound of the display queue |
| `air_hysteresis` | violated | `README.md:132`: hysteresis per track |
| `registration` | passes, 8 082 states | type invariant; the flags of the bootstrap agree with the guess (`FlagsAgree`: that of the configured guess never outlives it, a running registration is never handed back to Quatro, the bootstrap can always take another scan); a registered node repeats its last result (`TfIsLatest`); without a preferred configuration the 10 ms timer repeats computed poses only (`FastTfWasComputed`) |
| `sensors` | passes, 293 761 states | type invariant; a lidar samples only when every option was answered, and a bit that is set can still be cleared (`BitsAreTrue`); a lidar that was found samples and works in the end, or the process crashed (`LidarConnects`); the way of the points implements `LatestFrame` (`CloudsInOrder`); a frame stored or dropped gets the ring emptied (`NoCloudStuck`); lidar node and registration do not wait for each other (`RegistrationStarts`); an image is not older than the index it was found by and is of one camera (`ImageIsSound`), and a torn one is followed by another (`LastImageIsWhole`); a call that is told "ok" was obeyed, and a call on a Mid-360 is called back once (`CallbackIsTrue`); what the application is told of a setting was written by a call for that setting, and a query reads nothing older than what was acknowledged before it (`SettingsReadBack`); after an outcome no callback of the upgrade follows, and success means every piece was acknowledged (`OutcomeIsFinal`); the upgrade's destructor returns, if the lidar is not busy for ever (`UpgradeEnds`); log files hold their own packets, in order unless the file was created again, a file with its name is whole if nothing was repeated, the file in work is not deleted (`LogsAreKept`); a start gives every port of every lidar a socket and a listener and the data of a Mid-360 their handler, a stop leaves nothing open, the search goes on (`StartIsSound`); the logger can be destroyed (`LoggerStops`) |
| `outputs` | passes, 158 654 states | type invariant; the referee's server and the own sentry are told the same (`SentryToldAsServer`); the votes behind a label are of one visit (`VotesAreRecent`); the history of a lost car ages and is not inherited (`DeadHistoriesAge`); window and page show what was published (`ScreensCatchUp`) |
| `reg_named_tf` | violated | `registration_node.cpp:270`: no transform without a child frame |
| `reg_reset` | violated | `docs/PROJECT_ANALYSIS.md:170`: failures in a row reset the node |

Each property of a passing run has a mutated definition in the same module (its
comment says what is wrong with it) under which TLC finds the property violated.

### Bounds

* Two ground tracks: enough for two claimants of one id, for a tie, for one
  track that dies while the other lives, and for two lost entries of one car. A
  third track adds no relation the properties speak of: they relate one track to
  the message, or two entries.
* A window of three votes (two in the liveness run) instead of twenty: a window
  with a majority, with a tie and with an eviction that changes the winner.
  `ElectedWasVoted` is proved for every length.
* Labels `R1` and `BS`, so that a number of the wrong team gives an id no vote
  named, and that the own sentry, an own robot and an enemy occur.
* Two updates per track: "not updated" and "updated", and a strict order of hits.
* Ages are counted to one beyond the threshold they are compared with; nothing
  distinguishes larger ones. Thresholds are one time unit; `VoteAge` is shorter
  than `DeleteTime`, as 1.0 s is than 3.0 s.
* Two places with a match radius that reaches only the own place right after a
  predict and both after a gap.
* Three drones, five places (red side, both halves of the dead zone, blue side,
  outside), two blocks: a vector that grows twice, an erase at the front, in the
  middle and at the end, and a block that comes back. Publication needs two
  hits instead of three. Blocks are symmetric: no action or property names one.
  Drift is towards one end only in the passing run, which every sequence of
  updates can undo.
* Four frames and a display queue of two instead of three: the queue is full with
  a frame in the display's hand and one more to drop, and the process queue
  holds a backlog while a frame is in work. The proofs do without both bounds.
* Four poses, the configured one among them and neither the identity nor at the
  end, and a jump limit of one: results near the configuration on both sides and
  one too far from it. Scans are counted to seven, beyond two Quatro attempts;
  no guard reads the count. All sixteen parameter sets are initial states of
  `registration`; the two violations are shown for the deployed one
  (`default.yaml` with the poses of `main_config.yaml`).

* `sensors`, connection: two options, so that one can be answered before the
  other is set; one fault (a loss, a refusal, a late answer, a failed send) in all,
  `FwLimit` 0 instead of 10, so that the give-up is reached by one; at most two
  configurations under way, a first and its repetition. The safety properties are
  proved for all of these.
* `sensors`, points: a ring of two slots and indices modulo four instead of 16 and
  2^32: full, empty, and a wrap of both indices within four packets. Each limit of
  a queue is one, so that each overflows. One frame is all noise (`Blank`).
* `sensors`, images: two rows, since a copy is torn when two rows differ; two
  starts and two images each.
* `sensors`, calls: every function by itself; pairs that share a row of the table,
  a key or an address; both types of lidar for the configuration and the query of
  all keys. `SeqMax` 2, so that the numbers of two calls are the largest ones and
  wrap (the last number given is 1 at the start); the properties do not hold when
  a number is used again while it waits, which takes 65535 calls within one
  timeout and is out of the model. Two sessions and one mishap: a command that is
  lost, refused or unsent in one session and times out in the next.
* `sensors`, upgrade: two pieces, so that one is not the last; limits of two
  instead of 10 and 30: enough to reach a limit and to fail once before it or after
  it in another state. Answers that the lidar is busy, erases or is not done are
  not counted, in the code or here.
* `sensors`, log: two files of two data packets (four with begin and end) and a
  limit of three packets, so that the first file has to go while the second is
  written; one change of the second (two files with the same one, or not), one
  repeated packet, a queue of two.
* `sensors`, start: four files: a lidar named by its type only; two by their
  addresses, of two types, with ports that have to be put right, a multicast
  address and logs; a slave SDK whose data come on the command port, which a
  later start as master finds open; and one whose start fails early. One lidar
  answers; two starts, so that one follows a stop or a failure; one refused
  socket or loop, at any of them.
* `outputs`, cars: two places that overlap, two boxes (two claimants of one
  track), two hits instead of three and histories of two instead of seven; five
  frames are enough for a track to be confirmed, lost, erased and for its history
  to end. The plates are of one colour in the run; the labels do not enter the
  properties, and the proofs hold for both.
* `outputs`, messages: two that differ in the robots they name, one with
  last known entries; a sequence number modulo four. A window of one message, a
  map published every second time.
* `outputs`, page: one message for each of two topics, one wave, one tick, one
  broken connection or restart: enough for a notification between two snapshots
  and for a restart at every step.

### Fairness

In `radar_liveness`: `WF(PcdPredict)`: the lidar sends frames for
ever (10 Hz, reliable QoS, the executor takes each). `WF(PcdFinish)`: a callback
that started returns. `SF(Tick)`: time passes although each frame interrupts it;
strong because a callback disables it for a moment. Nothing is assumed of the
camera or of drone frames. In `detect_pipeline` each thread and the destructor have
weak fairness: a thread that can run is scheduled. `ProcessStep` has strong
fairness, because the display thread takes and releases the mutex it needs for
its push again and again. Frames, spurious wake-ups, the signal and the return
of `spin` are not fair.

In `sensors` every thread is weakly fair: the SDK's three (`ThreadStep`,
`Handler`, `CommandsHandle`), the writer and the reader of the ring, the lidar
node's callback and its raw loop, the detect node. A lidar that gets a request
answers it, the search repeats (the lidar is asked every second), and the
registration works on what it is sent; faults, packets, the destructor and
everything the camera node does are not fair. The thread of the upgrade, its
callbacks (a command that is sent is answered or times out) and the destructor's
poll and join are weakly fair, and so are the thread that writes logs and each
stage of `Destory`; that someone starts an upgrade or ends the logger is not
assumed, nor anything of the calls, whose properties are about safety. Three
assumptions are on what is outside the code, each needed by one property.
`RegistrationStarts`: an operator gives the pose the registration waits for, if
its parameters make it wait (the deployed ones do not), and Quatro does not fail
for ever (`<>[][~QuatroFails]` while the points flow). `UpgradeEnds`: the lidar
does not for ever answer that it is busy, that it erases, or that it has not
reached 100 percent (`<>[][~AsksAgain]`). The upgrader asks again after each of
these without counting them, and each clears the count of its timeouts; without
the assumption TLC finds a lidar that keeps the destructor polling for ever.
`UpgradeEnds` also excepts a run with two chains (`forked`), `LoggerStops` a
crash and a thread that looks at an old packet for ever (`Spins`). In `outputs`
the callbacks and the drawing thread of the panel are weakly fair, and those of
the web UI, the thread that pushes to the page and the one that announces a wave
it stored; a page that lost its connection opens it again. Publishers, breaks
and restarts are not fair.

## Proofs

`RadarTracksProofs` begins with the elections and `ElectedWasVoted`: for a
window that is not empty, the team `getColor` elects and the number `getNumber`
elects after it stand together in one vote of the window. The chain: a winner by
majority has a positive count, and on a tie the last vote has the winning team,
so the team has a vote (`ColorWasVoted`); that vote's number is a candidate, so
candidates exist; a most voted, least number of a finite set exists
(`FirstOfTheLargest`); and what is chosen is a candidate. It needs that `Number`
is a finite set of naturals.

It goes on, for every value of the constants that satisfies the assumptions of the
modules:

| Theorem | States |
|---|---|
| `Invariance` | `Spec => []IInv` |
| `TypeCorrect` | `Spec => []TypeOK` |
| `NoGhosts` | `Spec => []NoGhostTrack` |
| `LostAreErased` | `Spec => []LostMeansErased` |
| `OnlyVotedIds` | `Spec => []PublishedIdWasVoted` |
| `LossIsReported` | `Spec => NoSilentLoss` |
| `OneVoteIsNotEnough` | `Spec => NoSingleVoteFlip` |

`IInv` is needed because `NoGhostTrack` and `LostMeansErased` are not inductive
without the type of the tracks, and because `PublishedIdWasVoted` speaks of
`sent` and of windows that change: it holds since every step either publishes,
and then from the tracks it leaves, or resets `sent`, or changes no window. Each
action has its own lemma. `OneVoteIsNotEnough` counts: appending a vote changes
each of the two counts by at most one (`AppendCounts`), so does dropping the
oldest (`TailCounts`), a lead of three is at least one after both
(`PushKeepsLead`), and a team that leads by one is elected whatever the last
vote was (`LeadElects`).

`AirTracksProofs` proves for any number of drones, places, blocks and limits:

| Theorem | States |
|---|---|
| `AirInvariance` | `Spec => []AirInv` |
| `AirTypes` | `Spec => []TypeOK` |
| `NoDroneOutlives` | `Spec => []NoGhostDrone` |
| `SlotsKeepTheirSide` | `Spec => SameSlotSameSide` |

`SameSlotSameSide` says of two publications of a drone from one slot what the cache
says of that slot now, and other drones write the cache in between. What carries it
is `Remembers`: the place a drone was last shown at is never in front of the one it
has now, since tracks only move to the front; and if it is the same place, the
entry of that slot still exists and holds the side that was shown. An erase removes
one entry: the tracks behind it move, so nothing is said of them any more, and
those in front keep place and entry (`RemoveKeeps`). `NoGhostDrone` needs
`CleanBehind`: what the loop has passed is not expired. An erase at the index moves
up only tracks it has passed, and the index goes on in front of all of them; at the
front everything has been passed.

`DetectPipelineProofs` proves for any number of frames and any display limit:

| Theorem | States |
|---|---|
| `TypeCorrect` | `Spec => []TypeOK` |
| `ThreadsJoined` | `Spec => []NoThreadOutlivesNode` |
| `ImplementsLatestFrame` | `Spec => LatestSpec` |

The refinement needs an invariant about every place a frame can be: going from
the camera to the screen, `decode_queue_`, the decoder's hand, `process_queue_`
and the process thread's hand hold ever smaller numbers, all above `published`
(`Upstream`); `display_queue_` and the display's hand lie between `shown` and
`published` (`Downstream`). Two lemmas about sequences say what appending a newer
element and removing the first one keep of that (`AppendFacts`, `PopFacts`), and
each action has a lemma. `ThreadsJoined` rests on `ExitedStays` (no step revives
a thread) and on the destructor not passing a thread before it ended.

`RegistrationProofs` proves for every parameter set, set of poses and limit:

| Theorem | States |
|---|---|
| `TypeCorrect` | `Spec => []TypeOK` |
| `FlagAlwaysMatches` | `Spec => []FlagMatchesGuess` |
| `QuatroBootstraps` | `Spec => []QuatroOnlyBootstraps` |
| `BootstrapGoesOn` | `Spec => []BootstrapNotStuck` |
| `FlagsAlwaysAgree` | `Spec => []FlagsAgree`, the three together |
| `RepeatsLatest` | `Spec => []TfIsLatest` |
| `RepeatsComputed` | `Spec => []FastTfWasComputed` |
| `FirstStaysNear` | `Spec => FirstNearConfig` |

Its invariant adds two facts to the properties: with `use_fixed` the timers only
work once a scan has named its frame (`GuessHasFrame`), without which a result
could be sent under no name, and what Quatro leaves in the transform is a
computed pose (`QuatroLeavesResult`), without which the 10 ms timer could repeat
the guess of a failed registration. `FirstStaysNear` needs `FlagMatchesGuess`:
the code measures the jump from `initial_guess_`, the theorem speaks of the
configured pose: a registration begun from the configuration lands near it,
which is proved and not a property of a run.

The theorems about the components of `Sensors` and `Outputs` are about their own
specifications (`ConnectSpec`, `HikSpec`, `JudgeSpec`, ...); the theorems at the
end of `SensorsProofs` and `OutputsProofs` carry them over to the compositions that
the runs check.

`LivoxConnectProofs`, for every set of options, any number of faults and retries,
any firmware and any set of files:

| Theorem | States |
|---|---|
| `ConnectTypes` | `ConnectSpec => []ConnectTypeOK` |
| `SamplingIsConfigured` | `ConnectSpec => []SamplingMeansConfigured` |
| `BitsAreWaitedFor` | `ConnectSpec => []NoOrphanBit` |
| `BitsStayTrue` | `ConnectSpec => []BitsAreTrue`, both together |
| `UpgradeInvariance`, `UpgradeTypes` | `UpgradeSpec => []UpgradeInv`, `[]UpgradeTypeOK` |
| `OutcomeStaysFinal` | `UpgradeSpec => []OutcomeIsFinal` |
| `StartInvariance`, `StartKeepsItsTypes` | `StartSpec => []StartInv`, `[]StartTypeOK` |
| `StartsAreSound` | `StartSpec => []StartIsSound` |

The invariant says what a todo list can look like (`Shape`): between `lock` and
`unlock` stand the options not yet sent, in their order, and the thread that has
them holds the mutex. From that follow `NotBegun` (before the driver is called no
bit is set and no option is under way) or else `AllAsked` (every option is
answered, has its bit set, or is still to be set by the thread that holds the
mutex): when `ClearBit` finds the set empty nobody holds the mutex, so all are
answered. `NoOrphanBit` is carried along as `NoOrphan`, the same over the set of
a thread's steps: each step that takes away the witness for a bit leaves another
or clears it.

For the upgrade the invariant is `OneChain`: without a second chain one command
waits at most, it is the one the state of the machine calls for, and the pieces
received are exactly those before `read_offset` (the one at it too, while its
answer is under way). `CallerWaits` ties what the destructor has seen to the state
it saw.

For the start, `CoverInv` is the heart: every port that a configured lidar needs
has its channel or is still in some thread's list of what to open, also while
two threads work on two lists at once; `ChannelInv` says that channels are open
and, if no start failed, heard; and `OwnerInv` names for every open socket who
will close it. The stop has to close what `OwnerInv` names, and nothing else is
open.

`LivoxCommandsProofs`:

| Theorem | States |
|---|---|
| `CommandTypes` | `CommandSpec => []CommandTypeOK` |
| `NumbersMakeCallbacksTrue` | `CommandSpec /\ [][NoReuse]_commandVars => [](CallbackIsTrue /\ SettingsReadBack)` |
| `CallbacksAreTrue`, `SettingsAreReadBack` | `ShortPrograms => (CommandSpec => []CallbackIsTrue)`, and `[]SettingsReadBack` |
| `LoggerTypes` | `LoggerSpec => []LoggerTypeOK` |
| `FilesAreKept` | `LoggerSpec => []LogsAreKept` |

Both promises about calls are false of an application that makes so many that a
number comes round while it is in use, and the code does nothing against that.
The theorem therefore comes in two forms: under `NoReuse`, that a new call gets
a number which no call uses and no answer under way carries; and for
`ShortPrograms`, which make at most `SeqMax` (65535) calls, where `NoReuse` is
proved (`NumbersGrow`: the numbers given so far lie between the first and the
last, and the counter has not come round). The run has programs of this kind, at
the largest numbers. The invariant (`NumberInv`) says that a number denotes one
call in use, and that every answer under its number is an answer to that call,
which was obeyed if the answer says so and read nothing older than what it
should have. That the key tables agree is `PlainInv`: what is stored under a key
came from a call that writes this key, and what is told under a name from a call
for that name.

The logger needs two invariants. `FilesInv` holds whatever is repeated or lost:
the packets of a file are of its index, and after the last `create` none goes
back. `StreamInv` describes the one stream there is while nothing was repeated:
the two queues and the lidar's next packet form one chain, and the file in work
holds all of it up to its head; so a file is shown only when it is whole.
Proving it showed that the order within a file is broken not by a repeated
packet as such but by a repeated `create`, after which the file begins again;
`LogsAreKept` says so.

`SensorsProofs`, for any ring whose indices wrap after whole rounds of it, any
number of packets, images and starts:

| Theorem | States |
|---|---|
| `LidarInvariance`, `LidarTypes` | `LidarSpec => []LidarInv`, `[]LidarTypeOK` |
| `CloudsComeInOrder` | `LidarSpec => CloudsInOrder` |
| `HikTypes` | `HikSpec => []HikTypeOK` |
| `ImageIsNotOlder` | `HikSpec => []ImageNotOlderThanIndex` |
| `OneCamera` | `HikSpec => []ImagesOfOneCamera` |
| `ImagesStaySound` | `HikSpec => []ImageIsSound`, both together |
| `PathsAreComponents` | `SensorsSpec` implies the specification of each component |
| `SensorsKeepTypes` | `SensorsSpec => []SensorsTypeOK` |
| `SensorsAreSafe` | `SensorsSpec =>` the safety properties above |

`CloudsComeInOrder` is a refinement: the driver and the lidar node together
implement `LatestFrame`, the specification the detect node's pipeline implements
too. The ring has no lock; its count is a difference of indices modulo 2^32
(`IndexMod`), and it works because both indices taken modulo the ring's size
stay that count apart (`IndicesAgree`), which needs that `RingSize` divides
`IndexMod`. On that rests a chain along the whole way, as in the detect node:
what was published, the reader's frame, the frames in the ring in their order,
the writer's frame and the packets that wait hold ever larger numbers; what the
topic and the node hold lies between `handled` and `published`. The provers know
a remainder only as what is left of a multiple, so the lemmas about it come
first.

For the camera the invariant orders the rows of a segment around its index,
depending on where the writer is, and ties a mapping to the one camera that
writes what it maps: the name is taken away before a new segment is made.

`OutputsProofs`, for any messages, places, boxes and limits:

| Theorem | States |
|---|---|
| `CarTypes` | `CarSpec => []CarTypeOK` |
| `VotesStayRecent` | `CarSpec => []VotesAreRecent` |
| `HistoriesAreNotInherited` | `CarSpec => DeadHistoriesAge` |
| `JudgeTypes` | `JudgeSpec => []JudgeTypeOK` |
| `SentryAndServer` | `JudgeSpec => []SentryToldAsServer` |
| `OutputsKeepTypes` | `OutputsSpec => []OutputsTypeOK` |
| `OutputsAreSafe` | `OutputsSpec =>` the three properties above |

The invariant of the referee messages adds what the frames on the line are while
the first of a round is sent. All ids in both tables are below `next_id`, and
the boxes without a track get `next_id` plus their rank, which is smaller than
their number and different for each; so no id comes back. A history loses at
most its first vote when one is added, which keeps the gaps between those that
stay.

The types of the outputs need `WebInv`: what a snapshot or the page shows has been
published, and its generation is not beyond the server's.

Every invariant and every action property of the passing runs is a theorem, and
so are the two refinements. Only model-checked are the liveness properties,
since fairness and `ENABLED` are outside the prover: `TracksEnd`,
`NewestIsPublished`, `NoLostWakeup`, `ShutdownEnds`, `LidarConnects`,
`NoCloudStuck`, `RegistrationStarts`, `LastImageIsWhole`, `UpgradeEnds`,
`LoggerStops` and `ScreensCatchUp`; and the violations, which a counterexample
shows.

## Findings

Five statements of the documentation and comments do not hold of the code; each
has a run whose counterexample shows it, and an entry in `PROJECT.json` with the
quotation and the line: a lost car can be in one message twice, lost own robots
bypass the publication filter, the drones' hysteresis belongs to a memory
address rather than to a track, the 2 s timer of registration sends the emptied
transform that the 10 ms timer refuses, and two failures reset registration
whatever lies between them.

## Not modelled

* The numerics: clustering, `onTf` and the matrix `r2f_`, inference in CUDA and
  TensorRT, homography, the Kalman filters, Quatro and small_gicp, the
  coordinates of `sentry_decision`, the features and the network of
  `ai_decision`. Where control depends on one of them its outcome is arbitrary.
* In the SDK: the debug point clouds, viewer mode, the handlers of the PA lidar,
  the select loops and sockets below the datagrams. The driver of this system
  uses only part of `LivoxCommands`, and neither upgrade nor logs; they are
  modelled as the library offers them.
* In the connection: the install attitude and the IMU switch
  (`livox_lidar_callback.cpp:92-107`), which are sent and whose answers nobody
  waits for.
* In the start: viewer mode, where a host's address stands for the file; the PA
  lidar; and the map of configurations that `general_command_handler` keeps
  after a stop, so that the next session can look up a lidar of the last one.
* In the driver: IMU data, custom formats, bag output, several lidars.
* In the lidar node: the clouds near the dart and drone places, which go the way
  of the others.
* In the logger: more than one lidar, more than one type of log, more than one
  session, `StartLogger` and `StopLogger`.
* In the control interface a push of the lidar is told at once, so it is not
  delayed until after a later one.
* In the web UI: static files, writing debug parameters back to their YAML, the
  list of waves (`web_ui_node.py:962`); in the page all rendering. The topic of
  waves is subscribed to twice, with two qualities of service, by one handler; a wave
  that comes twice is one more of `MaxWaves`.
* The destructors of `judge_messager` and `display_panel`, serial bytes and
  checksums, pictures and drawing.
* Tools beside the running system: dart test, mock waves, calibration scripts, the
  start script's waiting and killing.

The radar publishes nothing when a frame has no cluster inside the field, so
`judge_messager` goes on sending the last message; no text promises otherwise and
no property speaks of its age.

## Plan

Built so far: every module above, first the radar's tracks and their proofs, then
the pipeline and its refinement, the registration, the sensor side and the
outputs, then the rest of the SDK and its start, then the proofs of all safety
properties.

1. `DetectPipeline` as an implementation of a specification per queue, so that
   `NoLostWakeup` follows from a safety property about who is to notify whom.
2. The composition of the lidar node, the radar and the registration in one
   module, with the age of what is published.
3. The formats of `lddc.cpp`, the debug point clouds as a second path through
   `LivoxCommands`.
