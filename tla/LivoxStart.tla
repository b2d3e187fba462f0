----------------------------- MODULE LivoxStart -----------------------------
(***************************************************************************)
(* Starting and stopping Livox-SDK2: LivoxLidarSdkInit reads and checks a  *)
(* configuration file, DeviceManager::Init opens a socket per port of the  *)
(* host and starts the search for lidars, LivoxLidarSdkUninit takes it all *)
(* down.  A lidar the file names only by its type is added when it is      *)
(* found, by the thread that hears it, with the sockets it needs.          *)
(*                                                                         *)
(* The file is what the parser makes of it.  Its entries are the pairs of  *)
(* host_net_info and lidar_ip: those with a lidar_ip are customs, those    *)
(* without are lidars, each in the order of the file.  "wrong" is a member *)
(* of another JSON type than the parser asks for, "none" one that is not   *)
(* there; one port that is either makes all ports of an entry "wrong".     *)
(*                                                                         *)
(* A start that fails cleans nothing up, and a later one may follow.  The  *)
(* IO loops are replaced by a start and outlive the stop.                  *)
(***************************************************************************)
EXTENDS IpAddress, FiniteSets

CONSTANTS
  StartFiles,  \* the files the application starts the SDK with
  Answering,   \* the lidars that answer the search, [ip, type]
  MaxStarts,   \* starts with a file that is accepted (a bound)
  MaxRefusals  \* sockets and IO loops the system refuses (a bound)

VARIABLES
  sdkOn,     \* is_initialized
  phase,     \* the application's thread: "idle", "opening", "storing", "joining"
  framework, \* master_sdk of sdk_framework_cfg_ptr_, and log_enable_
  cleaner,   \* cycle_delete_thread_ is there
  hostIp,    \* detection_host_ip_
  customs,   \* custom_lidars_cfg_ptr_
  byIp,      \* custom_lidars_cfg_map_
  byType,    \* type_lidars_cfg_map_
  detecting, \* detection_broadcast_socket_ and detection_socket_, 0 for none
  channel,   \* channel_info_
  command,   \* custom_command_channel_
  kept,      \* socket_vec_ and vec_broadcast_socket_
  opened,    \* sockets opened so far; each is known by its number
  open,      \* those not closed
  heard,     \* those polled by the IO loops that run
  toOpen,      \* the sockets a thread has yet to look after
  search,    \* detection_thread_: "none", "created", "running", "ended"
  stop,      \* is_stop_detection_
  broken,    \* a list was freed, or grew, under a thread that goes through it;
             \* or a thread that runs was destroyed
  failed,    \* a start failed and no stop has followed
  stopped,   \* a stop has ended, and with it is_destroy_ of the LoggerManager
  gap,       \* the last lidar found was refused a socket
  strays,    \* detection sockets of failed starts, and sockets opened during a stop
  begun,     \* starts so far
  refusals   \* refusals so far

configs == <<framework, cleaner, hostIp, customs, byIp, byType>>
sockets == <<detecting, channel, command, kept, opened, open, heard>>
history == <<failed, stopped, gap, strays, begun, refusals>>
startVars == <<sdkOn, phase, configs, sockets, toOpen, search, stop, broken, history>>
-----------------------------------------------------------------------------
(* The file *)

PortNames == {"cmd", "push", "point", "imu", "log"}

Entry ==
  [type : {"HAP", "MID360"}, lidar : STRING, host_ip : STRING, cmd_data_ip : STRING,
   multicast : Seq(Nat), ports : {"right", "wrong"},
   lidarPort : [PortNames -> Nat], hostPort : [PortNames -> Nat]]

ASSUME StartAssumption ==
  /\ {MaxStarts, MaxRefusals} \subseteq Nat
  /\ Answering \subseteq [ip : STRING, type : STRING]
  /\ \A f \in StartFiles : f.lidars \in Seq(Entry) /\ f.customs \in Seq(Entry)

Entries(f) == {f.lidars[i] : i \in DOMAIN f.lidars} \cup {f.customs[i] : i \in DOMAIN f.customs}

\* ParseHostNetInfo: host_ip overrides cmd_data_ip.
HostOf(e) == IF e.host_ip # "none" THEN e.host_ip ELSE e.cmd_data_ip

\* ParseTypeLidarCfg
EntryParses(e) ==
  /\ "wrong" \notin {e.lidar, e.host_ip, e.cmd_data_ip, e.ports}
  /\ HostOf(e) # "none"

\* ParseCfgFile::Parse
Parses(f) ==
  /\ f.json
  /\ f.master # "wrong" /\ f.log # "wrong" /\ f.sections # "wrong"
  /\ \A e \in Entries(f) : EntryParses(e)

\* The addresses are 224.0.0.1 to 239.255.255.255.
MulticastOk(e) ==
  \/ e.multicast = <<>>
  \/ /\ IpToU8(e.multicast) # <<>>
     /\ IpToU8(e.multicast)[1] \in 224..239 /\ IpToU8(e.multicast) # <<224, 0, 0, 0>>

\* ParamsCheck::Check.  Only a custom lidar has an address.
Checks(f) ==
  /\ f.lidars # <<>> \/ f.customs # <<>>
  /\ \A i, j \in DOMAIN f.customs : i # j => f.customs[i].lidar # f.customs[j].lidar
  /\ \A e \in Entries(f) : MulticastOk(e)
  /\ \A i \in DOMAIN f.customs : f.customs[i].lidar # ""

Mid360Port == [cmd |-> 56100, push |-> 56200, point |-> 56300, imu |-> 56400, log |-> 56500]

\* The ports of the file are left as they are.
CheckedNot(cfgs) == cfgs

\* CheckPort
Checked(cfgs) ==
  [i \in DOMAIN cfgs |->
     IF cfgs[i].type = "MID360" THEN [cfgs[i] EXCEPT !.lidarPort = Mid360Port] ELSE cfgs[i]]
-----------------------------------------------------------------------------
(* The sockets *)

kDetectionPort == 56000
kHostDebugPointCloudPort == 44332

DataUses == {"point", "imu", "debug"}
CommandUses == {"cmd", "push", "log"}

\* CreateDataChannel and CreateCommandChannel for the lidars of a list.
Uses == <<"point", "imu", "debug", "cmd", "push", "broadcast", "log">>

Wanted(cfgs) ==
  [n \in 1..(7 * Len(cfgs)) |-> [use |-> Uses[((n - 1) % 7) + 1], cfg |-> cfgs[(n + 6) \div 7]]]

\* CreateDetectionChannel
SearchJobs == <<[use |-> "search broadcast"], [use |-> "search"]>>

PortOf(w) ==
  CASE w.use = "debug" -> kHostDebugPointCloudPort
    [] w.use = "broadcast" -> w.cfg.hostPort.push
    [] w.use \in PortNames -> w.cfg.hostPort[w.use]

KeyOf(w) ==
  IF w.use = "search" THEN <<hostIp, kDetectionPort>> ELSE <<HostOf(w.cfg), PortOf(w)>>

\* What is asked for at all: kLogPort is 0.
IsNeeded(w) ==
  CASE w.use \in DataUses -> HostOf(w.cfg) # "" /\ PortOf(w) \notin {0, kDetectionPort}
    [] w.use \in CommandUses ->
         /\ HostOf(w.cfg) # "" /\ PortOf(w) # 0
         /\ w.use = "cmd" => framework.master
         /\ w.use = "log" => framework.logs
    [] w.use = "broadcast" -> w.cfg.type = "MID360"
    [] w.use \in {"search", "search broadcast"} -> TRUE

\* Every channel is opened once; the sockets for broadcasts are not channels.
IsKnown(w) == w.use \in DataUses \cup CommandUses /\ KeyOf(w) \in DOMAIN channel

Set(f, k, v) == [x \in DOMAIN f \cup {k} |-> IF x = k THEN v ELSE f[x]]
-----------------------------------------------------------------------------
StartInit ==
  /\ sdkOn = FALSE /\ phase = "idle"
  /\ framework = [master |-> FALSE, logs |-> FALSE] /\ cleaner = FALSE /\ hostIp = "" /\ customs = <<>>
  /\ byIp = <<>> /\ byType = <<>>
  /\ detecting = [broadcast |-> 0, host |-> 0]
  /\ channel = <<>> /\ command = <<>> /\ kept = {}
  /\ opened = 0 /\ open = {} /\ heard = {}
  /\ toOpen = [who \in {"app", "found"} |-> <<>>]
  /\ search = "none" /\ stop = FALSE /\ broken = FALSE
  /\ failed = FALSE /\ stopped = FALSE /\ gap = FALSE /\ strays = {}
  /\ begun = 0 /\ refusals = 0

Refusal == refusals < MaxRefusals /\ refusals' = refusals + 1

\* The detection sockets of a start that fails are known to nobody afterwards.
StartFails ==
  /\ phase' = "idle" /\ failed' = TRUE
  /\ strays' = strays \cup ({detecting.broadcast, detecting.host} \ {0})

\* GetLidarConfigMap.  Nothing is taken out of the maps.
TypesWith(cfgs) ==
  LET named == {cfgs[i].type : i \in DOMAIN cfgs}
      last(t) == CHOOSE i \in DOMAIN cfgs :
                   cfgs[i].type = t /\ \A j \in DOMAIN cfgs : j > i => cfgs[j].type # t
  IN [t \in DOMAIN byType \cup named |-> IF t \in named THEN Checked(cfgs)[last(t)] ELSE byType[t]]

AddressesWith(cfgs) ==
  LET named == {cfgs[i].lidar : i \in DOMAIN cfgs}
      only(ip) == CHOOSE i \in DOMAIN cfgs : cfgs[i].lidar = ip
  IN [ip \in DOMAIN byIp \cup named |-> IF ip \in named THEN Checked(cfgs)[only(ip)] ELSE byIp[ip]]

\* LivoxLidarSdkInit up to the first socket.  While it is initialized, and with
\* a file that is not accepted, it returns without doing anything.
SdkStart(f) ==
  /\ ~broken /\ ~sdkOn /\ phase = "idle" /\ begun < MaxStarts
  /\ Parses(f) /\ Checks(f)
  /\ begun' = begun + 1
  /\ framework' = [master |-> f.master # "false", logs |-> f.log \in {"on", "no path"}]
  /\ hostIp' = HostOf(IF f.lidars # <<>> THEN f.lidars[1] ELSE f.customs[1])
  /\ customs' = Checked(f.customs)
  /\ cleaner' = (cleaner \/ f.log = "on")
  /\ broken' = (toOpen["found"] # <<>> \/ (cleaner /\ f.log = "on")) /\ gap' = FALSE
  /\ \/ f.log = "no path" /\ StartFails /\ UNCHANGED <<byIp, byType, heard, toOpen, refusals>>
     \/ /\ f.log # "no path"
        /\ byType' = TypesWith(f.lidars) /\ byIp' = AddressesWith(f.customs)
        /\ heard' = {}
        /\ \/ StartFails /\ Refusal /\ UNCHANGED toOpen
           \/ /\ phase' = "opening"
              /\ toOpen' = [toOpen EXCEPT !["app"] = SearchJobs \o Wanted(Checked(f.customs))]
              /\ UNCHANGED <<failed, strays, refusals>>
  /\ UNCHANGED <<sdkOn, detecting, channel, command, kept, opened, open, search, stop, stopped>>

\* A command port that is a data port too stays without a socket for commands.
PassUncommanded(who) ==
  /\ toOpen[who] # <<>>
  /\ LET w == Head(toOpen[who]) IN ~IsNeeded(w) \/ IsKnown(w)
  /\ toOpen' = [toOpen EXCEPT ![who] = Tail(@)]
  /\ gap' = (gap /\ ~(who = "found" /\ toOpen'[who] = <<>>))
  /\ UNCHANGED <<sdkOn, phase, configs, sockets, search, stop, broken, failed, stopped, strays,
                 begun, refusals>>

\* The thread leaves out what is not needed or known.
Pass(who) ==
  /\ toOpen[who] # <<>>
  /\ LET w == Head(toOpen[who])
     IN /\ ~IsNeeded(w) \/ IsKnown(w)
        /\ command' = IF IsNeeded(w) /\ w.use \in CommandUses /\ KeyOf(w) \notin DOMAIN command
                      THEN Set(command, KeyOf(w), channel[KeyOf(w)])
                      ELSE command
  /\ toOpen' = [toOpen EXCEPT ![who] = Tail(@)]
  /\ gap' = (gap /\ ~(who = "found" /\ toOpen'[who] = <<>>))
  /\ UNCHANGED <<sdkOn, phase, configs, detecting, channel, kept, opened, open, heard, search,
                 stop, broken, failed, stopped, strays, begun, refusals>>

\* CreateSocket and AddDelegate
OpenSocket(who) ==
  /\ toOpen[who] # <<>>
  /\ LET w == Head(toOpen[who])
         s == opened + 1
     IN /\ IsNeeded(w) /\ ~IsKnown(w)
        /\ opened' = s /\ open' = open \cup {s} /\ heard' = heard \cup {s}
        /\ detecting' = [broadcast |-> IF w.use = "search broadcast" THEN s ELSE detecting.broadcast,
                         host |-> IF w.use = "search" THEN s ELSE detecting.host]
        /\ kept' = IF w.use \in {"search", "search broadcast"} THEN kept ELSE kept \cup {s}
        /\ channel' = IF w.use \in {"broadcast", "search broadcast"} THEN channel
                      ELSE Set(channel, KeyOf(w), s)
        /\ command' = IF \/ w.use \in CommandUses
                         \/ w.use = "search" /\ KeyOf(w) \notin DOMAIN command
                      THEN Set(command, KeyOf(w), s) ELSE command
        /\ strays' = IF phase = "joining" THEN strays \cup {s} ELSE strays
  /\ toOpen' = [toOpen EXCEPT ![who] = Tail(@)]
  /\ gap' = (gap /\ ~(who = "found" /\ toOpen'[who] = <<>>))
  /\ UNCHANGED <<sdkOn, phase, configs, search, stop, broken, failed, stopped, begun, refusals>>

\* The sockets after the one that is refused are not tried.
SocketRefused(who) ==
  /\ toOpen[who] # <<>>
  /\ LET w == Head(toOpen[who])
     IN /\ IsNeeded(w) /\ ~IsKnown(w)
        /\ detecting' = [broadcast |-> IF w.use = "search broadcast" THEN 0 ELSE detecting.broadcast,
                         host |-> IF w.use = "search" THEN 0 ELSE detecting.host]
  /\ Refusal
  /\ toOpen' = [toOpen EXCEPT ![who] = <<>>]
  /\ IF who = "app"
     THEN StartFails /\ UNCHANGED gap
     ELSE gap' = TRUE /\ UNCHANGED <<phase, failed, strays>>
  /\ UNCHANGED <<sdkOn, configs, channel, command, kept, opened, open, heard, search, stop, broken,
                 stopped, begun>>

\* The thread of the search runs before it is told to.
StartSearch ==
  /\ phase = "opening" /\ toOpen["app"] = <<>>
  /\ search' = "created" /\ phase' = "storing"
  /\ UNCHANGED <<sdkOn, configs, sockets, toOpen, stop, broken, history>>

StoreStop ==
  /\ phase = "storing"
  /\ stop' = FALSE /\ sdkOn' = TRUE /\ phase' = "idle"
  /\ UNCHANGED <<configs, sockets, toOpen, search, broken, history>>

\* DetectionLidars
Detection ==
  /\ search \in {"created", "running"}
  /\ search' = IF stop THEN "ended" ELSE "running"
  /\ UNCHANGED <<sdkOn, phase, configs, sockets, toOpen, stop, broken, history>>

\* OnData: a lidar answers the search, the host's own or another's, whose type
\* the file names.  Then every lidar of the list is gone through.
LidarFound(l) ==
  /\ toOpen["found"] = <<>>
  /\ {detecting.broadcast, detecting.host} \cap open \cap heard # {}
  /\ l.ip \notin DOMAIN byIp /\ l.ip # hostIp /\ l.type \in DOMAIN byType
  /\ LET cfg == [byType[l.type] EXCEPT !.lidar = l.ip]
     IN /\ byIp' = Set(byIp, l.ip, cfg)
        /\ byType' = [byType EXCEPT ![l.type] = cfg]
        /\ customs' = Append(customs, cfg)
        /\ toOpen' = [toOpen EXCEPT !["found"] = Wanted(customs')]
  /\ broken' \in IF toOpen["app"] = <<>> THEN {FALSE} ELSE BOOLEAN
  /\ UNCHANGED <<sdkOn, phase, framework, cleaner, hostIp, sockets, search, stop, history>>

\* LivoxLidarSdkUninit.  LoggerManager::Destory, which returns at once but for
\* the first stop, and DeviceManager::Destory up to the join; then the rest.
SdkStop ==
  /\ sdkOn /\ phase = "idle"
  /\ cleaner' = (cleaner /\ stopped) /\ framework' = [framework EXCEPT !.logs = @ /\ stopped]
  /\ open' = open \ kept /\ kept' = {}
  /\ hostIp' = "" /\ stop' = TRUE /\ phase' = "joining"
  /\ UNCHANGED <<sdkOn, customs, byIp, byType, detecting, channel, command, opened, heard,
                 toOpen, search, broken, history>>

SdkStopped ==
  /\ phase = "joining" /\ search = "ended"
  /\ open' = open \ {detecting.broadcast, detecting.host}
  /\ detecting' = [broadcast |-> 0, host |-> 0]
  /\ search' = "none"
  /\ customs' = <<>> /\ byIp' = <<>> /\ byType' = <<>>
  /\ channel' = <<>> /\ command' = <<>>
  /\ sdkOn' = FALSE /\ phase' = "idle" /\ failed' = FALSE /\ stopped' = TRUE
  /\ broken' = (toOpen["found"] # <<>>)
  /\ UNCHANGED <<framework, cleaner, hostIp, kept, opened, heard, toOpen, stop, gap, strays, begun,
                 refusals>>

StartNext ==
  /\ ~broken
  /\ \/ \E f \in StartFiles : SdkStart(f)
     \/ \E who \in {"app", "found"} : Pass(who) \/ OpenSocket(who) \/ SocketRefused(who)
     \/ StartSearch
     \/ StoreStop
     \/ Detection
     \/ \E l \in Answering : LidarFound(l)
     \/ SdkStop
     \/ SdkStopped

StartSpec == StartInit /\ [][StartNext]_startVars
-----------------------------------------------------------------------------
(* Properties *)

StartTypeOK ==
  /\ {sdkOn, stop, broken, failed, stopped, gap, cleaner} \subseteq BOOLEAN
  /\ framework \in [master : BOOLEAN, logs : BOOLEAN]
  /\ phase \in {"idle", "opening", "storing", "joining"}
  /\ search \in {"none", "created", "running", "ended"}
  /\ customs \in Seq(Entry)
  /\ \A ip \in DOMAIN byIp : byIp[ip] \in Entry
  /\ \A t \in DOMAIN byType : byType[t] \in Entry /\ byType[t].type = t
  /\ opened \in Nat /\ open \cup heard \cup kept \cup strays \subseteq 1..opened
  /\ {detecting.broadcast, detecting.host} \subseteq 0..opened
  /\ \A k \in DOMAIN channel : channel[k] \in 1..opened
  /\ \A k \in DOMAIN command : command[k] \in 1..opened
  /\ DOMAIN toOpen = {"app", "found"}
  /\ begun \in 0..MaxStarts /\ refusals \in 0..MaxRefusals

\* Where OnData takes what comes from a port of a lidar.
HandlerOf(cfg, port) ==
  IF port \in {cfg.lidarPort.imu, cfg.lidarPort.point} THEN "data"
  ELSE IF port \in {kDetectionPort, cfg.lidarPort.cmd, cfg.lidarPort.push, cfg.lidarPort.log}
       THEN "command" ELSE "none"

\* Once the SDK has started, each port of the host that the file asks for has an
\* open socket, commands find theirs, and an IO loop listens: in the files'
\* lidars as in those found by their type.  Unless the last one found was refused
\* a socket; and sockets left by a start that failed are used again though no
\* loop listens to them any more.
PortsAreHeard ==
  sdkOn /\ phase = "idle" /\ ~broken /\ toOpen["found"] = <<>> /\ ~gap =>
    \A i \in DOMAIN customs, use \in DataUses \cup CommandUses :
      LET w == [use |-> use, cfg |-> customs[i]]
      IN IsNeeded(w) =>
           /\ KeyOf(w) \in DOMAIN channel /\ channel[KeyOf(w)] \in open
           /\ use \in CommandUses => KeyOf(w) \in DOMAIN command /\ command[KeyOf(w)] \in open
           /\ failed \/ channel[KeyOf(w)] \in heard

\* What a Mid-360 sends from its ports goes to the handler for it, whatever ports
\* the file gives it.
PortsAreRouted ==
  \A ip \in DOMAIN byIp :
    byIp[ip].type = "MID360" =>
      /\ \A p \in {"cmd", "push", "log"} : HandlerOf(byIp[ip], Mid360Port[p]) = "command"
      /\ \A p \in {"point", "imu"} : HandlerOf(byIp[ip], Mid360Port[p]) = "data"

\* A stop closes every socket, but for the detection sockets of starts that
\* failed, and for those a thread opens for a lidar while the SDK stops.
NothingStaysOpen == ~sdkOn /\ phase = "idle" /\ ~failed => open \subseteq strays

\* The search for lidars that a start begins goes on until the stop.  After a
\* stop that is left to chance: the thread of the next search can find the flag
\* of the last one.
SearchGoesOn == sdkOn /\ phase = "idle" /\ ~stopped => search # "ended"

\* A start starts everything and a stop ends everything.
StartIsSound == PortsAreHeard /\ PortsAreRouted /\ NothingStaysOpen /\ SearchGoesOn
=============================================================================
