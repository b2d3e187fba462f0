---------------------------- MODULE LivoxConnect ----------------------------
(***************************************************************************)
(* How a Mid-360 comes to deliver points: Livox-SDK2 finds it, asks which  *)
(* firmware runs, sends it the network configuration and calls the driver  *)
(* (livox_lidar_callback.cpp), which sends the configured options.  The    *)
(* driver waits for the answers with a set of bits, set_bits: when the     *)
(* last one is cleared the lidar is "sampling", and only then are its      *)
(* points published.                                                       *)
(*                                                                         *)
(* The SDK runs an IO loop in each of three threads.  Search answers       *)
(* arrive in "detection", answers to commands in "command"; the timeouts   *)
(* of commands are found by all three.  Whatever a thread has to do, in    *)
(* the calls of a callback and after them, is the stack todo[t].           *)
(*                                                                         *)
(* One lidar; is_view_ is FALSE and master_sdk TRUE, as in this driver.    *)
(* Requests and answers are datagrams: they can be lost, overtake each     *)
(* other, or come after the command timed out.                             *)
(***************************************************************************)
EXTENDS Naturals, Sequences, FiniteSets

CONSTANTS
  Options,    \* the options of the config file that are not -1, in their order
  FwLimit,    \* failed firmware queries after which the answer is assumed (10)
  MaxFaults,  \* lost, late, refused and unsent commands in one run (a bound)
  MaxTries    \* configurations under way at a time (a bound)

ASSUME OptionsAssumption ==
  /\ Options \in Seq({"type", "pattern", "blind", "dual"}) /\ Options # <<>>
  /\ \A i, j \in 1..Len(Options) : i # j => Options[i] # Options[j]
ASSUME ConnectLimits == {FwLimit, MaxFaults, MaxTries} \subseteq Nat

VARIABLES
  inLoader,  \* whether the lidar runs its boot loader
  known,     \* 0: never heard of, 1: in custom_lidars_cfg_map_, 2: in devices_
  mode,      \* is_get_loader_mode and is_loader_mode: "none", "app", "loader"
  fwFails,   \* count in QueryFwTypeCallback
  isSet,     \* the lidar is in devices_ of Mid360CommandHandler
  updated,   \* is_update_cfg
  told,      \* is_callback: the driver was called
  setBits,   \* livox_config.set_bits
  sampling,  \* connect_state is kConnectStateSampling
  working,   \* the work mode was acknowledged
  answered,  \* the options the lidar has answered, obeying or refusing
  commands,  \* commands_: the commands that wait for an answer
  net,       \* the datagrams under way
  todo,      \* what is left to do for each thread
  holder,    \* the thread that holds config_mutex_
  crashed,   \* the null response of an unsent option was dereferenced
  faults

device == <<known, mode, fwFails, isSet, updated, told>>
driver == <<setBits, sampling, working, holder, crashed>>
wire == <<commands, net, answered, faults>>
connectVars == <<inLoader, device, driver, wire, todo>>
-----------------------------------------------------------------------------
Thread == {"detection", "command", "data"}

Option == {Options[i] : i \in DOMAIN Options}

Kind == {"fw", "cfg", "mode"} \cup Option

Cmd == [kind : Kind, seq : Nat]

Datagram == [cmd : Cmd, what : {"request", "ok", "refused"}]

\* The steps of a todo list.
Op ==
  [op : {"send"}, kind : Kind]
  \cup [op : {"set", "clear"}, kind : Option]
  \cup [op : {"add"}, cmd : Cmd] \cup [op : {"put"}, cmd : [kind : {"cfg"}, seq : Nat]]
  \cup [op : {"change", "mark", "lock", "unlock"}]

Send(k) == [op |-> "send", kind |-> k]
Step(name) == [op |-> name]

Alive == ~crashed

Idle(t) == Alive /\ todo[t] = <<>>

\* Thread t replaces its first step, if it has one, by others.
Does(t, steps) ==
  todo' = [todo EXCEPT ![t] = steps \o (IF @ = <<>> THEN <<>> ELSE Tail(@))]

Head1(t, name) == Alive /\ todo[t] # <<>> /\ Head(todo[t]).op = name

Fault == faults < MaxFaults /\ faults' = faults + 1
-----------------------------------------------------------------------------
ConnectInit ==
  /\ inLoader \in BOOLEAN
  /\ known = 0 /\ mode = "none" /\ fwFails = 0
  /\ isSet = FALSE /\ updated = FALSE /\ told = FALSE
  /\ setBits = {} /\ sampling = FALSE /\ working = FALSE
  /\ answered = {} /\ commands = {} /\ net = {}
  /\ todo = [t \in Thread |-> <<>>]
  /\ holder = "none" /\ crashed = FALSE /\ faults = 0
-----------------------------------------------------------------------------
(* What the SDK calls when a command ends on thread t.                     *)

\* Every failure asks again.  After too many of them the answer is not looked
\* at: the firmware is taken to be the application.
QueryFwTypeCallback(t, status) ==
  /\ IF fwFails > FwLimit
     THEN fwFails' = 0 /\ mode' = "app" /\ Does(t, <<>>)
     ELSE IF status = "ok"
          THEN /\ fwFails' = 0
               /\ mode' = IF inLoader THEN "loader" ELSE "app"
               /\ Does(t, <<>>)
          ELSE /\ fwFails' = fwFails + 1
               /\ Does(t, <<Send("fw")>>)
               /\ UNCHANGED mode
  /\ UNCHANGED <<known, isSet, updated, told, driver>>

\* Only the next search answer tries again.
UpdateLidarCallback(t, status) ==
  /\ isSet' = (isSet \/ status = "ok")
  /\ Does(t, IF status = "ok" THEN <<Step("change")>> ELSE <<>>)
  /\ UNCHANGED <<known, mode, fwFails, updated, told, driver>>

\* A timeout is taken for an answer.
WorkModeChangedCallbackOnce(t, status) ==
  /\ Does(t, <<>>)
  /\ working' = (status = "ok")
  /\ UNCHANGED <<device, setBits, sampling, holder, crashed>>

\* Any answer is a success.
WorkModeChangedCallback(t, status) ==
  /\ IF status = "ok"
     THEN working' = TRUE /\ Does(t, <<>>)
     ELSE Does(t, <<Send("mode")>>) /\ UNCHANGED working
  /\ UNCHANGED <<device, setBits, sampling, holder, crashed>>

\* A timeout is not retried.
OptionCallbackGivesUp(t, k, status) ==
  /\ CASE status = "ok" -> Does(t, <<[op |-> "clear", kind |-> k]>>) /\ UNCHANGED crashed
       [] status = "timeout" -> Does(t, <<>>) /\ UNCHANGED crashed
       [] status = "unsent"  -> crashed' = TRUE /\ Does(t, <<>>)
  /\ UNCHANGED <<device, setBits, sampling, working, holder>>

\* SetDataTypeCallback, SetPatternModeCallback, SetBlindSpotCallback and
\* SetDualEmitCallback: any answer is a success, a timeout sends the option
\* again, and the error branch reads a response that is not there.
OptionCallback(t, k, status) ==
  /\ CASE status = "ok" -> Does(t, <<[op |-> "clear", kind |-> k]>>) /\ UNCHANGED crashed
       [] status = "timeout" -> Does(t, <<Send(k)>>) /\ UNCHANGED crashed
       [] status = "unsent"  -> crashed' = TRUE /\ Does(t, <<>>)
  /\ UNCHANGED <<device, setBits, sampling, working, holder>>

Callback(t, k, status) ==
  CASE k = "fw"    -> QueryFwTypeCallback(t, status)
    [] k = "cfg"   -> UpdateLidarCallback(t, status)
    [] k = "mode"  -> WorkModeChangedCallback(t, status)
    [] k \in Option -> OptionCallback(t, k, status)
-----------------------------------------------------------------------------
(* The commands.  GeneralCommandHandler sends first and registers then;    *)
(* the network configuration is registered first.                          *)

\* The commands thread t has yet to register or to send.
Held(t) == {todo[t][i].cmd : i \in {j \in DOMAIN todo[t] : todo[t][j].op \in {"add", "put"}}}

\* GenerateSeq: all that matters of seq_num is that it is not in use.
NewCmd(k) ==
  LET cmds  == commands \cup {d.cmd : d \in net} \cup UNION {Held(t) : t \in Thread}
      inUse == {c.seq : c \in {x \in cmds : x.kind = k}}
  IN [kind |-> k, seq |-> CHOOSE n \in 1..(Cardinality(inUse) + 1) : n \notin inUse]

\* sendto fails: the callback is called at once, and what it sends is sent and
\* registered before this command is, which is registered all the same.
SendFails(t) ==
  /\ Head1(t, "send") \/ Head1(t, "set")
  /\ LET k == Head(todo[t]).kind
         rest == Tail(todo[t])
         c == NewCmd(k)
     IN /\ IF k \in Option
           THEN crashed' = TRUE /\ todo' = [todo EXCEPT ![t] = rest] /\ UNCHANGED <<fwFails, mode>>
           ELSE /\ IF k = "fw" /\ fwFails > FwLimit
                   THEN /\ fwFails' = 0 /\ mode' = "app"
                        /\ todo' = [todo EXCEPT ![t] = <<[op |-> "add", cmd |-> c]>> \o rest]
                   ELSE /\ fwFails' = IF k = "fw" THEN fwFails + 1 ELSE fwFails
                        /\ todo' = [todo EXCEPT ![t] = <<Send(k), [op |-> "add", cmd |-> c]>> \o rest]
                        /\ UNCHANGED mode
                /\ UNCHANGED crashed
  /\ Fault
  /\ UNCHANGED <<inLoader, known, isSet, updated, told, setBits, sampling, working, holder,
                 commands, net, answered>>

SendOk(t) ==
  /\ Head1(t, "send") \/ Head1(t, "set")
  /\ setBits' = IF Head1(t, "set") THEN setBits \cup {Head(todo[t]).kind} ELSE setBits
  /\ LET c == NewCmd(Head(todo[t]).kind)
     IN /\ net' = net \cup {[cmd |-> c, what |-> "request"]}
        /\ Does(t, <<[op |-> "add", cmd |-> c]>>)
  /\ UNCHANGED <<inLoader, device, sampling, working, holder, crashed, commands, answered, faults>>

AddCommand(t) ==
  /\ Head1(t, "add")
  /\ commands' = commands \cup {Head(todo[t]).cmd}
  /\ Does(t, <<>>)
  /\ UNCHANGED <<inLoader, device, driver, net, answered, faults>>

\* Mid360CommandHandler::SendCommand with a port.
PutCfg(t) ==
  /\ Head1(t, "put")
  /\ \/ net' = net \cup {[cmd |-> Head(todo[t]).cmd, what |-> "request"]} /\ UNCHANGED faults
     \/ Fault /\ UNCHANGED net
  /\ Does(t, <<>>)
  /\ UNCHANGED <<inLoader, device, driver, commands, answered>>

\* Sent, but not yet in commands_.
Unregistered(c) == c \notin commands /\ \E t \in Thread : c \in Held(t)

\* An answer to a command that is not in commands_ is dropped: it came after
\* the timeout, or (which counts as a fault) before the command was registered.
Handler ==
  /\ Idle("command")
  /\ \E d \in net :
       /\ d.what # "request"
       /\ net' = net \ {d}
       /\ commands' = commands \ {d.cmd}
       /\ IF d.cmd \in commands
          THEN Callback("command", d.cmd.kind, d.what)
          ELSE UNCHANGED <<device, driver, todo>>
       /\ IF Unregistered(d.cmd) THEN Fault ELSE UNCHANGED faults
  /\ UNCHANGED <<inLoader, answered>>

UnderWay(c) ==
  \/ \E d \in net : d.cmd = c
  \/ \E t \in Thread : c \in Held(t)

\* A command whose datagrams are gone times out in the end; that it does so
\* while its answer is still under way counts as a fault.
CommandsHandle(t) ==
  /\ Idle(t)
  /\ \E c \in commands :
       /\ IF UnderWay(c) THEN Fault ELSE UNCHANGED faults
       /\ commands' = commands \ {c}
       /\ Callback(t, c.kind, "timeout")
  /\ UNCHANGED <<inLoader, net, answered>>
-----------------------------------------------------------------------------
(* The search                                                              *)

\* A search answer arrives.  The first one makes the lidar known, the second
\* asks for the firmware; while the configuration is not acknowledged, each
\* further one sends it again.
DetectionData ==
  /\ Idle("detection")
  /\ known' = IF known < 2 THEN known + 1 ELSE known
  /\ IF /\ known = 2 /\ ~updated /\ mode = "app" /\ ~isSet
        /\ Cardinality({c \in commands : c.kind = "cfg"}) < MaxTries
     THEN /\ commands' = commands \cup {NewCmd("cfg")}
          /\ Does("detection", <<[op |-> "put", cmd |-> NewCmd("cfg")]>>)
     ELSE /\ UNCHANGED commands
          /\ Does("detection",
                  CASE known = 1 -> <<Send("fw")>>
                    [] known = 2 /\ mode = "loader" -> <<Step("change")>>
                    [] OTHER -> <<>>)
  /\ UNCHANGED <<inLoader, mode, fwFails, isSet, updated, told, driver, net, answered, faults>>

\* LivoxLidarInfoChange: is_callback is read here and written in MarkTold.
InfoChange(t) ==
  /\ Head1(t, "change")
  /\ updated' = TRUE
  /\ Does(t, IF told THEN <<>> ELSE <<Step("mark")>>)
  /\ UNCHANGED <<inLoader, known, mode, fwFails, isSet, told, driver, wire>>

\* LidarInfoChangeCallback of the driver follows: every option under
\* config_mutex_, then the work mode.
MarkTold(t) ==
  /\ Head1(t, "mark")
  /\ told' = TRUE
  /\ Does(t, <<Step("lock")>> \o [i \in 1..Len(Options) |-> [op |-> "set", kind |-> Options[i]]]
             \o <<Step("unlock"), Send("mode")>>)
  /\ UNCHANGED <<inLoader, known, mode, fwFails, isSet, updated, driver, wire>>

\* The mutex does not exclude anybody.
LockFree(t) ==
  /\ Head1(t, "lock")
  /\ Does(t, <<>>)
  /\ UNCHANGED <<inLoader, device, driver, wire>>

Lock(t) ==
  /\ Head1(t, "lock")
  /\ holder = "none"
  /\ holder' = t
  /\ Does(t, <<>>)
  /\ UNCHANGED <<inLoader, device, setBits, sampling, working, crashed, wire>>

Unlock(t) ==
  /\ Head1(t, "unlock")
  /\ holder' = "none"
  /\ Does(t, <<>>)
  /\ UNCHANGED <<inLoader, device, setBits, sampling, working, crashed, wire>>

\* The critical section of an option callback.
ClearBit(t) ==
  /\ Head1(t, "clear")
  /\ holder = "none"
  /\ setBits' = setBits \ {Head(todo[t]).kind}
  /\ sampling' = (sampling \/ setBits' = {})
  /\ Does(t, <<>>)
  /\ UNCHANGED <<inLoader, device, working, holder, crashed, wire>>
-----------------------------------------------------------------------------
(* The lidar and the network                                               *)

LidarAnswers ==
  /\ Alive
  /\ \E d \in net :
       /\ d.what = "request"
       /\ answered' = answered \cup ({d.cmd.kind} \cap Option)
       /\ \/ net' = (net \ {d}) \cup {[d EXCEPT !.what = "ok"]} /\ UNCHANGED faults
          \/ /\ d.cmd.kind \in {"fw", "cfg"}   \* the others' callbacks do not look
             /\ net' = (net \ {d}) \cup {[d EXCEPT !.what = "refused"]}
             /\ Fault
  /\ UNCHANGED <<inLoader, device, driver, commands, todo>>

Lose ==
  /\ Alive
  /\ \E d \in net : net' = net \ {d}
  /\ Fault
  /\ UNCHANGED <<inLoader, device, driver, commands, answered, todo>>

ThreadStep(t) ==
  \/ SendOk(t) \/ AddCommand(t) \/ PutCfg(t)
  \/ InfoChange(t) \/ MarkTold(t)
  \/ Lock(t) \/ Unlock(t) \/ ClearBit(t)

ConnectNext ==
  \/ DetectionData
  \/ Handler
  \/ \E t \in Thread : ThreadStep(t) \/ SendFails(t) \/ CommandsHandle(t)
  \/ LidarAnswers
  \/ Lose

ConnectSpec == ConnectInit /\ [][ConnectNext]_connectVars
-----------------------------------------------------------------------------
(* Properties *)

ConnectTypeOK ==
  /\ inLoader \in BOOLEAN
  /\ known \in 0..2
  /\ mode \in {"none", "app", "loader"}
  /\ fwFails \in 0..(FwLimit + 1)
  /\ {isSet, updated, told, sampling, working, crashed} \subseteq BOOLEAN
  /\ setBits \subseteq Option
  /\ answered \subseteq Option
  /\ commands \subseteq Cmd
  /\ net \subseteq Datagram
  /\ todo \in [Thread -> Seq(Op)]
  /\ holder \in Thread \cup {"none"}
  /\ faults \in 0..MaxFaults

\* The driver never takes a lidar for configured that has not answered every
\* configured option: the mutex keeps an early answer to the first option from
\* emptying set_bits before the second bit is set.
SamplingMeansConfigured == sampling => answered = Option

\* A bit that is set can still be cleared: somebody waits for the answer, or
\* has yet to send, register or acknowledge the option.  A lost answer, an
\* answer before the command is registered, or a timeout between the two never
\* leaves the lidar silent for good.
NoOrphanBit ==
  \A k \in setBits :
    \/ crashed
    \/ \E c \in commands : c.kind = k
    \/ \E t \in Thread : \E i \in DOMAIN todo[t] :
         \/ todo[t][i].op \in {"send", "clear"} /\ todo[t][i].kind = k
         \/ todo[t][i].op = "add" /\ todo[t][i].cmd.kind = k

\* The bits of set_bits are true: none is cleared before its option is answered,
\* and none is left that nobody will clear.
BitsAreTrue == SamplingMeansConfigured /\ NoOrphanBit

\* A lidar that was found is sampling and scans in the end, unless the process
\* crashes: whatever is lost, late, refused or dropped is asked for again.
LidarConnects == (known > 0) ~> (crashed \/ (sampling /\ working))
=============================================================================
