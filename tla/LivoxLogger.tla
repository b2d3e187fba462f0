------------------------------ MODULE LivoxLogger ------------------------------
(***************************************************************************)
(* The log files of Livox-SDK2: a lidar pushes its log packet by packet, a *)
(* thread of the SDK queues them, LoggerHandler's thread writes them to    *)
(* files, and LoggerManager's thread deletes the oldest files when they    *)
(* take too much room.  A file that is being written has a hidden name.    *)
(*                                                                         *)
(* One lidar and one type of log.  The lidar (external) sends a packet     *)
(* until it is acknowledged; an acknowledgement can be lost, and a packet  *)
(* can arrive twice.                                                       *)
(***************************************************************************)
EXTENDS Naturals, Sequences
LOCAL INSTANCE FiniteSetsExt

CONSTANTS
  LogFiles,      \* how many files the lidar sends
  LogPackets,    \* the data packets of each (bounds)
  MaxLogSize,    \* max_realtimelog_cache_size_, in packets
  MaxSeconds,    \* of one run (a bound)
  MaxRepeats,    \* packets that arrive twice in one run (a bound)
  MaxQueued      \* packets that come while the thread writes or sleeps (a bound)

ASSUME LoggerAssumption ==
  /\ LogFiles \in Nat \ {0}
  /\ {LogPackets, MaxLogSize, MaxSeconds, MaxRepeats, MaxQueued} \subseteq Nat

VARIABLES
  logging,       \* "on", the stages of Destory, "off", or "crashed"
  detected,      \* the lidar is in devices_info_
  sending,       \* the packet the lidar sends
  late,          \* copies of packets that have yet to come
  repeats,
  writing,       \* LoggerHandler's thread: "none", "runs", "stop" (is_stop_write_)
  queue_,
  batch,         \* what the thread has swapped out of it
  file,          \* current_files_ of the type
  disk,          \* the files: their names, and the packets written to each
  second         \* the time in the name of the newest file

wireVars == <<sending, late, repeats>>
writerVars == <<batch, file>>
loggerVars ==
  <<logging, detected, wireVars, writing, queue_, writerVars, disk, second>>
-----------------------------------------------------------------------------
\* The packets of a file: it is created, filled and ended.
LogBag(index, trans) ==
  [index |-> index, trans |-> trans,
   flag |-> CASE trans = 0 -> "create" [] trans = LogPackets + 1 -> "end" [] OTHER -> "data"]

LogPacket == {LogBag(index, trans) : index \in 1..LogFiles, trans \in 0..(LogPackets + 1)}

Sent == [index |-> LogFiles + 1, trans |-> 0, flag |-> "none"]

\* What the lidar sends when a packet is acknowledged.
After(p) ==
  CASE p.flag # "end" -> LogBag(p.index, p.trans + 1)
    [] p.flag = "end" /\ p.index < LogFiles -> LogBag(p.index + 1, 0)
    [] OTHER -> Sent

FileName == [hidden : BOOLEAN, second : 0..MaxSeconds, index : 1..LogFiles]

NoFile == [trans |-> 0, index |-> 0, open |-> FALSE, name |-> <<>>]

LoggerInit ==
  /\ logging = "on" /\ detected = FALSE
  /\ sending = LogBag(1, 0) /\ late = {} /\ repeats = 0
  /\ writing = "none" /\ queue_ = <<>> /\ batch = <<>>
  /\ file = NoFile /\ disk = <<>>
  /\ second = 0
-----------------------------------------------------------------------------
(* The lidar and the network                                               *)

\* A packet comes, or comes again.  The lidar goes on when the packet it sends is
\* acknowledged, and sends it again when the acknowledgement is lost.
Arrives(p) ==
  LET next == IF p = sending THEN After(p) ELSE sending
  IN /\ p \in ({sending} \ {Sent}) \cup late
     /\ \/ sending' = next /\ late' = late \ {p} /\ UNCHANGED repeats
        \/ /\ repeats < MaxRepeats /\ repeats' = repeats + 1
           /\ \/ sending' = next /\ late' = late \cup {p}
              \/ p = sending /\ UNCHANGED <<sending, late>>
-----------------------------------------------------------------------------
(* The thread that receives                                                *)

\* AddDevice, when the lidar answers the search.
AddDevice ==
  /\ ~detected /\ detected' = TRUE
  /\ UNCHANGED <<logging, wireVars, writing, queue_, writerVars, disk, second>>

StoreLogBag(p) == queue_' = Append(queue_, p)

\* OnLoggerCreate makes the handler that is missing, and uses it; of a lidar that
\* has not been detected there is none to use.
OnLoggerCreate(p) ==
  IF writing = "none" /\ ~detected
  THEN /\ logging' = "crashed"
       /\ UNCHANGED <<writing, queue_, file>>
  ELSE /\ StoreLogBag(p)
       /\ writing' = IF writing = "none" THEN "runs" ELSE writing
       /\ file' = IF writing = "none" THEN NoFile ELSE file
       /\ UNCHANGED logging

\* OnLoggerStopped and OnLoggerTransfer: a packet of no handler is dropped.
OnLoggerRest(p) ==
  /\ IF writing = "none" THEN UNCHANGED queue_ ELSE StoreLogBag(p)
  /\ UNCHANGED <<logging, writing, file>>

ReceiveLog ==
  /\ logging \notin {"off", "crashed"}
  /\ Len(queue_) < MaxQueued
  /\ \E p \in LogPacket :
       /\ Arrives(p)
       /\ IF p.flag = "create" THEN OnLoggerCreate(p) ELSE OnLoggerRest(p)
  /\ UNCHANGED <<detected, batch, disk, second>>
-----------------------------------------------------------------------------
(* The thread that writes                                                  *)

\* Append ("ab") to a file of the directory.
Written(files, name, p) ==
  [n \in DOMAIN files \cup {name} |->
     IF n # name THEN files[n]
     ELSE Append(IF n \in DOMAIN files THEN files[n] ELSE <<>>, p)]

Shown(name) == [name EXCEPT !.hidden = FALSE]

\* ChangeCurrentFileName and ChangeHiddenFiles: the files get their names, in the
\* place of those that have them.
Renamed(names) ==
  LET gone == {Shown(n) : n \in names}
  IN [n \in (DOMAIN disk \ names) \cup gone |->
        IF n \in gone THEN disk[[n EXCEPT !.hidden = TRUE]] ELSE disk[n]]

\* The files when the one that is open is closed.
WhenClosed == Renamed(IF file.open THEN {file.name} \cap DOMAIN disk ELSE {})

\* GetCurFormatTime: the name tells the second, in which another file may have
\* been created.
CreateFile(p) ==
  \E now \in second..MaxSeconds :
    LET name == [hidden |-> TRUE, second |-> now, index |-> p.index]
    IN /\ second' = now
       /\ disk' = Written(WhenClosed, name, p)
       /\ file' = [trans |-> p.trans, index |-> p.index, open |-> TRUE, name |-> name]

\* A packet of another file is left out; one that is not the next is written.
WriteFile(p) ==
  IF file.index # p.index
  THEN UNCHANGED <<disk, file>>
  ELSE /\ disk' = IF file.open THEN Written(disk, file.name, p) ELSE disk
       /\ file' = [file EXCEPT !.trans = p.trans]

\* The end of whichever file it is.
StopFile(p) ==
  /\ disk' = WhenClosed
  /\ file' = [file EXCEPT !.open = FALSE, !.trans = p.trans]

\* It is written.
StaleIsWritten(p) == FALSE

\* An old packet is not dropped: the loop looks at it again, for ever.
Stale(p) == p.trans < file.trans /\ p.flag # "create"

Spins == batch # <<>> /\ Stale(Head(batch))

SwapQueue ==
  /\ writing = "runs" /\ batch = <<>> /\ queue_ # <<>>
  /\ batch' = queue_ /\ queue_' = <<>>
  /\ UNCHANGED <<logging, detected, wireVars, writing, file, disk, second>>

WritePacket ==
  /\ batch # <<>> /\ ~Spins
  /\ batch' = Tail(batch)
  /\ LET p == Head(batch)
     IN CASE p.flag = "create" -> CreateFile(p)
          [] p.flag = "data" -> WriteFile(p) /\ UNCHANGED second
          [] OTHER -> StopFile(p) /\ UNCHANGED second
  /\ UNCHANGED <<logging, detected, wireVars, writing, queue_>>
-----------------------------------------------------------------------------
(* The thread that deletes                                                 *)

Size(names) == MapThenSumSet(LAMBDA n : Len(disk[n]), names)

\* Those that are being written as well.
AllFiles == DOMAIN disk

\* GetFileNames leaves out the hidden files.
FilesToDelete == {n \in DOMAIN disk : ~n.hidden}

\* CycleDelete, every 600 s or when a file has ended: the oldest go until the
\* rest is small enough, or only hidden files are left.
CycleDelete ==
  /\ logging \in {"on", "cycle"}
  /\ \E gone \in SUBSET FilesToDelete :
       LET rest == DOMAIN disk \ gone
       IN /\ Size(rest) <= MaxLogSize \/ gone = FilesToDelete
          /\ gone # {}
          /\ \E last \in gone :
               /\ Size(rest \cup {last}) > MaxLogSize
               /\ \A n \in gone : n.second <= last.second
               /\ \A n \in FilesToDelete \ gone : last.second <= n.second
          /\ disk' = [n \in rest |-> disk[n]]
  /\ UNCHANGED <<logging, detected, wireVars, writing, queue_, writerVars, second>>
-----------------------------------------------------------------------------
(* Destory                                                                 *)

Stage(from, to) ==
  /\ logging = from /\ logging' = to
  /\ UNCHANGED <<detected, wireVars, second>>

Destory ==
  /\ Stage("on", "cycle")
  /\ UNCHANGED <<writing, queue_, writerVars, disk>>

\* The thread that deletes ends.
JoinCycleDelete ==
  /\ Stage("cycle", "writer")
  /\ UNCHANGED <<writing, queue_, writerVars, disk>>

\* The handler is not told to stop.
StopWriteNot == UNCHANGED writing

StopWrite == writing' = "stop"

\* LoggerHandler::Destory of a handler, and of one that was made since.
StopHandler ==
  /\ logging = "writer" /\ writing = "runs"
  /\ StopWrite
  /\ UNCHANGED <<logging, detected, wireVars, queue_, writerVars, disk, second>>

\* Its thread ends and is joined, without what is in the queue by then; its file
\* is closed and keeps its hidden name.
ClearHandlers ==
  /\ writing = "none" \/ (writing = "stop" /\ batch = <<>>)
  /\ Stage("writer", "rename")
  /\ writing' = "none" /\ queue_' = <<>> /\ file' = NoFile
  /\ UNCHANGED <<batch, disk>>

\* log_enable_ is true until now: a file that was created since the handlers were
\* cleared is written on.
ChangeHiddenFiles ==
  /\ Stage("rename", "off")
  /\ disk' = Renamed({n \in DOMAIN disk : n.hidden})
  /\ UNCHANGED <<writing, queue_, writerVars>>

DestoryStep == JoinCycleDelete \/ StopHandler \/ ClearHandlers \/ ChangeHiddenFiles
-----------------------------------------------------------------------------
WriterThread == SwapQueue \/ WritePacket

\* Nothing is left of a process that crashed.
LoggerNext ==
  /\ logging # "crashed"
  /\ \/ AddDevice \/ ReceiveLog
     \/ WriterThread
     \/ CycleDelete
     \/ Destory \/ DestoryStep

LoggerSpec == LoggerInit /\ [][LoggerNext]_loggerVars
-----------------------------------------------------------------------------
(* Properties *)

LoggerTypeOK ==
  /\ logging \in {"on", "cycle", "writer", "rename", "off", "crashed"}
  /\ detected \in BOOLEAN
  /\ sending \in LogPacket \cup {Sent} /\ late \subseteq LogPacket
  /\ repeats \in 0..MaxRepeats /\ second \in 0..MaxSeconds
  /\ writing \in {"none", "runs", "stop"}
  /\ queue_ \in Seq(LogPacket) /\ batch \in Seq(LogPacket)
  /\ file.trans \in 0..(LogPackets + 1) /\ file.open \in BOOLEAN
  /\ DOMAIN disk \subseteq FileName
  /\ \A n \in DOMAIN disk : disk[n] \in Seq(LogPacket)

\* However packets are repeated, a file holds packets of its own index only, and
\* they never go back, unless the file was created again in between; as long as none was
\* repeated, a file that has its name is whole; and the cleaning never takes the
\* file that is being written.
LogsAreKept ==
  /\ \A n \in DOMAIN disk :
       /\ \A i \in DOMAIN disk[n] : disk[n][i].index = n.index
       /\ \A i, j \in DOMAIN disk[n] :
            i < j => \/ disk[n][i].trans <= disk[n][j].trans
                     \/ \E k \in (i + 1)..j : disk[n][k].flag = "create"
       /\ repeats = 0 /\ logging # "off" /\ ~n.hidden =>
            disk[n] = [i \in 1..(LogPackets + 1) |-> LogBag(n.index, i - 1)]
  /\ file.open /\ logging # "off" => file.name \in DOMAIN disk

\* Destory returns, unless the handler's thread looks at an old packet for ever.
LoggerStops == (logging = "cycle") ~> (logging \in {"off", "crashed"} \/ Spins)
=============================================================================
