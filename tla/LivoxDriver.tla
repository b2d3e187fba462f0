---------------------------- MODULE LivoxDriver ----------------------------
(***************************************************************************)
(* From the packets of one lidar to /livox/lidar (livox_ros_driver2).      *)
(* Three threads: the SDK's data thread puts packets into                  *)
(* raw_packet_queue_; RawDataProcess (the writer) takes them, collects     *)
(* their points and from time to time stores a frame in the ring of the    *)
(* lidar; PointCloudDataPollThread (the reader) waits for pcd_semaphore_,  *)
(* empties the ring of a sampling lidar and publishes.  The destructor of  *)
(* the node runs beside them.                                              *)
(*                                                                         *)
(* The ring has no lock: slot and index are written and read in separate   *)
(* steps, in program order (they are volatile).  A packet is its number    *)
(* and a frame the number of its newest packet.  When a frame is complete  *)
(* is a matter of time, of the lidar's or of the clock, and left open.     *)
(***************************************************************************)
EXTENDS Naturals, Sequences

CONSTANTS
  RingSize,    \* slots of the ring, a power of two (16)
  IndexMod,    \* 2^32, the values of rd_idx and wr_idx
  Depth,       \* history depth of the subscription (10)
  MaxPackets   \* packets of one run (a bound)

ASSUME RingAssumption ==
  /\ RingSize \in Nat \ {0} /\ IndexMod \in Nat \ {0}
  /\ \E k \in 2..IndexMod : IndexMod = k * RingSize
ASSUME DriverLimits == Depth \in Nat \ {0} /\ MaxPackets \in Nat

VARIABLES
  arrived,    \* packets received so far
  packets,    \* raw_packet_queue_
  points,     \* points_clouds_: the newest packet in it, 0 when it is empty
  writer,     \* where RawDataProcess is, and its frame
  slot,       \* storage_packet
  wr_idx, rd_idx,
  count,      \* pcd_semaphore_
  connected,  \* connect_state is kConnectStateSampling (see LivoxConnect)
  reader,     \* where the poll thread is, and its frame
  published,  \* the newest frame published
  topic,      \* /livox/lidar: what the subscriber has not handled
  dtor        \* "no", "exit" (request_exit_), "future", "joined"

ringVars == <<slot, wr_idx, rd_idx>>
driverVars ==
  <<arrived, packets, points, writer, ringVars, count, connected, reader, published, topic, dtor>>
-----------------------------------------------------------------------------
Packet == 1..MaxPackets

WriterPlace == {"idle", "store", "bump", "pushed", "dropped"}
ReaderPlace == {"top", "wait", "poll", "ring", "drain", "pop", "publish", "future", "exited"}

At(place, n) == [at |-> place, frame |-> n]

QueueIsEmpty == rd_idx = wr_idx

\* One slot more than there is.
QueueIsFullLate == (wr_idx + IndexMod - rd_idx) % IndexMod > RingSize

QueueIsFull == (wr_idx + IndexMod - rd_idx) % IndexMod > RingSize - 1

KeepLast(s) == IF Len(s) > Depth THEN Tail(s) ELSE s

DriverInit ==
  /\ arrived = 0 /\ packets = <<>> /\ points = 0
  /\ writer = At("idle", 0)
  /\ slot = [i \in 0..(RingSize - 1) |-> 0]
  /\ wr_idx = 0 /\ rd_idx = 0
  /\ count = 0
  /\ connected \in BOOLEAN
  /\ reader = At("top", 0)
  /\ published = 0 /\ topic = <<>>
  /\ dtor = "no"
-----------------------------------------------------------------------------
(* The data thread and the writer                                          *)

OnLivoxLidarPointCloudCallback ==
  /\ arrived < MaxPackets
  /\ arrived' = arrived + 1
  /\ packets' = Append(packets, arrived')
  /\ UNCHANGED <<points, writer, ringVars, count, connected, reader, published, topic, dtor>>

\* PointCloudProcess and CheckTimer: a packet joins the points collected, and
\* if it is time they all become a frame.
RawDataProcess ==
  /\ writer.at = "idle" /\ packets # <<>>
  /\ packets' = Tail(packets)
  /\ \/ points' = Head(packets) /\ UNCHANGED writer
     \/ points' = 0 /\ writer' = At("store", Head(packets))
  /\ UNCHANGED <<arrived, ringVars, count, connected, reader, published, topic, dtor>>

\* QueuePushAny, unless the ring is full: then the new frame is dropped.
StoreFrame ==
  /\ writer.at = "store"
  /\ IF QueueIsFull
     THEN writer' = [writer EXCEPT !.at = "dropped"] /\ UNCHANGED slot
     ELSE /\ slot' = [slot EXCEPT ![wr_idx % RingSize] = writer.frame]
          /\ writer' = [writer EXCEPT !.at = "bump"]
  /\ UNCHANGED <<arrived, packets, points, wr_idx, rd_idx, count, connected, reader, published,
                 topic, dtor>>

BumpWriteIndex ==
  /\ writer.at = "bump"
  /\ wr_idx' = (wr_idx + 1) % IndexMod
  /\ writer' = [writer EXCEPT !.at = "pushed"]
  /\ UNCHANGED <<arrived, packets, points, slot, rd_idx, count, connected, reader, published,
                 topic, dtor>>

\* Nothing is signalled when the frame was dropped.
SignalPushed ==
  /\ writer.at \in {"pushed", "dropped"}
  /\ count' = IF count = 0 /\ writer.at = "pushed" /\ ~QueueIsEmpty THEN 1 ELSE count
  /\ writer' = At("idle", 0)
  /\ UNCHANGED <<arrived, packets, points, ringVars, connected, reader, published, topic, dtor>>

\* The end of PushLidarData.  The count is read without the mutex, but nobody
\* else raises it; behind a push the reader may have emptied the ring already.
SignalReader ==
  /\ writer.at \in {"pushed", "dropped"}
  /\ count' = IF count = 0 /\ (writer.at = "dropped" \/ ~QueueIsEmpty) THEN 1 ELSE count
  /\ writer' = At("idle", 0)
  /\ UNCHANGED <<arrived, packets, points, ringVars, connected, reader, published, topic, dtor>>
-----------------------------------------------------------------------------
(* The reader                                                              *)

\* DistributePointCloudData
Distribute ==
  /\ reader.at = "top"
  /\ reader' = At(IF dtor = "no" THEN "wait" ELSE "future", 0)
  /\ UNCHANGED <<arrived, packets, points, writer, ringVars, count, connected, published, topic, dtor>>

Wait ==
  /\ reader.at = "wait" /\ count > 0
  /\ count' = count - 1
  /\ reader' = At("poll", 0)
  /\ UNCHANGED <<arrived, packets, points, writer, ringVars, connected, published, topic, dtor>>

Poll ==
  /\ reader.at = "poll"
  /\ reader' = At(IF connected THEN "ring" ELSE "future", 0)
  /\ UNCHANGED <<arrived, packets, points, writer, ringVars, count, connected, published, topic, dtor>>

\* The outer loop looks at request_exit_, the inner one (Drain) does not.
PollingLidarPointCloudData ==
  /\ reader.at = "ring"
  /\ reader' = At(IF dtor = "no" /\ ~QueueIsEmpty THEN "drain" ELSE "future", 0)
  /\ UNCHANGED <<arrived, packets, points, writer, ringVars, count, connected, published, topic, dtor>>

\* QueuePrePop copies the slot.
Drain ==
  /\ reader.at = "drain"
  /\ reader' = IF QueueIsEmpty THEN At("ring", 0) ELSE At("pop", slot[rd_idx % RingSize])
  /\ UNCHANGED <<arrived, packets, points, writer, ringVars, count, connected, published, topic, dtor>>

QueuePopUpdate ==
  /\ reader.at = "pop"
  /\ rd_idx' = (rd_idx + 1) % IndexMod
  /\ reader' = [reader EXCEPT !.at = "publish"]
  /\ UNCHANGED <<arrived, packets, points, writer, slot, wr_idx, count, connected, published, topic, dtor>>

PublishPointcloud2 ==
  /\ reader.at = "publish"
  /\ published' = reader.frame
  /\ topic' = KeepLast(Append(topic, reader.frame))
  /\ reader' = At("drain", 0)
  /\ UNCHANGED <<arrived, packets, points, writer, ringVars, count, connected, dtor>>

PollThreadEnds ==
  /\ reader.at = "future"
  /\ reader' = At(IF dtor = "future" THEN "exited" ELSE "top", 0)
  /\ UNCHANGED <<arrived, packets, points, writer, ringVars, count, connected, published, topic, dtor>>

Sampling ==
  /\ ~connected
  /\ connected' = TRUE
  /\ UNCHANGED <<arrived, packets, points, writer, ringVars, count, reader, published, topic, dtor>>

\* RequestExit, set_value, join.
Destructor ==
  /\ \/ dtor = "no" /\ dtor' = "exit"
     \/ dtor = "exit" /\ dtor' = "future"
     \/ dtor = "future" /\ reader.at = "exited" /\ dtor' = "joined"
  /\ UNCHANGED <<arrived, packets, points, writer, ringVars, count, connected, reader, published, topic>>

WriterStep == RawDataProcess \/ StoreFrame \/ BumpWriteIndex \/ SignalReader

ReaderStep ==
  \/ Distribute \/ Wait \/ Poll \/ PollingLidarPointCloudData
  \/ Drain \/ QueuePopUpdate \/ PublishPointcloud2 \/ PollThreadEnds

DriverNext ==
  \/ OnLivoxLidarPointCloudCallback
  \/ WriterStep
  \/ ReaderStep
  \/ Sampling
  \/ Destructor
-----------------------------------------------------------------------------
(* Properties *)

DriverTypeOK ==
  /\ arrived \in 0..MaxPackets
  /\ packets \in Seq(Packet)
  /\ points \in 0..arrived
  /\ writer \in [at : WriterPlace, frame : 0..arrived]
  /\ slot \in [0..(RingSize - 1) -> 0..arrived]
  /\ {wr_idx, rd_idx} \subseteq 0..(IndexMod - 1)
  /\ (wr_idx + IndexMod - rd_idx) % IndexMod <= RingSize
  /\ count \in 0..1
  /\ connected \in BOOLEAN
  /\ reader \in [at : ReaderPlace, frame : 0..arrived]
  /\ published \in 0..arrived
  /\ topic \in Seq(Packet) /\ Len(topic) <= Depth
  /\ dtor \in {"no", "exit", "future", "joined"}

\* While the lidar is sampling, every frame stored or dropped gets the reader to
\* empty the ring, unless the node ends: neither the unlocked look at the count,
\* nor signals spent before the lidar was sampling, nor a ring so full that
\* every new frame is dropped stops the stream for good.
NoCloudStuck ==
  (connected /\ writer.at \in {"pushed", "dropped"}) ~> (QueueIsEmpty \/ dtor # "no")
=============================================================================
