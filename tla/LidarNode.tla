----------------------------- MODULE LidarNode -----------------------------
(***************************************************************************)
(* DynamicCloudNode (lidar.cpp) behind the driver: the callback of         *)
(* /livox/lidar keeps the last frames for the registration and publishes   *)
(* the points that are not part of the map; publishRawLoop, a thread of    *)
(* its own, sends the frames kept to the registration 100 times a second.  *)
(*                                                                         *)
(* The callback needs the transform the registration finds, and the        *)
(* registration needs the clouds this node keeps.  Of the registration     *)
(* (registration_node.cpp, deployed with use_fixed) the way to its first   *)
(* transform is here; what it does from then on is module Registration.    *)
(***************************************************************************)
EXTENDS LivoxDriver

CONSTANTS
  QueueMax,       \* max_size_ of PcdQueue (10)
  AccumulateTime, \* accumulate_time_ (3)
  Blank           \* the frames of which the distance filter leaves nothing

ASSUME NodeAssumption ==
  QueueMax \in Nat \ {0} /\ AccumulateTime \in Nat \ {0} /\ Blank \subseteq Packet

VARIABLES
  handled,      \* the last frame the callback handled
  pcd_queue,    \* pcd_queue_
  accumulated,  \* accumulated_clouds_
  targets,      \* the frames in the last message on target_pointcloud
  sent,         \* the newest frame sent to the registration
  pose,         \* what the registration waits for: a pose ("none"), Quatro
                \* ("given"), its timer ("config"), nothing any more ("sent")
  scans         \* accumulation_counter_, until then

nodeVars == <<handled, pcd_queue, accumulated, targets, sent, pose, scans>>
lidarVars == <<driverVars, nodeVars>>
-----------------------------------------------------------------------------
NodeInit ==
  /\ handled = 0
  /\ pcd_queue = <<>> /\ accumulated = <<>> /\ targets = <<>>
  /\ sent = 0
  /\ pose = "none"
  /\ scans = 0

\* The buffer holds map -> lidar.
tf == pose = "sent"

\* Nothing is taken out.
PushMore(s, n, max) == Append(s, n)

\* push_back, and pop_front when the deque has become too long.
Push(s, n, max) == IF Len(s) < max THEN Append(s, n) ELSE Append(Tail(s), n)

Newest(s) == IF s = <<>> THEN 0 ELSE s[Len(s)]

\* Nothing is kept before the transform is known.
KeepsWithTf(n) == pcd_queue' = IF n \in Blank \/ ~tf THEN pcd_queue ELSE Push(pcd_queue, n, QueueMax)

Keeps(n) == pcd_queue' = IF n \in Blank THEN pcd_queue ELSE Push(pcd_queue, n, QueueMax)

\* The callback: without the transform it returns when the frame has been kept.
\* With it, the frame is added to accumulated_clouds_ if it has points that are
\* not in the map, and what is accumulated is published, new or not.  (The
\* points near the dart and drone places go the same way.)
PointCloudCallback ==
  /\ topic # <<>>
  /\ topic' = Tail(topic)
  /\ LET n == Head(topic)
     IN /\ handled' = n
        /\ Keeps(n)
        /\ \/ UNCHANGED accumulated
           \/ tf /\ n \notin Blank /\ accumulated' = Push(accumulated, n, AccumulateTime)
        /\ targets' = IF tf /\ accumulated' # <<>> THEN accumulated' ELSE targets
  /\ UNCHANGED <<arrived, packets, points, writer, ringVars, count, connected, reader, published,
                 dtor, sent, pose, scans>>

\* publishRawLoop: what is kept is sent, again and again.
PublishRaw ==
  /\ pcd_queue # <<>>
  /\ sent' = Newest(pcd_queue)
  /\ UNCHANGED <<driverVars, handled, pcd_queue, accumulated, targets, pose, scans>>
-----------------------------------------------------------------------------
(* The registration until its first transform.  Nothing can be seen of it      *)
(* before its first scan, so what its parameters say is decided then.          *)

FirstTransform == pose' = "sent" /\ scans' = 0

\* pointcloud_sub_callback takes the configured pose, if Quatro need not run.
TakeConfigPose == pose = "none" /\ pose' = "config" /\ UNCHANGED scans

\* initial_pose_callback, or a configured pose that is not preferred to Quatro:
\* the pose itself is dropped, but from now on the scans are let in.
InitialPoseCb == pose = "none" /\ pose' = "given" /\ UNCHANGED scans

\* pointcloud_sub_callback: Quatro aligns the third scan, and its transform is sent
\* at once; or it fails and needs three more.
CountScan == pose = "given" /\ scans < 2 /\ scans' = scans + 1 /\ UNCHANGED pose

QuatroAligns == pose = "given" /\ scans = 2 /\ FirstTransform

QuatroFails == pose = "given" /\ scans = 2 /\ scans' = 0 /\ UNCHANGED pose

\* timer_callback: the transform is sent, whether the registration converges from
\* the configured guess or falls back on it.
TimerCb == pose = "config" /\ FirstTransform

RegistrationStep ==
  /\ sent > 0
  /\ TakeConfigPose \/ InitialPoseCb \/ CountScan
     \/ QuatroAligns \/ QuatroFails \/ TimerCb
  /\ UNCHANGED <<driverVars, handled, pcd_queue, accumulated, targets, sent>>
-----------------------------------------------------------------------------
LidarInit == DriverInit /\ NodeInit

LidarNext ==
  \/ DriverNext /\ UNCHANGED nodeVars
  \/ PointCloudCallback
  \/ PublishRaw
  \/ RegistrationStep

LidarSpec == LidarInit /\ [][LidarNext]_lidarVars
-----------------------------------------------------------------------------
(* Properties *)

LidarTypeOK ==
  /\ DriverTypeOK
  /\ handled \in 0..published
  /\ pcd_queue \in Seq(Packet) /\ Len(pcd_queue) <= QueueMax
  /\ accumulated \in Seq(Packet) /\ Len(accumulated) <= AccumulateTime
  /\ targets \in Seq(Packet) /\ Len(targets) <= AccumulateTime
  /\ sent \in 0..published
  /\ pose \in {"none", "given", "config", "sent"}
  /\ scans \in 0..2

\* The whole way from the lidar to target_pointcloud implements LatestFrame:
\* through two queues, a ring without a lock whose indices wrap, and a topic
\* that drops what its subscriber is too slow for, frames are skipped but never
\* repeated or reordered.
Clouds == INSTANCE LatestFrame
  WITH captured <- arrived, published <- published, shown <- Newest(targets)

CloudsInOrder == Clouds!Spec

\* The registration starts from the clouds of a node that has no transform yet:
\* the two do not wait for each other, whatever the registration needs first, a
\* scan, three scans again and again or a pose of the operator.
RegistrationStarts == (handled > 0 /\ handled \notin Blank) ~> tf
=============================================================================
