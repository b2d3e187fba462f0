----------------------------- MODULE HikCamera -----------------------------
(***************************************************************************)
(* The shared memory /hik_camera between two processes: the camera node    *)
(* (hik_camera_node.cpp) creates it and writes images, the detect node     *)
(* (init_hik_shared_memory and hik_worker in detect.cpp) maps it and       *)
(* copies them.  There is no lock, only frame_index, which the camera      *)
(* raises when an image is complete.                                       *)
(*                                                                         *)
(* The camera node can be killed at any step, or stop, and be started      *)
(* again.  The name in /dev/shm denotes a segment, one per incarnation of  *)
(* the camera; a mapping keeps its segment when the name is gone.  An      *)
(* image has two rows, written and copied one at a time.                   *)
(***************************************************************************)
EXTENDS Integers

CONSTANTS
  MaxCameras,  \* starts of the camera node in one run (a bound)
  MaxImages    \* images of one incarnation (a bound; the index is a uint32)

ASSUME HikAssumption == MaxCameras \in Nat /\ MaxImages \in Nat

VARIABLES
  camera,  \* where the camera node is
  starts,  \* its incarnation
  name,    \* the segment /dev/shm/hik_camera denotes, 0 if there is none
  seg,     \* the segments
  client,  \* where the detect node is
  mapped,  \* the segment shm_ptr_ maps, 0 if it is null
  last,    \* last_frame_index_
  copy,    \* the image being cloned
  image    \* the last image pushed to process_queue_

hikVars == <<camera, starts, name, seg, client, mapped, last, copy, image>>
-----------------------------------------------------------------------------
Row == {1, 2}

Camera == 1..MaxCameras

CameraPlace ==
  {"off", "unlink", "create", "truncate", "header", "row1", "row2", "index"}

ClientPlace ==
  {"new", "width", "remap", "null", "loop", "copy1", "copy2", "push", "killed"}

Pixels == [cam : 0..MaxCameras, number : 0..MaxImages]   \* cam 0: the zeros of ftruncate

Blank0 == [cam |-> 0, number |-> 0]

NoIndex == -1   \* 0xFFFFFFFF

Segment ==
  [sized : BOOLEAN,     \* ftruncate was called: before, every access is a SIGBUS
   width : BOOLEAN,     \* width and height are written
   index : 0..MaxImages,
   rows  : [Row -> Pixels]]

HikInit ==
  /\ camera = "off" /\ starts = 0 /\ name = 0
  /\ seg = [c \in Camera |->
              [sized |-> FALSE, width |-> FALSE, index |-> 0, rows |-> [r \in Row |-> Blank0]]]
  /\ client = "new" /\ mapped = 0 /\ last = NoIndex
  /\ copy = [r \in Row |-> Blank0]
  /\ image = [index |-> NoIndex, rows |-> [r \in Row |-> Blank0]]
-----------------------------------------------------------------------------
(* The camera node                                                         *)

CameraGoes(from, to) == camera = from /\ camera' = to

StartCamera ==
  /\ CameraGoes("off", "unlink")
  /\ starts < MaxCameras
  /\ starts' = starts + 1
  /\ UNCHANGED <<name, seg, client, mapped, last, copy, image>>

\* The old segment is not unlinked first.
UnlinkNot ==
  /\ CameraGoes("unlink", "create")
  /\ UNCHANGED <<starts, name, seg, client, mapped, last, copy, image>>

Unlink ==
  /\ CameraGoes("unlink", "create")
  /\ name' = 0
  /\ UNCHANGED <<starts, seg, client, mapped, last, copy, image>>

\* O_CREAT opens the segment that has the name, if there is one.
Create ==
  /\ CameraGoes("create", "truncate")
  /\ name' = IF name = 0 THEN starts ELSE name
  /\ UNCHANGED <<starts, seg, client, mapped, last, copy, image>>

Truncate ==
  /\ CameraGoes("truncate", "header")
  /\ seg' = [seg EXCEPT ![name].sized = TRUE]
  /\ UNCHANGED <<starts, name, client, mapped, last, copy, image>>

InitHeader ==
  /\ CameraGoes("header", "row1")
  /\ seg' = [seg EXCEPT ![name].width = TRUE, ![name].index = 0]
  /\ UNCHANGED <<starts, name, client, mapped, last, copy, image>>

\* The image being written.
Current == [cam |-> starts, number |-> seg[name].index + 1]

\* write_shared_memory: the data, then the index.
WriteRow(r, to) ==
  /\ CameraGoes(IF r = 1 THEN "row1" ELSE "row2", to)
  /\ seg[name].index < MaxImages
  /\ seg' = [seg EXCEPT ![name].rows[r] = Current]
  /\ UNCHANGED <<starts, name, client, mapped, last, copy, image>>

BumpIndex ==
  /\ CameraGoes("index", "row1")
  /\ seg' = [seg EXCEPT ![name].index = @ + 1]
  /\ UNCHANGED <<starts, name, client, mapped, last, copy, image>>

\* The index announces the image before it is there.
WriteImageIndexFirst ==
  \/ /\ CameraGoes("row1", "row2")
     /\ seg[name].index < MaxImages
     /\ seg' = [seg EXCEPT ![name].index = @ + 1,
                           ![name].rows[1] = Current]
     /\ UNCHANGED <<starts, name, client, mapped, last, copy, image>>
  \/ /\ CameraGoes("row2", "row1")
     /\ seg' = [seg EXCEPT ![name].rows[2] = [cam |-> starts, number |-> seg[name].index]]
     /\ UNCHANGED <<starts, name, client, mapped, last, copy, image>>

\* A grabbing timeout or a failed conversion writes nothing.
WriteImage == WriteRow(1, "row2") \/ WriteRow(2, "index") \/ BumpIndex

\* The destructor stops the thread between two images and takes the name away;
\* a node that is killed leaves the name behind, and the image half written.
StopCamera ==
  /\ CameraGoes("row1", "off")
  /\ name' = 0
  /\ UNCHANGED <<starts, seg, client, mapped, last, copy, image>>

KillCamera ==
  /\ camera # "off"
  /\ camera' = "off"
  /\ UNCHANGED <<starts, name, seg, client, mapped, last, copy, image>>
-----------------------------------------------------------------------------
(* The detect node                                                         *)

ClientGoes(from, to) == client = from /\ client' = to

\* init_hik_shared_memory is called once.  The first mapping is of the header;
\* without a segment, or with a width of 0, there will never be an image.
OpenHeader ==
  /\ ClientGoes("new", IF name = 0 THEN "null" ELSE "width")
  /\ mapped' = name
  /\ UNCHANGED <<camera, starts, name, seg, last, copy, image>>

ReadWidth ==
  /\ ClientGoes("width", CASE ~seg[mapped].sized -> "killed"
                           [] seg[mapped].sized /\ ~seg[mapped].width -> "null"
                           [] OTHER -> "remap")
  /\ mapped' = 0
  /\ UNCHANGED <<camera, starts, name, seg, last, copy, image>>

\* The name is looked up a second time.
OpenImage ==
  /\ ClientGoes("remap", IF name = 0 THEN "null" ELSE "loop")
  /\ mapped' = name
  /\ UNCHANGED <<camera, starts, name, seg, last, copy, image>>

\* hik_worker: a new index, which is remembered before the image is copied.
HikWorker ==
  /\ client = "loop"
  /\ IF seg[mapped].sized
     THEN /\ seg[mapped].index # last
          /\ last' = seg[mapped].index
          /\ client' = "copy1"
     ELSE client' = "killed" /\ UNCHANGED last
  /\ UNCHANGED <<camera, starts, name, seg, mapped, copy, image>>

CopyRow(r, to) ==
  /\ ClientGoes(IF r = 1 THEN "copy1" ELSE "copy2", to)
  /\ copy' = [copy EXCEPT ![r] = seg[mapped].rows[r]]
  /\ UNCHANGED <<camera, starts, name, seg, mapped, last, image>>

\* The index is remembered when the image has been copied.
PushImageMarksLate ==
  /\ ClientGoes("push", "loop")
  /\ image' = [index |-> last, rows |-> copy]
  /\ last' = seg[mapped].index
  /\ UNCHANGED <<camera, starts, name, seg, mapped, copy>>

PushImage ==
  /\ ClientGoes("push", "loop")
  /\ image' = [index |-> last, rows |-> copy]
  /\ UNCHANGED <<camera, starts, name, seg, mapped, last, copy>>

WriterOfImages ==
  \/ Unlink \/ Create \/ Truncate \/ InitHeader
  \/ WriteImage

ReaderOfImages ==
  \/ OpenHeader \/ ReadWidth \/ OpenImage
  \/ HikWorker \/ CopyRow(1, "copy2") \/ CopyRow(2, "push") \/ PushImage

HikNext ==
  \/ StartCamera \/ StopCamera \/ KillCamera
  \/ WriterOfImages
  \/ ReaderOfImages

HikSpec == HikInit /\ [][HikNext]_hikVars
-----------------------------------------------------------------------------
(* Properties *)

HikTypeOK ==
  /\ camera \in CameraPlace
  /\ starts \in 0..MaxCameras
  /\ name \in 0..MaxCameras
  /\ seg \in [Camera -> Segment]
  /\ client \in ClientPlace
  /\ mapped \in 0..MaxCameras
  /\ last \in {NoIndex} \cup 0..MaxImages
  /\ copy \in [Row -> Pixels]
  /\ image \in [index : {NoIndex} \cup 0..MaxImages, rows : [Row -> Pixels]]

\* A copy may be torn, but no row of it is older than the index announced:
\* what a frame that is processed shows was there when it was found.
ImageNotOlderThanIndex == \A r \in Row : image.rows[r].number >= image.index

\* A detect node never sees two incarnations of the camera: a camera that is
\* started again leaves the segment of a reader alone.
ImagesOfOneCamera ==
  \A r, s \in Row :
    image.rows[r].cam # 0 /\ copy[s].cam # 0 => image.rows[r].cam = copy[s].cam

\* However torn a copy is, the index it was found by holds for all of it.
ImageIsSound == ImageNotOlderThanIndex /\ ImagesOfOneCamera

\* Every image that is complete is read in one piece, or a newer one is: a torn
\* copy is always followed by another.
LastImageIsWhole ==
  \A n \in 1..MaxImages :
    (client = "loop" /\ seg[mapped].index = n)
      ~> (\A r \in Row : image.rows[r].number >= n)
=============================================================================
