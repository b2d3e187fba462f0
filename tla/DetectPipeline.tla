--------------------------- MODULE DetectPipeline ---------------------------
(***************************************************************************)
(* The threads of DetectorNode (detect.cpp): the camera side (a callback   *)
(* of the executor, or hik_worker), decode_worker, process_loop,           *)
(* display_loop, and the thread that runs the destructor after spin        *)
(* returned.  They exchange frames through three queues.                   *)
(*                                                                         *)
(* A critical section is one step, with one exception: in                  *)
(* cv.wait(lock, pred) the predicate is evaluated in one step ("check")    *)
(* and the thread goes to sleep in another ("block"), because the          *)
(* destructor sets the flag of the predicate and notifies without the      *)
(* mutex.  The mutex of the queue is held in between, so whoever pushes    *)
(* waits while its reader is at "block".                                   *)
(***************************************************************************)
EXTENDS Naturals, Sequences

CONSTANTS
  DisplayCap,  \* the limit of display_queue_ (3)
  MaxFrames    \* frames captured in one run (a bound)

ASSUME CapAssumption == DisplayCap \in Nat \ {0} /\ MaxFrames \in Nat

VARIABLES
  mode,       \* camera.mode: "hik", "rosbag" or "image"
  ok,         \* rclcpp::ok()
  captured,   \* frames that entered the node so far, numbered in order
  queue,      \* decode_queue_, process_queue_, display_queue_ by their reader
  hand,       \* the frame a thread took from its queue
  pc,         \* where a thread is
  published,  \* the frame of the last detect_result
  shown,      \* the frame displayed last
  stop,       \* the threads whose stop flag is set
  dtor        \* the destructor: which thread it stops, and the step

vars == <<mode, ok, captured, queue, hand, pc, published, shown, stop, dtor>>
-----------------------------------------------------------------------------
Thread == {"hik", "decode", "process", "display"}
Reader == Thread \ {"hik"}
Sleeper == {"decode", "display"}   \* the threads that wait without a timeout

\* The order in which the destructor stops the threads.
StopOrder == <<"hik", "decode", "process", "display">>

Place == {"top", "check", "block", "waiting", "work", "enqueue", "exited"}

Frame == 1..MaxFrames

\* The loop condition of every thread.
Continue(t) == ok /\ t \notin stop

\* A push waits for the mutex a reader holds until it sleeps.
Free(t) == pc[t] # "block"

\* notify_one and notify_all: a sleeping thread evaluates its predicate again.
Notified(pcs, t) ==
  IF pcs[t] = "waiting" THEN [pcs EXCEPT ![t] = "check"] ELSE pcs

Goto(t, place) == pc' = [pc EXCEPT ![t] = place]
-----------------------------------------------------------------------------
Init ==
  /\ mode \in {"hik", "rosbag", "image"}
  /\ ok = TRUE
  /\ captured = 0
  /\ queue = [t \in Reader |-> <<>>]
  /\ hand = [t \in Reader |-> 0]
  /\ pc = [t \in Thread |->
             IF t = (IF mode = "hik" THEN "decode" ELSE "hik") THEN "exited" ELSE "top"]
  /\ published = 0
  /\ shown = 0
  /\ stop = {}
  /\ dtor = [at |-> 0, step |-> "stop"]

\* A frame arrives: its number is pushed to the queue of t.
Push(t) ==
  /\ captured < MaxFrames
  /\ Free(t)
  /\ captured' = captured + 1
  /\ queue' = [queue EXCEPT ![t] = Append(@, captured + 1)]

\* The executor still runs a callback, which may have started before rclcpp was
\* shut down.
Spinning == dtor.at = 0

\* The decode worker is not notified.
CompressedCallbackSilent ==
  /\ mode = "rosbag" /\ Spinning
  /\ Push("decode")
  /\ UNCHANGED <<mode, ok, hand, pc, published, shown, stop, dtor>>

CompressedCallback ==
  /\ mode = "rosbag" /\ Spinning
  /\ Push("decode")
  /\ pc' = Notified(pc, "decode")
  /\ UNCHANGED <<mode, ok, hand, published, shown, stop, dtor>>

\* The process thread never sleeps longer than 2 ms: nobody needs to wake it.
ImageCallback ==
  /\ mode = "image" /\ Spinning
  /\ Push("process")
  /\ UNCHANGED <<mode, ok, hand, pc, published, shown, stop, dtor>>

\* One round of hik_worker: a new frame, or none.
HikRead ==
  /\ pc["hik"] = "check"
  /\ \/ Push("process")
     \/ UNCHANGED <<captured, queue>>
  /\ Goto("hik", "top")
  /\ UNCHANGED <<mode, ok, hand, published, shown, stop, dtor>>
-----------------------------------------------------------------------------
(* The loops *)

Top(t) ==
  /\ pc[t] = "top"
  /\ Goto(t, IF Continue(t) THEN "check" ELSE "exited")
  /\ UNCHANGED <<mode, ok, captured, queue, hand, published, shown, stop, dtor>>

\* The predicate of cv.wait, and what follows when it holds.
Check(t) ==
  /\ pc[t] = "check"
  /\ \/ /\ t \in stop
        /\ Goto(t, "exited")
        /\ UNCHANGED <<queue, hand>>
     \/ /\ t \notin stop
        /\ queue[t] # <<>>
        /\ hand' = [hand EXCEPT ![t] = Head(queue[t])]
        /\ queue' = [queue EXCEPT ![t] = Tail(@)]
        /\ Goto(t, "work")
     \/ /\ t \notin stop
        /\ queue[t] = <<>>
        /\ Goto(t, "block")
        /\ UNCHANGED <<queue, hand>>
  /\ UNCHANGED <<mode, ok, captured, published, shown, stop, dtor>>

Block(t) ==
  /\ pc[t] = "block"
  /\ Goto(t, "waiting")
  /\ UNCHANGED <<mode, ok, captured, queue, hand, published, shown, stop, dtor>>

\* A condition variable may wake a thread for no reason.
WakeSpuriously(t) ==
  /\ pc[t] = "waiting"
  /\ Goto(t, "check")
  /\ UNCHANGED <<mode, ok, captured, queue, hand, published, shown, stop, dtor>>

\* imdecode outside the lock; a picture that cannot be decoded is dropped.
Decode ==
  /\ pc["decode"] = "work"
  /\ \/ queue' = [queue EXCEPT !["process"] = Append(@, hand["decode"])]
     \/ UNCHANGED queue
  /\ Goto("decode", "top")
  /\ UNCHANGED <<mode, ok, captured, hand, published, shown, stop, dtor>>

\* The rest of the queue is kept.
TakeAndKeep ==
  /\ pc["process"] = "check"
  /\ \/ /\ queue["process"] = <<>>
        /\ Goto("process", "top")
        /\ UNCHANGED <<queue, hand>>
     \/ /\ queue["process"] # <<>>
        /\ hand' = [hand EXCEPT !["process"] = queue["process"][Len(queue["process"])]]
        /\ queue' = [queue EXCEPT !["process"] = SubSeq(@, 1, Len(@) - 1)]
        /\ Goto("process", "work")
  /\ UNCHANGED <<mode, ok, captured, published, shown, stop, dtor>>

\* The oldest frame is taken, the newer ones are dropped.
TakeOldest ==
  /\ pc["process"] = "check"
  /\ \/ /\ queue["process"] = <<>>
        /\ Goto("process", "top")
        /\ UNCHANGED <<queue, hand>>
     \/ /\ queue["process"] # <<>>
        /\ hand' = [hand EXCEPT !["process"] = Head(queue["process"])]
        /\ queue' = [queue EXCEPT !["process"] = <<>>]
        /\ Goto("process", "work")
  /\ UNCHANGED <<mode, ok, captured, published, shown, stop, dtor>>

\* wait instead of wait_for: only a frame ends the wait.
TakeUntimed ==
  /\ pc["process"] = "check"
  /\ queue["process"] # <<>>
  /\ hand' = [hand EXCEPT !["process"] = queue["process"][Len(queue["process"])]]
  /\ queue' = [queue EXCEPT !["process"] = <<>>]
  /\ Goto("process", "work")
  /\ UNCHANGED <<mode, ok, captured, published, shown, stop, dtor>>

\* The newest frame is taken, the others are dropped; without a frame the wait
\* ends after 2 ms and the loop starts again.
Take ==
  /\ pc["process"] = "check"
  /\ \/ /\ queue["process"] = <<>>
        /\ Goto("process", "top")
        /\ UNCHANGED <<queue, hand>>
     \/ /\ queue["process"] # <<>>
        /\ hand' = [hand EXCEPT !["process"] = queue["process"][Len(queue["process"])]]
        /\ queue' = [queue EXCEPT !["process"] = <<>>]
        /\ Goto("process", "work")
  /\ UNCHANGED <<mode, ok, captured, published, shown, stop, dtor>>

\* process_frame up to publish: which frame the result is of.  What the result
\* says (inference, tracker, labels) is left out here.
ProcessFrame ==
  /\ pc["process"] = "work"
  /\ published' = hand["process"]
  /\ Goto("process", "enqueue")
  /\ UNCHANGED <<mode, ok, captured, queue, hand, shown, stop, dtor>>

\* The limit is not checked.
EnqueueDisplayUnbounded ==
  /\ pc["process"] = "enqueue"
  /\ Free("display")
  /\ queue' = [queue EXCEPT !["display"] = Append(@, hand["process"])]
  /\ pc' = Notified([pc EXCEPT !["process"] = "top"], "display")
  /\ UNCHANGED <<mode, ok, captured, hand, published, shown, stop, dtor>>

\* The end of process_frame: a display task, unless the queue is full.
EnqueueDisplay ==
  /\ pc["process"] = "enqueue"
  /\ Free("display")
  /\ queue' = IF Len(queue["display"]) < DisplayCap
              THEN [queue EXCEPT !["display"] = Append(@, hand["process"])]
              ELSE queue
  /\ pc' = Notified([pc EXCEPT !["process"] = "top"], "display")
  /\ UNCHANGED <<mode, ok, captured, hand, published, shown, stop, dtor>>

Display ==
  /\ pc["display"] = "work"
  /\ shown' = hand["display"]
  /\ Goto("display", "top")
  /\ UNCHANGED <<mode, ok, captured, queue, hand, published, stop, dtor>>
-----------------------------------------------------------------------------
(* The end *)

\* SIGINT: rclcpp is shut down.
Signal ==
  /\ ok
  /\ ok' = FALSE
  /\ UNCHANGED <<mode, captured, queue, hand, pc, published, shown, stop, dtor>>

\* spin returns, after the callback that runs, and the node is destroyed.
SpinReturns ==
  /\ ~ok /\ dtor.at = 0
  /\ dtor' = [dtor EXCEPT !.at = 1]
  /\ UNCHANGED <<mode, ok, captured, queue, hand, pc, published, shown, stop>>

Stopping == StopOrder[dtor.at]

DtorStop ==
  /\ dtor.at \in DOMAIN StopOrder /\ dtor.step = "stop"
  /\ stop' = stop \cup {Stopping}
  /\ dtor' = [dtor EXCEPT !.step = "notify"]
  /\ UNCHANGED <<mode, ok, captured, queue, hand, pc, published, shown>>

\* The flag is set and nobody is told.
DtorNotifyNot ==
  /\ dtor.at \in DOMAIN StopOrder /\ dtor.step = "notify"
  /\ dtor' = [dtor EXCEPT !.step = "join"]
  /\ UNCHANGED <<mode, ok, captured, queue, hand, pc, published, shown, stop>>

\* hik_worker has no condition variable and never sleeps: nothing happens.
DtorNotify ==
  /\ dtor.at \in DOMAIN StopOrder /\ dtor.step = "notify"
  /\ pc' = Notified(pc, Stopping)
  /\ dtor' = [dtor EXCEPT !.step = "join"]
  /\ UNCHANGED <<mode, ok, captured, queue, hand, published, shown, stop>>

\* The display thread is not joined.
DtorJoinButDisplay ==
  /\ dtor.at \in DOMAIN StopOrder /\ dtor.step = "join"
  /\ Stopping = "display" \/ pc[Stopping] = "exited"
  /\ dtor' = [at |-> dtor.at + 1, step |-> "stop"]
  /\ UNCHANGED <<mode, ok, captured, queue, hand, pc, published, shown, stop>>

\* A thread that was never started is not joinable: it counts as exited.
DtorJoin ==
  /\ dtor.at \in DOMAIN StopOrder /\ dtor.step = "join"
  /\ pc[Stopping] = "exited"
  /\ dtor' = [at |-> dtor.at + 1, step |-> "stop"]
  /\ UNCHANGED <<mode, ok, captured, queue, hand, pc, published, shown, stop>>

ProcessStep == Top("process") \/ Take \/ ProcessFrame \/ EnqueueDisplay
HikStep     == Top("hik") \/ HikRead
DecodeStep  == Top("decode") \/ Check("decode") \/ Block("decode") \/ Decode
DisplayStep == Top("display") \/ Check("display") \/ Block("display") \/ Display
DtorStep    == DtorStop \/ DtorNotify \/ DtorJoin

Next ==
  \/ CompressedCallback
  \/ ImageCallback
  \/ HikStep
  \/ DecodeStep
  \/ ProcessStep
  \/ DisplayStep
  \/ \E t \in Sleeper : WakeSpuriously(t)
  \/ Signal
  \/ SpinReturns
  \/ DtorStep

Spec == Init /\ [][Next]_vars

\* Every thread that can run runs again, and one that waits for a mutex others
\* take and release gets it in the end.  Neither frames, nor spurious wake-ups,
\* nor the shutdown have to happen.
Fairness ==
  /\ WF_vars(HikStep) /\ WF_vars(DecodeStep) /\ WF_vars(DisplayStep)
  /\ SF_vars(ProcessStep)
  /\ WF_vars(DtorStep)

FairSpec == Spec /\ Fairness
-----------------------------------------------------------------------------
(* Properties *)

TypeOK ==
  /\ mode \in {"hik", "rosbag", "image"}
  /\ ok \in BOOLEAN
  /\ captured \in 0..MaxFrames
  /\ queue \in [Reader -> Seq(Frame)]
  /\ Len(queue["display"]) <= DisplayCap
  /\ hand \in [Reader -> {0} \cup Frame]
  /\ pc \in [Thread -> Place]
  /\ published \in 0..captured
  /\ shown \in 0..published
  /\ stop \subseteq Thread
  /\ dtor \in [at : 0..5, step : {"stop", "notify", "join"}]

\* The queues, the dropping at both ends and the three threads together never
\* reorder or repeat a frame: the pipeline implements LatestFrame.
Latest == INSTANCE LatestFrame
  WITH captured <- captured, published <- published, shown <- shown

LatestSpec == Latest!Spec

\* When the destructor is through, and the members it used to guard go away, no
\* thread is left that could touch them.
NoThreadOutlivesNode ==
  dtor.at > Len(StopOrder) => \A t \in Thread : pc[t] = "exited"

\* A frame that is the newest to be processed is published, or a newer one is,
\* unless the node shuts down: dropping the backlog never drops the newest.
NewestIsPublished ==
  \A n \in Frame :
    (queue["process"] # <<>> /\ queue["process"][Len(queue["process"])] = n)
      ~> (published >= n \/ ~ok)

\* What waits for a sleeping thread is taken: while the node runs, no wake-up
\* is lost between the predicate and the sleep.
NoLostWakeup ==
  \A t \in Sleeper, n \in Frame :
    (\E i \in DOMAIN queue[t] : queue[t][i] = n)
      ~> (~ok \/ \A i \in DOMAIN queue[t] : queue[t][i] # n)

\* The destructor's notification comes while the thread it stops holds the mutex
\* between its predicate and its sleep.
NotifiedTooEarly ==
  /\ dtor.at \in DOMAIN StopOrder /\ dtor.step = "join"
  /\ pc[Stopping] = "block"

\* Only that keeps the destructor: a sleeping thread gets its notification, one that
\* works comes back to its predicate or its loop condition, and the process thread
\* sees its flag by the timeout of its wait, whatever it misses.
ShutdownEnds ==
  dtor.at = 1 ~> (dtor.at > Len(StopOrder) \/ NotifiedTooEarly)
=============================================================================
