---------------------------- MODULE LatestFrame ----------------------------
(***************************************************************************)
(* What the detect node promises of its frames: they are published and     *)
(* shown at most once each and never out of order, a frame is published    *)
(* only after it was captured and shown only after it was published.       *)
(* Frames may be skipped.                                                  *)
(***************************************************************************)
EXTENDS Naturals

VARIABLES
  captured,   \* the newest frame that entered the node
  published,  \* the newest frame with a detect_result
  shown       \* the newest frame on the screen

vars == <<captured, published, shown>>

Init == captured = 0 /\ published = 0 /\ shown = 0

Capture == captured' = captured + 1 /\ UNCHANGED <<published, shown>>

Publish ==
  /\ \E n \in (published + 1)..captured : published' = n
  /\ UNCHANGED <<captured, shown>>

Show ==
  /\ \E n \in (shown + 1)..published : shown' = n
  /\ UNCHANGED <<captured, published>>

Next == Capture \/ Publish \/ Show

Spec == Init /\ [][Next]_vars
=============================================================================
