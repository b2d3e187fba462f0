--------------------------- MODULE MCRadarTracks ---------------------------
(* Small instances of RadarTracks for TLC. *)
EXTENDS RadarTracks

\* labels_[0] is "1" (Hero), labels_[1] stands for "S".
MCNumber == {0, 1}
MCCarNo  == [n \in MCNumber |-> IF n = 0 THEN 1 ELSE 7]

MCPlace == 0..1
MCDrift == {-1, 0, 1}

MCNoDrift == {0}

\* Red's Hero and Blue's Sentry: the two teams never share a number.
MCLabels == {<<Red, 0>>, <<Blue, 1>>}
=============================================================================
