---------------------------- MODULE MCAirTracks ----------------------------
(* Small instances of AirTracks for TLC. *)
EXTENDS AirTracks, TLC

\* 0 is red, 1 and 2 are the two halves of the dead zone, 3 is blue, 4 is
\* outside the field.
MCPlace == 0..4
MCField == 0..3

\* Estimates drift towards the blue end and out of the field.
MCDrift == {0, 1}

\* No action and no property names a block.
Blocks == Permutations(Block)
=============================================================================
