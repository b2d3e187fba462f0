----------------------------- MODULE AirTracks -----------------------------
(***************************************************************************)
(* The drone half of RadarNode (radar.cpp): the vector KFs_air_ of Kalman  *)
(* tracks that otherCb feeds from livox/lidar_other, and                   *)
(* air_color_cache_, the side each track was last published with, keyed by *)
(* the address of the track.  appendAirLocations runs at the end of pcdCb  *)
(* and of otherCb and writes the cache.                                    *)
(*                                                                         *)
(* The address of KFs_air_[i] is a slot <<block, i>>: a push_back beyond   *)
(* the capacity moves the vector to another block, and an erase moves the  *)
(* tracks behind the erased one to the slots before theirs.                *)
(*                                                                         *)
(* rclcpp::spin is a single-threaded executor; otherCb is laid out as the  *)
(* steps of its loop as in RadarTracks.  Only the x coordinate matters: the*)
(* field is one line of integer places.                                    *)
(***************************************************************************)
EXTENDS Integers, Sequences, FiniteSets, SequencesExt

CONSTANTS
  Place,       \* where estimates can be (a bound)
  Field,       \* the places inside the field and its 2 m margin
  Drift,       \* how far one KF.predict() can carry an estimate
  RedBelow,    \* x < 13.5 is the red side
  Middle,      \* 14.0
  BlueAbove,   \* x > 14.5 is the blue side
  DetectR,     \* kf_air_detect_r_
  MaxSpeed,    \* kf_air_max_speed_
  MaxDt,       \* the 0.3 s cap on dt_ in match()
  DeleteTime,  \* kf_air_delete_time_
  Confirm,     \* hits from which a drone is published
  Block,       \* the memory blocks the vector can live in (a bound)
  MaxBirths    \* tracks created in one run (a bound)

ASSUME FieldAssumption == Place \subseteq Int /\ Field \subseteq Place
ASSUME SideAssumption ==
  /\ {RedBelow, Middle, BlueAbove} \subseteq Int
  /\ RedBelow <= Middle /\ Middle <= BlueAbove
ASSUME LimitAssumption ==
  /\ {DetectR, MaxSpeed, MaxDt, DeleteTime, MaxBirths} \subseteq Nat
  /\ Confirm \in Nat \ {0}
ASSUME BlockAssumption == Cardinality(Block) >= 2

VARIABLES
  KFs_air,  \* the vector
  born,     \* how many tracks were ever created
  block,    \* the block the vector lives in
  capacity, \* of that block
  cache,    \* air_color_cache_: slot |-> side
  gap,      \* time since the last predict
  phase,    \* of otherCb: "out", "predicted", "matched" (a point was handled),
            \* "erasing" (in the loop that erases)
  at,       \* the index of that loop, counted from one
  shown     \* birth |-> the side and the slot it was last published with

vars == <<KFs_air, born, block, capacity, cache, gap, phase, at, shown>>
-----------------------------------------------------------------------------
(* Tracks *)

Long == DeleteTime + 1

AtMost(n, cap) == IF n <= cap THEN n ELSE cap

Birth == 1..MaxBirths

Side == {"Red", "Blue"}

Slot == Block \X (1..(2 * MaxBirths))

Track ==
  [id   : Birth,
   pos  : Place,         \* predict_point
   dt   : 0..Long,       \* dt_
   idle : 0..Long,       \* last_time
   hits : 1..Confirm]    \* more hits than Confirm make no difference

NewTrack(id, pt) == [id |-> id, pos |-> pt, dt |-> 0, idle |-> 0, hits |-> 1]

Dist(p, q) == IF p <= q THEN q - p ELSE p - q

Matches(t, pt) == Dist(t.pos, pt) < MaxSpeed * AtMost(t.dt, MaxDt) + DetectR

Between(p, q) == {r \in Place : (p <= r /\ r <= q) \/ (q <= r /\ r <= p)}

Corrected(t, p) ==
  [t EXCEPT !.pos = p, !.idle = 0, !.hits = AtMost(@ + 1, Confirm)]

Predicted(t, p) ==
  [t EXCEPT !.pos = p, !.dt = gap, !.idle = AtMost(@ + gap, Long)]

Predictions(t) == {p \in Place : \E d \in Drift : p = t.pos + d}
-----------------------------------------------------------------------------
(* appendAirLocations *)

SlotOf(b, i) == <<b, i>>

\* The tracks that are published: confirmed and not drifted out of the field.
Published(ks) == {i \in DOMAIN ks : ks[i].hits >= Confirm /\ ks[i].pos \in Field}

\* The middle decides in the whole dead zone.
SideForgotten(c, slot, x) == IF x < Middle THEN "Red" ELSE "Blue"

\* What the cache says decides in the dead zone, the middle the first time.
SideOf(c, slot, x) ==
  CASE x < RedBelow                    -> "Red"
    [] x > BlueAbove                   -> "Blue"
    [] x \in RedBelow..BlueAbove       ->
         IF slot \in DOMAIN c THEN c[slot] ELSE IF x < Middle THEN "Red" ELSE "Blue"

\* air_color_cache_, c before, when the tracks ks in block b were published.
CacheAfter(ks, b, c) ==
  LET written == {SlotOf(b, i) : i \in Published(ks)}
  IN [s \in DOMAIN c \cup written |->
        IF s \in written THEN SideOf(c, s, ks[s[2]].pos) ELSE c[s]]

\* What each living drone was last published with, sh before.
ShownAfter(ks, b, c, sh) ==
  LET there == {ks[i].id : i \in DOMAIN ks}
      index == [id \in there |-> CHOOSE i \in DOMAIN ks : ks[i].id = id]
  IN [id \in {ks[i].id : i \in Published(ks)} \cup (there \cap DOMAIN sh) |->
        IF index[id] \in Published(ks)
        THEN [side |-> SideOf(c, SlotOf(b, index[id]), ks[index[id]].pos),
              slot |-> SlotOf(b, index[id])]
        ELSE sh[id]]

AppendAirLocations(ks, b, c) ==
  /\ cache' = CacheAfter(ks, b, c)
  /\ shown' = ShownAfter(ks, b, c, shown)
-----------------------------------------------------------------------------
(* Callbacks *)

Init ==
  /\ KFs_air = <<>>
  /\ born = 0
  /\ block \in Block
  /\ capacity = 0
  /\ cache = [s \in {} |-> "Red"]
  /\ gap = 0
  /\ phase = "out" /\ at = 0
  /\ shown = [k \in {} |-> [side |-> "Red", slot |-> SlotOf(block, 1)]]

Tick ==
  /\ phase = "out"
  /\ gap' = AtMost(gap + 1, Long)
  /\ UNCHANGED <<KFs_air, born, block, capacity, cache, phase, at, shown>>

\* otherCb of a cloud with a cluster inside the field: predict every track.
\* (The last conjunct keeps out the clouds the bound on births cannot handle.)
OtherPredict ==
  /\ phase = "out"
  /\ \E p \in [DOMAIN KFs_air -> Place] :
       /\ \A i \in DOMAIN KFs_air : p[i] \in Predictions(KFs_air[i])
       /\ KFs_air' = [i \in DOMAIN KFs_air |-> Predicted(KFs_air[i], p[i])]
  /\ \/ born < MaxBirths
     \/ \E i \in DOMAIN KFs_air, pt \in Field : Matches(KFs_air'[i], pt)
  /\ gap' = 0
  /\ phase' = "predicted"
  /\ UNCHANGED <<born, block, capacity, cache, at, shown>>

\* In the loop over the centres.
InLoop == phase \in {"predicted", "matched"}

\* The capacity is not looked at.
OtherCreateInPlace(pt) ==
  /\ InLoop
  /\ born < MaxBirths
  /\ \A i \in DOMAIN KFs_air : ~Matches(KFs_air[i], pt)
  /\ born' = born + 1
  /\ KFs_air' = Append(KFs_air, NewTrack(born + 1, pt))
  /\ phase' = "matched"
  /\ UNCHANGED <<block, capacity, cache, gap, at, shown>>

\* A centre no track matches: push_back, which moves the vector to another
\* block (any but the one it copies from) when the capacity is used up.
OtherCreate(pt) ==
  /\ InLoop
  /\ born < MaxBirths
  /\ \A i \in DOMAIN KFs_air : ~Matches(KFs_air[i], pt)
  /\ born' = born + 1
  /\ KFs_air' = Append(KFs_air, NewTrack(born + 1, pt))
  /\ \/ /\ Len(KFs_air) < capacity
        /\ UNCHANGED <<block, capacity>>
     \/ /\ Len(KFs_air) = capacity
        /\ capacity' = IF capacity = 0 THEN 1 ELSE 2 * capacity
        /\ block' \in Block \ {block}
  /\ phase' = "matched"
  /\ UNCHANGED <<cache, gap, at, shown>>

\* A centre some tracks match: the closest, the first of them, is updated.
OtherUpdate(pt, i) ==
  /\ InLoop
  /\ i \in DOMAIN KFs_air
  /\ Matches(KFs_air[i], pt)
  /\ \A j \in DOMAIN KFs_air \ {i} :
       Matches(KFs_air[j], pt) =>
         \/ Dist(KFs_air[i].pos, pt) < Dist(KFs_air[j].pos, pt)
         \/ Dist(KFs_air[i].pos, pt) = Dist(KFs_air[j].pos, pt) /\ i < j
  /\ \E p \in Between(KFs_air[i].pos, pt) :
       KFs_air' = [KFs_air EXCEPT ![i] = Corrected(@, p)]
  /\ phase' = "matched"
  /\ UNCHANGED <<born, block, capacity, cache, gap, at, shown>>

\* The loop that erases begins at the end of the vector.
OtherErase ==
  /\ phase = "matched"
  /\ phase' = "erasing"
  /\ at' = Len(KFs_air)
  /\ UNCHANGED <<KFs_air, born, block, capacity, cache, gap, shown>>

Expired(i) == KFs_air[i].idle > DeleteTime

\* The track at i goes, with the entry of its address, and those behind it move up.
Erase(i) ==
  /\ cache' = Restrict(cache, DOMAIN cache \ {SlotOf(block, i)})
  /\ KFs_air' = RemoveAt(KFs_air, i)

\* The index moves once more after an erase.
EraseStepTwice ==
  /\ phase = "erasing" /\ at \in DOMAIN KFs_air
  /\ \/ Expired(at) /\ Erase(at) /\ at' = IF at > 1 THEN at - 2 ELSE 0
     \/ ~Expired(at) /\ UNCHANGED <<KFs_air, cache>> /\ at' = at - 1
  /\ UNCHANGED <<born, block, capacity, gap, phase, shown>>

\* One round of it: what is behind the index has been looked at.
EraseStep ==
  /\ phase = "erasing" /\ at \in DOMAIN KFs_air
  /\ \/ Expired(at) /\ Erase(at)
     \/ ~Expired(at) /\ UNCHANGED <<KFs_air, cache>>
  /\ at' = at - 1
  /\ UNCHANGED <<born, block, capacity, gap, phase, shown>>

\* The end of otherCb: what is left is published.
OtherFinish ==
  /\ phase = "erasing" /\ at = 0
  /\ phase' = "out"
  /\ AppendAirLocations(KFs_air, block, cache)
  /\ UNCHANGED <<KFs_air, born, block, capacity, gap, at>>

\* The end of pcdCb: the drones are published with the ground tracks.
PcdCb ==
  /\ phase = "out"
  /\ AppendAirLocations(KFs_air, block, cache)
  /\ UNCHANGED <<KFs_air, born, block, capacity, gap, phase, at>>

Next ==
  \/ Tick
  \/ OtherPredict
  \/ \E pt \in Field : OtherCreate(pt)
  \/ \E pt \in Field, i \in Birth : OtherUpdate(pt, i)
  \/ OtherErase
  \/ EraseStep
  \/ OtherFinish
  \/ PcdCb

Spec == Init /\ [][Next]_vars
-----------------------------------------------------------------------------
(* Properties *)

TypeOK ==
  /\ KFs_air \in Seq(Track)
  /\ \A i, j \in DOMAIN KFs_air : i < j => KFs_air[i].id < KFs_air[j].id
  /\ \A i \in DOMAIN KFs_air : KFs_air[i].id <= born
  /\ born \in 0..MaxBirths
  /\ block \in Block
  /\ capacity \in Nat /\ Len(KFs_air) <= capacity
  /\ DOMAIN cache \subseteq Slot /\ \A s \in DOMAIN cache : cache[s] \in Side
  /\ gap \in 0..Long
  /\ phase \in {"out", "predicted", "matched", "erasing"}
  /\ at \in 0..Len(KFs_air)
  /\ \A k \in DOMAIN shown : shown[k] \in [side : Side, slot : Slot]

\* No expired track is stepped over while the vector shrinks under the index of the
\* loop: when otherCb returns no drone is left that went unconfirmed for longer
\* than kf_air_delete_time_ at the last predict, whichever neighbours expired too.
NoGhostDrone ==
  phase = "out" => \A i \in DOMAIN KFs_air : ~Expired(i)

\* The estimates between the two thresholds.
DeadZone == RedBelow..BlueAbove

\* The hysteresis, as far as the code gives it: a drone published again from
\* the same slot, inside the dead zone, keeps its side, whatever was created,
\* erased and published in between.
SameSlotSameSide ==
  [][\A i \in DOMAIN KFs_air' :
       LET drone == KFs_air'[i]
           k     == drone.id
       IN k \in DOMAIN shown \cap DOMAIN shown' /\ drone.pos \in DeadZone
            /\ shown'[k].slot = shown[k].slot
            => shown'[k].side = shown[k].side]_vars

\* The hysteresis as README.md states it, per track: a drone published inside
\* the dead zone keeps its side.  An erase or a push_back can move the track to
\* a slot with no entry, or with the entry of another one.
HysteresisPerKF ==
  [][\A i \in DOMAIN KFs_air' :
       LET drone == KFs_air'[i]
           k     == drone.id
       IN k \in DOMAIN shown \cap DOMAIN shown' /\ drone.pos \in DeadZone
            => shown'[k].side = shown[k].side]_vars
=============================================================================
