----------------------------- MODULE CarTracks -----------------------------
(***************************************************************************)
(* What process_frame of detect.cpp keeps from one frame to the next: the  *)
(* tracks of ObjectTracker (tracker.cpp), which give a car box an id, and  *)
(* track_histories_, which vote on the colour and the digit of an id.      *)
(* The two forget by rules of their own: a track after max_lost_ frames    *)
(* without a box, a history after five frames without an armour plate.     *)
(*                                                                         *)
(* A box is the place of a car on a line.  The IoU of two boxes falls with *)
(* their distance and exceeds iou_thr_ up to distance 1.                   *)
(***************************************************************************)
EXTENDS Integers, Sequences, FiniteSets

CONSTANTS
  Places,      \* where a car box can be
  Digits,      \* labels_
  Plates,      \* the colours of plates that occur (a bound: red and blue)
  MaxBoxes,    \* boxes of one frame (a bound)
  MinHits,     \* min_hits_, 3
  MaxLost,     \* max_lost_, 30
  MaxMissed,   \* misses that erase a history, 5
  MaxHistory,  \* MAX_HISTORY, 7
  MaxFrames    \* frames of one run (a bound)

ASSUME CarAssumption ==
  /\ Places \subseteq Nat /\ Digits \subseteq Nat /\ Digits # {}
  /\ Plates \subseteq {"B", "R"}
  /\ {MaxBoxes, MinHits, MaxFrames} \subseteq Nat
  /\ {MaxLost, MaxMissed, MaxHistory} \subseteq Nat \ {0}

VARIABLES
  frame,             \* the number of the last frame
  tracks,            \* tracks_
  next_id,           \* next_id_
  track_histories,   \* track_histories_
  detect_result      \* the robots published with the last frame, by id

carVars == <<frame, tracks, next_id, track_histories, detect_result>>
-----------------------------------------------------------------------------
Color == {"B", "R"}

\* What one plate shows; frame is the frame it was seen in, which the program
\* does not keep.
Observation == [color : Plates, digit : Digits, frame : 1..MaxFrames]

TrackedObject == [last_rect : Places, hits : Nat \ {0}, lost : 0..MaxLost]

Distance(p, q) == IF p > q THEN p - q ELSE q - p

Alike(p, q) == Distance(p, q) <= 1   \* iou > iou_thr_

Boxes == UNION {[1..n -> Places] : n \in 0..MaxBoxes}

CarInit ==
  /\ frame = 0 /\ next_id = 0
  /\ tracks = << >>
  /\ track_histories = << >>
  /\ detect_result = << >>
-----------------------------------------------------------------------------
(* ObjectTracker::update                                                   *)

Pair(boxes) ==
  {p \in (DOMAIN tracks) \X (DOMAIN boxes) : Alike(tracks[p[1]].last_rect, boxes[p[2]])}

\* The results of the greedy matching: a track or a box in two pairs is in the
\* better one, equally good pairs come in any order.
Matchings(boxes) ==
  LET D(p) == Distance(tracks[p[1]].last_rect, boxes[p[2]])
      Touch(p, q) == p[1] = q[1] \/ p[2] = q[2]
  IN {M \in SUBSET Pair(boxes) :
        /\ \A p, q \in M : Touch(p, q) => p = q
        /\ \A p \in Pair(boxes) : \E q \in M : Touch(p, q) /\ D(q) <= D(p)}

\* Every known track after the frame: updated with its box, or lost once more.
Updated(boxes, M) ==
  [t \in DOMAIN tracks |->
     IF \E p \in M : p[1] = t
     THEN [last_rect |-> boxes[(CHOOSE p \in M : p[1] = t)[2]],
           hits |-> tracks[t].hits + 1, lost |-> 0]
     ELSE [tracks[t] EXCEPT !.lost = @ + 1]]

Unmatched(boxes, M) == {j \in DOMAIN boxes : \A p \in M : p[2] # j}

\* Ids of tracks that are gone are given away again.
NewIdReused(rank) ==
  LET free == 0..(Cardinality(DOMAIN tracks) + rank) \ DOMAIN tracks
  IN CHOOSE id \in free : Cardinality({i \in free : i < id}) = rank

NewId(rank) == next_id + rank

\* Boxes without a track open one each, in their order.
Born(boxes, M) ==
  LET rank(j) == Cardinality({i \in Unmatched(boxes, M) : i < j})
      opened == {NewId(rank(j)) : j \in Unmatched(boxes, M)}
  IN [id \in opened |->
        [last_rect |-> boxes[CHOOSE j \in Unmatched(boxes, M) : NewId(rank(j)) = id],
         hits |-> 1, lost |-> 0]]

Kept(f) == {t \in DOMAIN f : f[t].lost < MaxLost}

\* The tracks returned: confirmed, seen in this frame or not.
Output(updated) == {t \in DOMAIN updated : updated[t].hits >= MinHits}
-----------------------------------------------------------------------------
(* TrackHistory                                                            *)

\* The history is forgotten one miss late.
ForgetLate(missed) == missed > MaxMissed

Forget(missed) == missed >= MaxMissed

Add(seen, o) ==
  IF Len(seen) < MaxHistory THEN Append(seen, o) ELSE Append(Tail(seen), o)

Votes(seen, what, value) == Cardinality({i \in DOMAIN seen : seen[i][what] = value})

stableColor(seen) ==
  IF Votes(seen, "color", "R") > Votes(seen, "color", "B") THEN "R" ELSE "B"

\* The smallest of the digits seen most often.
stableDigit(seen) ==
  LET count(d) == Votes(seen, "digit", d)
      most == {d \in Digits : \A e \in Digits : count(d) >= count(e)}
  IN CHOOSE d \in most : \A e \in most : d <= e

Label(seen) == <<stableColor(seen), stableDigit(seen)>>
-----------------------------------------------------------------------------
\* The histories when the tracks of best, and no others, have a plate.
Histories(best) ==
  LET seen(t) == IF t \in DOMAIN track_histories THEN track_histories[t].seen ELSE << >>
      old == {t \in DOMAIN track_histories \ DOMAIN best :
                ~Forget(track_histories[t].missed + 1)}
  IN [t \in DOMAIN best \cup old |->
        IF t \in DOMAIN best
        THEN [seen |-> Add(seen(t), best[t]), missed |-> 0]
        ELSE [track_histories[t] EXCEPT !.missed = @ + 1]]

\* A plate belongs to one of the returned tracks whose box contains it.  Cars
\* show any number of plates, and a track keeps the one it trusts most.  The
\* rectangle of a plate lies in the image (infer clamps it), so no plate of
\* best is skipped.
ProcessFrame ==
  /\ frame < MaxFrames
  /\ frame' = frame + 1
  /\ \E boxes \in Boxes : \E M \in Matchings(boxes) :
       LET updated == Updated(boxes, M)
           born == Born(boxes, M)
           near == {t \in Output(updated) :
                      \E j \in DOMAIN boxes : Alike(updated[t].last_rect, boxes[j])}
       IN /\ tracks' = [t \in Kept(updated) \cup DOMAIN born |->
                          IF t \in DOMAIN born THEN born[t] ELSE updated[t]]
          /\ next_id' = next_id + Cardinality(DOMAIN born)
          /\ \E S \in SUBSET near :
             \E best \in [S -> {o \in Observation : o.frame = frame + 1}] :
               /\ track_histories' = Histories(best)
               /\ detect_result' = [t \in S |-> Label(track_histories'[t].seen)]

CarNext == ProcessFrame

CarSpec == CarInit /\ [][CarNext]_carVars
-----------------------------------------------------------------------------
(* Properties *)

\* Types, and what the rules of the tracker bound: a track in the table is not
\* over its limit, ids are below next_id_, a history has one to MAX_HISTORY
\* observations.
CarTypeOK ==
  /\ frame \in 0..MaxFrames /\ next_id \in Nat
  /\ DOMAIN tracks \subseteq 0..(next_id - 1)
  /\ \A t \in DOMAIN tracks : tracks[t] \in TrackedObject /\ tracks[t].lost < MaxLost
  /\ DOMAIN track_histories \subseteq 0..(next_id - 1)
  /\ \A t \in DOMAIN track_histories :
       LET h == track_histories[t] IN
       /\ DOMAIN h.seen = 1..Len(h.seen)
       /\ Len(h.seen) \in 1..MaxHistory
       /\ \A i \in DOMAIN h.seen : h.seen[i] \in Observation
       /\ h.missed \in 0..(MaxMissed - 1)
  /\ DOMAIN detect_result \subseteq DOMAIN track_histories
  /\ \A t \in DOMAIN detect_result : detect_result[t] \in Color \X Digits

\* The history of a car that is no longer tracked never becomes another car's:
\* no later track gets its id, and it ages with every frame until it is erased.
DeadHistoriesAge ==
  [][\A t \in DOMAIN track_histories \ DOMAIN tracks :
       LET h == track_histories[t] IN
       /\ t \notin DOMAIN tracks'
       /\ IF t \in DOMAIN track_histories'
          THEN track_histories'[t] = [h EXCEPT !.missed = @ + 1]
          ELSE h.missed + 1 = MaxMissed]_carVars

\* The votes that make a label are of one visit: no two that follow each other
\* are further apart than the absence that erases a history, and the last one
\* is as old as the misses say.
VotesAreRecent ==
  \A t \in DOMAIN track_histories :
    LET h == track_histories[t] IN
    /\ h.seen[Len(h.seen)].frame + h.missed = frame
    /\ \A i \in 2..Len(h.seen) : h.seen[i].frame - h.seen[i - 1].frame <= MaxMissed
=============================================================================
