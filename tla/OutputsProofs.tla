---------------------------- MODULE OutputsProofs ----------------------------
(***************************************************************************)
(* Proofs about the outputs: the tracks and votes of the cars (CarTracks), *)
(* what the referee system is told (JudgeMessager), the types of the       *)
(* decisions, the operator's window and the page, and Outputs, of which    *)
(* each path is one of them.  They hold for any number of boxes, frames    *)
(* and messages and any limits.                                            *)
(***************************************************************************)
EXTENDS Outputs, FiniteSetTheorems, SequenceTheorems, WellFoundedInduction, TLAPS
-----------------------------------------------------------------------------
(* The tracks and the votes of the cars                                    *)

\* A set of naturals that is not empty has a smallest element.
LEMMA Smallest ==
  ASSUME NEW S \in SUBSET Nat, S # {}
  PROVE  \E i \in S : \A j \in S : i <= j
<1> DEFINE R == {p \in Nat \X Nat : p[1] < p[2]}
<1>1. IsWellFoundedOn(R, Nat)
  BY NatLessThanWellFounded DEF OpToRel
<1> HIDE DEF R
<1>2. PICK i \in S : \A j \in S : <<j, i>> \notin R
  BY <1>1, WFMin
<1>3. ASSUME NEW j \in S PROVE i <= j
  <2>1. i \in Nat /\ j \in Nat
    OBVIOUS
  <2>2. ~(j < i)
    BY <1>2, <2>1 DEF R
  <2> QED
    BY <2>1, <2>2
<1> QED
  BY <1>3

\* And a largest one if it has a bound.
LEMMA Largest ==
  ASSUME NEW n \in Nat, NEW S \in SUBSET (0..n), S # {}
  PROVE  \E i \in S : \A j \in S : j <= i
<1> DEFINE T == {k \in 0..n : n - k \in S}
<1>1. PICK i \in S : TRUE
  OBVIOUS
<1>2. i \in Nat /\ i <= n
  BY <1>1
<1>3. n - i \in 0..n /\ n - (n - i) = i
  BY <1>2, SMT
<1>4. n - i \in T
  BY <1>1, <1>3
<1>5. T \in SUBSET Nat
  BY SMT
<1>6. PICK k \in T : \A m \in T : k <= m
  BY <1>4, <1>5, Smallest, Zenon
<1>7. n - k \in S
  BY <1>6
<1>8. ASSUME NEW j \in S PROVE j <= n - k
  <2>1. j \in 0..n /\ n - j \in 0..n /\ n - (n - j) = j
    OBVIOUS
  <2>2. n - j \in T
    BY <2>1
  <2>3. k <= n - j
    BY <1>6, <2>2
  <2>4. k \in 0..n
    BY <1>6
  <2> QED
    BY <2>1, <2>3, <2>4
<1> QED
  BY <1>7, <1>8
-----------------------------------------------------------------------------
(* The votes of a history                                                  *)

LEMMA VotesBounded ==
  ASSUME NEW seen \in Seq(Observation), NEW what, NEW value
  PROVE  Votes(seen, what, value) \in 0..Len(seen)
<1> DEFINE V == {i \in DOMAIN seen : seen[i][what] = value}
<1>1. Len(seen) \in Nat /\ DOMAIN seen = 1..Len(seen)
  OBVIOUS
<1>2. IsFiniteSet(1..Len(seen)) /\ Cardinality(1..Len(seen)) = Len(seen)
  BY <1>1, FS_Interval
<1>3. V \in SUBSET (1..Len(seen))
  BY <1>1
<1> HIDE DEF V
<1>4. IsFiniteSet(V) /\ Cardinality(V) <= Len(seen)
  BY <1>2, <1>3, FS_Subset
<1>5. Cardinality(V) \in Nat
  BY <1>4, FS_CardinalityType
<1> QED
  BY <1>1, <1>4, <1>5 DEF Votes, V

\* A label is a colour and one of the digits.
LEMMA LabelType ==
  ASSUME NEW seen \in Seq(Observation)
  PROVE  Label(seen) \in Color \X Digits
<1> DEFINE count(d) == Votes(seen, "digit", d)
           most == {d \in Digits : \A e \in Digits : count(d) >= count(e)}
           counts == {count(d) : d \in Digits}
<1>1. Len(seen) \in Nat
  OBVIOUS
<1>2. \A d \in Digits : count(d) \in 0..Len(seen)
  BY VotesBounded
<1> HIDE DEF count
<1>3. counts \in SUBSET (0..Len(seen)) /\ counts # {}
  BY <1>2, CarAssumption
<1>4. PICK c \in counts : \A e \in counts : e <= c
  BY <1>1, <1>3, Largest
<1>5. PICK d \in Digits : count(d) = c
  BY <1>4
<1>6. \A e \in Digits : count(d) >= count(e)
  <2> TAKE e \in Digits
  <2>1. count(e) <= c
    BY <1>4
  <2>2. count(e) \in 0..Len(seen) /\ count(d) \in 0..Len(seen)
    BY <1>2
  <2> QED
    BY <1>5, <2>1, <2>2
<1>7. most \in SUBSET Nat /\ most # {}
  BY <1>5, <1>6, CarAssumption
<1>8. \E b \in most : \A e \in most : b <= e
  BY <1>7, Smallest
<1>9. stableDigit(seen) \in most
  BY <1>8 DEF stableDigit, count
<1>10. stableColor(seen) \in Color
  BY DEF stableColor, Color
<1> QED
  BY <1>9, <1>10 DEF Label

\* What adding a vote does to a window.
LEMMA AddFacts ==
  ASSUME NEW seen \in Seq(Observation), NEW o \in Observation, Len(seen) <= MaxHistory
  PROVE  /\ Add(seen, o) \in Seq(Observation)
         /\ Len(Add(seen, o)) \in 1..MaxHistory
         /\ Add(seen, o)[Len(Add(seen, o))] = o
         /\ \/ /\ Len(Add(seen, o)) = Len(seen) + 1
               /\ \A i \in 1..Len(seen) : Add(seen, o)[i] = seen[i]
            \/ /\ Len(Add(seen, o)) = Len(seen) /\ Len(seen) >= 1
               /\ \A i \in 1..(Len(seen) - 1) : Add(seen, o)[i] = seen[i + 1]
<1> USE CarAssumption
<1>1. CASE Len(seen) < MaxHistory
  <2>1. Add(seen, o) = Append(seen, o)
    BY <1>1 DEF Add
  <2> QED
    BY <1>1, <2>1
<1>2. CASE ~(Len(seen) < MaxHistory)
  <2>1. Add(seen, o) = Append(Tail(seen), o)
    BY <1>2 DEF Add
  <2>2. Len(seen) = MaxHistory /\ Len(seen) >= 1
    BY <1>2
  <2>3. /\ Tail(seen) \in Seq(Observation)
        /\ Len(Tail(seen)) = Len(seen) - 1
        /\ \A i \in 1..(Len(seen) - 1) : Tail(seen)[i] = seen[i + 1]
    BY <2>2
  <2>4. /\ Append(Tail(seen), o) \in Seq(Observation)
        /\ Len(Append(Tail(seen), o)) = Len(seen)
        /\ Append(Tail(seen), o)[Len(seen)] = o
        /\ \A i \in 1..(Len(seen) - 1) : Append(Tail(seen), o)[i] = Tail(seen)[i]
    BY <2>2, <2>3
  <2> QED
    BY <2>1, <2>2, <2>3, <2>4
<1> QED
  BY <1>1, <1>2
-----------------------------------------------------------------------------
(* The ids of new tracks                                                   *)

Rank(boxes, M, j) == Cardinality({i \in Unmatched(boxes, M) : i < j})

BornIds(boxes, M) == {NewId(Rank(boxes, M, j)) : j \in Unmatched(boxes, M)}

LEMMA UnmatchedFinite ==
  ASSUME NEW boxes \in Boxes, NEW M
  PROVE  /\ IsFiniteSet(Unmatched(boxes, M))
         /\ Unmatched(boxes, M) \subseteq DOMAIN boxes
         /\ DOMAIN boxes \subseteq Nat
         /\ \A j \in DOMAIN boxes : boxes[j] \in Places
<1>1. PICK n \in 0..MaxBoxes : boxes \in [1..n -> Places]
  BY DEF Boxes
<1>2. n \in Nat
  BY CarAssumption
<1>3. IsFiniteSet(1..n)
  BY <1>2, FS_Interval
<1>4. DOMAIN boxes = 1..n
  BY <1>1
<1>5. Unmatched(boxes, M) \in SUBSET (1..n)
  BY <1>4 DEF Unmatched
<1>6. IsFiniteSet(Unmatched(boxes, M))
  BY <1>3, <1>5, FS_Subset
<1> QED
  BY <1>1, <1>2, <1>4, <1>5, <1>6

LEMMA RankFacts ==
  ASSUME NEW boxes \in Boxes, NEW M
  PROVE  \A j \in Unmatched(boxes, M) :
           /\ Rank(boxes, M, j) \in Nat
           /\ Rank(boxes, M, j) < Cardinality(Unmatched(boxes, M))
           /\ \A i \in Unmatched(boxes, M) :
                i < j => Rank(boxes, M, i) < Rank(boxes, M, j)
<1> DEFINE U == Unmatched(boxes, M)
           B(j) == {i \in U : i < j}
<1>1. IsFiniteSet(U) /\ U \subseteq Nat
  BY UnmatchedFinite
<1> HIDE DEF U
<1>2. \A S \in SUBSET U : IsFiniteSet(S) /\ Cardinality(S) \in Nat
  BY <1>1, FS_Subset, FS_CardinalityType
<1>3. \A S \in SUBSET U : \A T \in SUBSET S : S # T => Cardinality(T) < Cardinality(S)
  <2> SUFFICES ASSUME NEW S \in SUBSET U, NEW T \in SUBSET S, S # T
               PROVE  Cardinality(T) < Cardinality(S)
    OBVIOUS
  <2>1. IsFiniteSet(S) /\ Cardinality(S) \in Nat /\ Cardinality(T) \in Nat
    BY <1>2
  <2>2. Cardinality(T) <= Cardinality(S) /\ Cardinality(S) # Cardinality(T)
    BY <2>1, FS_Subset
  <2> QED
    BY <2>1, <2>2
<1>4. ASSUME NEW j \in U
      PROVE  /\ Cardinality(B(j)) \in Nat
             /\ Cardinality(B(j)) < Cardinality(U)
             /\ \A i \in U : i < j => Cardinality(B(i)) < Cardinality(B(j))
  <2>1. B(j) \in SUBSET U /\ B(j) # U /\ U \in SUBSET U
    <3>1. j \notin B(j)
      BY <1>1
    <3> QED
      BY <3>1
  <2>2. Cardinality(B(j)) \in Nat /\ Cardinality(B(j)) < Cardinality(U)
    BY <1>2, <1>3, <2>1
  <2>3. ASSUME NEW i \in U, i < j PROVE Cardinality(B(i)) < Cardinality(B(j))
    <3>1. i \in B(j) /\ i \notin B(i)
      BY <1>1, <2>3
    <3>2. ASSUME NEW k \in B(i) PROVE k \in B(j)
      <4>1. k \in U /\ k < i /\ k \in Nat /\ i \in Nat /\ j \in Nat
        BY <1>1, <3>2
      <4>2. k < j
        BY <2>3, <4>1
      <4> QED
        BY <4>1, <4>2
    <3> QED
      <4>1. B(i) \in SUBSET B(j) /\ B(i) # B(j)
        BY <3>1, <3>2
      <4> QED
        BY <1>3, <2>1, <4>1
  <2> QED
    BY <2>2, <2>3
<1> QED
  BY <1>4 DEF Rank, U

\* As many ids are given away as there are boxes without a track, and they are
\* the next ones.
LEMMA BornIdsFacts ==
  ASSUME NEW boxes \in Boxes, NEW M, next_id \in Nat
  PROVE  /\ BornIds(boxes, M) \subseteq
              next_id..(next_id + Cardinality(BornIds(boxes, M)) - 1)
         /\ Cardinality(BornIds(boxes, M)) \in Nat
<1> DEFINE U == Unmatched(boxes, M)
           I == BornIds(boxes, M)
           f == [j \in U |-> NewId(Rank(boxes, M, j))]
<1>1. IsFiniteSet(U) /\ U \subseteq Nat
  BY UnmatchedFinite
<1>2. \A j \in U : /\ Rank(boxes, M, j) \in Nat
                   /\ Rank(boxes, M, j) < Cardinality(U)
                   /\ \A i \in U : i < j => Rank(boxes, M, i) < Rank(boxes, M, j)
  BY RankFacts
<1>3. I = {NewId(Rank(boxes, M, j)) : j \in U}
  BY DEF BornIds
<1>4. \A j \in U : f[j] = next_id + Rank(boxes, M, j)
  BY DEF NewId
<1>5. f \in Surjection(U, I)
  BY <1>3 DEF Surjection
<1>6. f \in Injection(U, I)
  <2>1. ASSUME NEW i \in U, NEW j \in U, f[i] = f[j] PROVE i = j
    <3>1. Rank(boxes, M, i) = Rank(boxes, M, j)
      BY <1>2, <1>4, <2>1
    <3>2. i \in Nat /\ j \in Nat
      BY <1>1
    <3>3. ~(i < j) /\ ~(j < i)
      BY <1>2, <3>1
    <3> QED
      BY <3>2, <3>3
  <2>2. f \in [U -> I]
    BY <1>3
  <2>3. \A i, j \in U : f[i] = f[j] => i = j
    BY <2>1
  <2> HIDE DEF f, U, I
  <2> QED
    BY <2>2, <2>3 DEF Injection, IsInjective
<1> HIDE DEF f, I, U
<1>7. IsFiniteSet(I) /\ Cardinality(I) = Cardinality(U)
  BY <1>1, <1>5, <1>6, FS_Surjection
<1>8. Cardinality(I) \in Nat
  BY <1>7, FS_CardinalityType
<1>9. ASSUME NEW id \in I PROVE id \in next_id..(next_id + Cardinality(I) - 1)
  <2>1. PICK j \in U : id = next_id + Rank(boxes, M, j)
    BY <1>3 DEF NewId
  <2>2. Rank(boxes, M, j) \in Nat /\ Rank(boxes, M, j) < Cardinality(U)
    BY <1>2
  <2> QED
    BY <1>7, <1>8, <2>1, <2>2
<1> QED
  BY <1>8, <1>9 DEF I
-----------------------------------------------------------------------------
(* The inductive invariant                                                 *)

TracksOK ==
  /\ DOMAIN tracks \subseteq 0..(next_id - 1)
  /\ \A t \in DOMAIN tracks : tracks[t] \in TrackedObject /\ tracks[t].lost < MaxLost

HistoryType == [seen : Seq(Observation), missed : 0..(MaxMissed - 1)]

HistoriesOK ==
  /\ DOMAIN track_histories \subseteq 0..(next_id - 1)
  /\ \A t \in DOMAIN track_histories :
       /\ track_histories[t] \in HistoryType
       /\ Len(track_histories[t].seen) \in 1..MaxHistory

ResultOK ==
  /\ DOMAIN detect_result \subseteq DOMAIN track_histories
  /\ \A t \in DOMAIN detect_result : detect_result[t] \in Color \X Digits

CarInv ==
  /\ frame \in 0..MaxFrames /\ next_id \in Nat
  /\ TracksOK /\ HistoriesOK /\ ResultOK
  /\ VotesAreRecent

LEMMA InvGivesTypes == CarInv => CarTypeOK
<1> SUFFICES ASSUME CarInv PROVE CarTypeOK
  OBVIOUS
<1>1. ASSUME NEW t \in DOMAIN track_histories
      PROVE  LET h == track_histories[t] IN
             /\ DOMAIN h.seen = 1..Len(h.seen)
             /\ Len(h.seen) \in 1..MaxHistory
             /\ \A i \in DOMAIN h.seen : h.seen[i] \in Observation
             /\ h.missed \in 0..(MaxMissed - 1)
  <2>1. track_histories[t] \in HistoryType /\ Len(track_histories[t].seen) \in 1..MaxHistory
    BY DEF CarInv, HistoriesOK
  <2>2. track_histories[t].seen \in Seq(Observation)
    BY <2>1 DEF HistoryType
  <2>3. track_histories[t].missed \in 0..(MaxMissed - 1)
    BY <2>1 DEF HistoryType
  <2> QED
    BY <2>1, <2>2, <2>3
<1> QED
  BY <1>1 DEF CarTypeOK, CarInv, TracksOK, HistoriesOK, ResultOK
-----------------------------------------------------------------------------
(* One frame                                                               *)

\* The tracks after the frame: those that were there, with their fields.
LEMMA UpdatedType ==
  ASSUME CarInv, NEW boxes \in Boxes, NEW M \in Matchings(boxes)
  PROVE  /\ DOMAIN Updated(boxes, M) = DOMAIN tracks
         /\ \A t \in Kept(Updated(boxes, M)) :
              /\ t \in DOMAIN tracks
              /\ Updated(boxes, M)[t] \in TrackedObject
              /\ Updated(boxes, M)[t].lost < MaxLost
<1> USE CarAssumption
<1>1. DOMAIN Updated(boxes, M) = DOMAIN tracks
  BY DEF Updated
<1>2. ASSUME NEW t \in DOMAIN tracks, Updated(boxes, M)[t].lost < MaxLost
      PROVE  Updated(boxes, M)[t] \in TrackedObject
  <2>1. /\ tracks[t].last_rect \in Places /\ tracks[t].hits \in Nat \ {0}
        /\ tracks[t].lost \in 0..MaxLost /\ tracks[t].lost < MaxLost
        /\ tracks[t] = [last_rect |-> tracks[t].last_rect, hits |-> tracks[t].hits,
                        lost |-> tracks[t].lost]
    BY DEF CarInv, TracksOK, TrackedObject
  <2>2. CASE \E p \in M : p[1] = t
    <3> DEFINE p == CHOOSE p \in M : p[1] = t
    <3>1. p \in M
      BY <2>2
    <3>2. p \in (DOMAIN tracks) \X (DOMAIN boxes)
      BY <3>1 DEF Matchings, Pair
    <3>3. boxes[p[2]] \in Places
      BY <3>2, UnmatchedFinite
    <3>4. Updated(boxes, M)[t] =
            [last_rect |-> boxes[p[2]], hits |-> tracks[t].hits + 1, lost |-> 0]
      BY <2>2 DEF Updated
    <3> QED
      BY <2>1, <3>3, <3>4 DEF TrackedObject
  <2>3. CASE ~\E p \in M : p[1] = t
    <3>1. Updated(boxes, M)[t] = [tracks[t] EXCEPT !.lost = @ + 1]
      BY <2>3 DEF Updated
    <3> QED
      BY <2>1, <3>1 DEF TrackedObject
  <2> QED
    BY <2>2, <2>3
<1> QED
  BY <1>1, <1>2 DEF Kept

LEMMA BornType ==
  ASSUME NEW boxes \in Boxes, NEW M
  PROVE  /\ DOMAIN Born(boxes, M) = BornIds(boxes, M)
         /\ \A t \in BornIds(boxes, M) :
              Born(boxes, M)[t] \in TrackedObject /\ Born(boxes, M)[t].lost = 0
<1> USE CarAssumption
<1>1. DOMAIN Born(boxes, M) = BornIds(boxes, M)
  BY DEF Born, BornIds, Rank
<1>2. ASSUME NEW t \in BornIds(boxes, M)
      PROVE  Born(boxes, M)[t] \in TrackedObject /\ Born(boxes, M)[t].lost = 0
  <2> DEFINE j == CHOOSE j \in Unmatched(boxes, M) : NewId(Rank(boxes, M, j)) = t
  <2>1. j \in Unmatched(boxes, M)
    BY <1>2 DEF BornIds
  <2>2. boxes[j] \in Places
    BY <2>1, UnmatchedFinite
  <2>3. Born(boxes, M)[t] = [last_rect |-> boxes[j], hits |-> 1, lost |-> 0]
    BY <1>2 DEF Born, BornIds, Rank
  <2> QED
    BY <2>2, <2>3 DEF TrackedObject
<1> QED
  BY <1>1, <1>2

\* What one frame makes of a history.
LEMMA HistoryStep ==
  ASSUME CarInv, frame < MaxFrames,
         NEW S, S \subseteq 0..(next_id - 1),
         NEW best \in [S -> {o \in Observation : o.frame = frame + 1}],
         NEW t \in DOMAIN Histories(best)
  PROVE  LET h == Histories(best)[t] IN
         /\ t \in 0..(next_id - 1)
         /\ h \in HistoryType
         /\ Len(h.seen) \in 1..MaxHistory
         /\ h.seen[Len(h.seen)].frame + h.missed = frame + 1
         /\ \A i \in 2..Len(h.seen) : h.seen[i].frame - h.seen[i - 1].frame <= MaxMissed
<1> USE CarAssumption
<1> DEFINE h == Histories(best)[t]
           g == track_histories[t]
<1>1. \A u \in DOMAIN track_histories :
        /\ u \in 0..(next_id - 1)
        /\ track_histories[u].seen \in Seq(Observation)
        /\ track_histories[u].missed \in 0..(MaxMissed - 1)
        /\ track_histories[u] =
             [seen |-> track_histories[u].seen, missed |-> track_histories[u].missed]
        /\ Len(track_histories[u].seen) \in 1..MaxHistory
  BY DEF CarInv, HistoriesOK, HistoryType
<1>2. t \in DOMAIN track_histories =>
        /\ g.seen[Len(g.seen)].frame + g.missed = frame
        /\ \A i \in 2..Len(g.seen) : g.seen[i].frame - g.seen[i - 1].frame <= MaxMissed
  BY DEF CarInv, VotesAreRecent
<1>3. frame \in Nat /\ MaxMissed \in Nat /\ MaxHistory \in Nat
  BY DEF CarInv
<1>4. \A o \in Observation : o.frame \in Int
  BY DEF Observation
<1>5. CASE t \in DOMAIN best /\ t \in DOMAIN track_histories
  <2> DEFINE seen == g.seen
             new == Add(seen, best[t])
  <2>1. best[t] \in Observation /\ best[t].frame = frame + 1
    BY <1>5
  <2>2. seen \in Seq(Observation) /\ Len(seen) \in 1..MaxHistory
    BY <1>1, <1>5
  <2>3. h = [seen |-> new, missed |-> 0]
    BY <1>5 DEF Histories
  <2>4. Len(seen) <= MaxHistory
    BY <1>3, <2>2
  <2> HIDE DEF seen
  <2>5. /\ new \in Seq(Observation)
        /\ Len(new) \in 1..MaxHistory
        /\ new[Len(new)] = best[t]
        /\ \/ /\ Len(new) = Len(seen) + 1
              /\ \A i \in 1..Len(seen) : new[i] = seen[i]
           \/ /\ Len(new) = Len(seen) /\ Len(seen) >= 1
              /\ \A i \in 1..(Len(seen) - 1) : new[i] = seen[i + 1]
    BY <2>1, <2>2, <2>4, AddFacts
  <2> USE DEF seen
  <2>6. seen[Len(seen)].frame + g.missed = frame /\ g.missed \in 0..(MaxMissed - 1)
    BY <1>1, <1>2, <1>5
  <2>7. \A i \in 2..Len(seen) : seen[i].frame - seen[i - 1].frame <= MaxMissed
    BY <1>2, <1>5
  <2> HIDE DEF seen, new, h
  <2>8. \A i \in 1..Len(seen) : seen[i].frame \in Int
    BY <1>4, <2>2
  <2>9. best[t].frame - seen[Len(seen)].frame <= MaxMissed
    <3> DEFINE f == seen[Len(seen)].frame
               m == g.missed
    <3>1. f \in Int /\ m \in Int /\ m <= MaxMissed - 1 /\ f + m = frame
      BY <1>3, <2>2, <2>6, <2>8
    <3> HIDE DEF f, m
    <3>2. (frame + 1) - f <= MaxMissed
      BY <1>3, <3>1
    <3> QED
      BY <2>1, <3>2 DEF f
  <2>10. ASSUME NEW i \in 2..Len(new)
        PROVE  new[i].frame - new[i - 1].frame <= MaxMissed
    <3>1. CASE Len(new) = Len(seen) + 1 /\ \A k \in 1..Len(seen) : new[k] = seen[k]
      <4>1. CASE i = Len(new)
        <5>1. new[i] = best[t] /\ new[i - 1] = seen[Len(seen)]
          BY <2>2, <2>5, <3>1, <4>1
        <5> QED
          BY <2>9, <5>1
      <4>2. CASE i # Len(new)
        <5>1. i \in 2..Len(seen) /\ i - 1 \in 1..Len(seen) /\ i \in 1..Len(seen)
          BY <2>2, <3>1, <4>2
        <5>2. new[i] = seen[i] /\ new[i - 1] = seen[i - 1]
          BY <3>1, <5>1
        <5> QED
          BY <2>7, <5>1, <5>2
      <4> QED
        BY <4>1, <4>2
    <3>2. CASE /\ Len(new) = Len(seen) /\ Len(seen) >= 1
               /\ \A k \in 1..(Len(seen) - 1) : new[k] = seen[k + 1]
      <4>1. CASE i = Len(new)
        <5>1. i - 1 \in 1..(Len(seen) - 1) /\ (i - 1) + 1 = Len(seen)
          BY <2>2, <3>2, <4>1
        <5>2. new[i] = best[t] /\ new[i - 1] = seen[Len(seen)]
          BY <2>5, <3>2, <4>1, <5>1
        <5> QED
          BY <2>9, <5>2
      <4>2. CASE i # Len(new)
        <5>1. /\ i \in 1..(Len(seen) - 1) /\ i - 1 \in 1..(Len(seen) - 1)
              /\ i + 1 \in 2..Len(seen) /\ (i - 1) + 1 = i /\ (i + 1) - 1 = i
          BY <2>2, <3>2, <4>2
        <5>2. new[i] = seen[i + 1] /\ new[i - 1] = seen[i]
          BY <3>2, <5>1
        <5>3. seen[i + 1].frame - seen[(i + 1) - 1].frame <= MaxMissed
          BY <2>7, <5>1
        <5> QED
          BY <5>1, <5>2, <5>3
      <4> QED
        BY <4>1, <4>2
    <3> QED
      BY <2>5, <3>1, <3>2
  <2>11. new[Len(new)].frame + 0 = frame + 1
    BY <1>3, <2>1, <2>5
  <2>12. t \in 0..(next_id - 1)
    BY <1>5
  <2>13. h \in HistoryType
    BY <2>3, <2>5 DEF HistoryType
  <2> QED
    BY <2>3, <2>5, <2>10, <2>11, <2>12, <2>13 DEF h
<1>6. CASE t \in DOMAIN best /\ t \notin DOMAIN track_histories
  <2>1. best[t] \in Observation /\ best[t].frame = frame + 1
    BY <1>6
  <2>2. h = [seen |-> Add(<< >>, best[t]), missed |-> 0]
    BY <1>6 DEF Histories
  <2>3. Add(<< >>, best[t]) = <<best[t]>>
    BY DEF Add
  <2>4. /\ <<best[t]>> \in Seq(Observation) /\ Len(<<best[t]>>) = 1
        /\ <<best[t]>>[1] = best[t]
    BY <2>1
  <2>5. t \in 0..(next_id - 1)
    BY <1>6
  <2>6. h.seen = <<best[t]>> /\ h.missed = 0
    BY <2>2, <2>3
  <2>7. h \in HistoryType
    <3>1. 0 \in 0..(MaxMissed - 1)
      BY <1>3
    <3>2. h = [seen |-> <<best[t]>>, missed |-> 0]
      BY <2>2, <2>3
    <3> HIDE DEF h
    <3> QED
      BY <2>4, <3>1, <3>2 DEF HistoryType
  <2> HIDE DEF h
  <2>8. h.seen[Len(h.seen)].frame + h.missed = frame + 1
    BY <1>3, <2>1, <2>4, <2>6
  <2>9. Len(h.seen) \in 1..MaxHistory
    BY <2>4, <2>6
  <2>10. \A i \in 2..Len(h.seen) : h.seen[i].frame - h.seen[i - 1].frame <= MaxMissed
    BY <2>4, <2>6
  <2> QED
    BY <2>5, <2>7, <2>8, <2>9, <2>10 DEF h
<1>7. CASE t \notin DOMAIN best
  <2>1. t \in DOMAIN track_histories /\ ~(g.missed + 1 >= MaxMissed)
    BY <1>7 DEF Histories, Forget
  <2>2. h = [g EXCEPT !.missed = @ + 1]
    BY <1>7 DEF Histories
  <2>3. /\ g.seen \in Seq(Observation) /\ g.missed \in 0..(MaxMissed - 1)
        /\ g = [seen |-> g.seen, missed |-> g.missed]
        /\ Len(g.seen) \in 1..MaxHistory /\ t \in 0..(next_id - 1)
    BY <1>1, <2>1
  <2>4. h = [seen |-> g.seen, missed |-> g.missed + 1]
    BY <2>2, <2>3
  <2>5. g.missed + 1 \in 0..(MaxMissed - 1)
    BY <1>3, <2>1, <2>3
  <2>6. h.seen = g.seen /\ h.missed = g.missed + 1
    BY <2>4
  <2>7. h \in HistoryType
    BY <2>3, <2>4, <2>5 DEF HistoryType
  <2>8. g.seen[Len(g.seen)].frame \in Int
    BY <1>4, <2>3
  <2>9. g.seen[Len(g.seen)].frame + (g.missed + 1) = frame + 1
    BY <1>2, <1>3, <2>1, <2>3, <2>8
  <2> HIDE DEF h, g
  <2>10. h.seen[Len(h.seen)].frame + h.missed = frame + 1
    BY <2>6, <2>9
  <2>11. \A i \in 2..Len(h.seen) : h.seen[i].frame - h.seen[i - 1].frame <= MaxMissed
    BY <1>2, <2>1, <2>6
  <2> QED
    BY <2>3, <2>6, <2>7, <2>10, <2>11 DEF h
<1> QED
  BY <1>5, <1>6, <1>7

LEMMA InitInv == CarInit => CarInv
<1> SUFFICES ASSUME CarInit PROVE CarInv
  OBVIOUS
<1>1. frame = 0 /\ next_id = 0 /\ tracks = << >> /\ track_histories = << >>
      /\ detect_result = << >>
  BY DEF CarInit
<1>2. frame \in 0..MaxFrames /\ next_id \in Nat
  BY <1>1, CarAssumption
<1>3. DOMAIN tracks = {} /\ DOMAIN track_histories = {} /\ DOMAIN detect_result = {}
  BY <1>1
<1> QED
  BY <1>2, <1>3 DEF CarInv, TracksOK, HistoriesOK, ResultOK, VotesAreRecent

\* The parts of ProcessFrame: the boxes and their matching, then the plates.
FrameOf(boxes, M) ==
  LET updated == Updated(boxes, M)
      born == Born(boxes, M)
  IN /\ tracks' = [t \in Kept(updated) \cup DOMAIN born |->
                     IF t \in DOMAIN born THEN born[t] ELSE updated[t]]
     /\ next_id' = next_id + Cardinality(DOMAIN born)
     /\ \E S \in SUBSET Output(updated) :
        \E best \in [S -> {o \in Observation : o.frame = frame + 1}] :
          /\ track_histories' = Histories(best)
          /\ detect_result' = [t \in S |-> Label(track_histories'[t].seen)]

LEMMA FrameParts ==
  ProcessFrame => \E boxes \in Boxes : \E M \in Matchings(boxes) : FrameOf(boxes, M)
  BY DEF ProcessFrame, FrameOf

LEMMA FrameKeepsInv == CarInv /\ ProcessFrame => CarInv'
<1> SUFFICES ASSUME CarInv, ProcessFrame PROVE CarInv'
  OBVIOUS
<1> USE CarAssumption
<1>1. frame < MaxFrames /\ frame' = frame + 1
  BY DEF ProcessFrame
<1>2. PICK boxes \in Boxes : \E M \in Matchings(boxes) : FrameOf(boxes, M)
  BY FrameParts
<1>3. PICK M \in Matchings(boxes) : FrameOf(boxes, M)
  BY <1>2
<1> DEFINE updated == Updated(boxes, M)
           born == Born(boxes, M)
           ids == BornIds(boxes, M)
<1>4. PICK S \in SUBSET Output(updated) :
        \E best \in [S -> {o \in Observation : o.frame = frame + 1}] :
          /\ track_histories' = Histories(best)
          /\ detect_result' = [t \in S |-> Label(track_histories'[t].seen)]
  BY <1>3 DEF FrameOf
<1>5. PICK best \in [S -> {o \in Observation : o.frame = frame + 1}] :
        /\ track_histories' = Histories(best)
        /\ detect_result' = [t \in S |-> Label(track_histories'[t].seen)]
  BY <1>4
<1>6. next_id \in Nat /\ frame \in 0..MaxFrames
  BY DEF CarInv
<1>7. ids \subseteq next_id..(next_id + Cardinality(ids) - 1) /\ Cardinality(ids) \in Nat
  BY <1>6, BornIdsFacts
<1>8. DOMAIN born = ids
      /\ \A t \in ids : born[t] \in TrackedObject /\ born[t].lost = 0
  BY BornType
<1>9. /\ DOMAIN updated = DOMAIN tracks
      /\ \A t \in Kept(updated) : /\ t \in DOMAIN tracks
                                  /\ updated[t] \in TrackedObject
                                  /\ updated[t].lost < MaxLost
  BY UpdatedType
<1>10. /\ tracks' = [t \in Kept(updated) \cup ids |->
                      IF t \in ids THEN born[t] ELSE updated[t]]
      /\ next_id' = next_id + Cardinality(ids)
  BY <1>3, <1>8 DEF FrameOf
<1>11. DOMAIN tracks \subseteq 0..(next_id - 1)
  BY DEF CarInv, TracksOK
<1>12. S \subseteq 0..(next_id - 1)
  BY <1>4, <1>9, <1>11 DEF Output
<1> HIDE DEF updated, born, ids
<1>13. frame' \in 0..MaxFrames /\ next_id' \in Nat
  BY <1>1, <1>6, <1>7, <1>10
<1>14. TracksOK'
  <2>1. ASSUME NEW t \in DOMAIN tracks' PROVE t \in 0..(next_id' - 1)
    <3>1. CASE t \in ids
      BY <1>6, <1>7, <1>10, <3>1
    <3>2. CASE t \in DOMAIN tracks
      BY <1>6, <1>7, <1>10, <1>11, <3>2
    <3> QED
      BY <1>9, <1>10, <2>1, <3>1, <3>2
  <2>2. ASSUME NEW t \in DOMAIN tracks'
        PROVE  tracks'[t] \in TrackedObject /\ tracks'[t].lost < MaxLost
    <3>1. CASE t \in ids
      BY <1>8, <1>10, <3>1
    <3>2. CASE t \notin ids
      BY <1>9, <1>10, <2>2, <3>2
    <3> QED
      BY <3>1, <3>2
  <2> QED
    BY <2>1, <2>2 DEF TracksOK
<1>15. ASSUME NEW t \in DOMAIN track_histories'
       PROVE  LET h == track_histories'[t] IN
              /\ t \in 0..(next_id - 1)
              /\ h \in HistoryType
              /\ Len(h.seen) \in 1..MaxHistory
              /\ h.seen[Len(h.seen)].frame + h.missed = frame'
              /\ \A i \in 2..Len(h.seen) :
                   h.seen[i].frame - h.seen[i - 1].frame <= MaxMissed
  BY <1>1, <1>5, <1>12, <1>15, HistoryStep
<1>16. 0..(next_id - 1) \subseteq 0..(next_id' - 1)
  BY <1>6, <1>7, <1>10
<1>17. HistoriesOK'
  BY <1>15, <1>16 DEF HistoriesOK, HistoryType
<1>18. VotesAreRecent'
  BY <1>15 DEF VotesAreRecent
<1>19. ResultOK'
  <2>1. DOMAIN detect_result' = S /\ S \subseteq DOMAIN track_histories'
    BY <1>5 DEF Histories
  <2>2. ASSUME NEW t \in S PROVE detect_result'[t] \in Color \X Digits
    <3>1. track_histories'[t].seen \in Seq(Observation)
      BY <1>15, <2>1 DEF HistoryType
    <3> QED
      BY <1>5, <3>1, LabelType
  <2> QED
    BY <2>1, <2>2 DEF ResultOK
<1> QED
  BY <1>13, <1>14, <1>17, <1>18, <1>19 DEF CarInv

\* A history whose track is gone is not found by a later track: new ids are
\* beyond all that were given away.
LEMMA DeadStep ==
  ASSUME CarInv, ProcessFrame,
         NEW t \in DOMAIN track_histories \ DOMAIN tracks
  PROVE  LET h == track_histories[t] IN
         /\ t \notin DOMAIN tracks'
         /\ IF t \in DOMAIN track_histories'
            THEN track_histories'[t] = [h EXCEPT !.missed = @ + 1]
            ELSE h.missed + 1 = MaxMissed
<1> USE CarAssumption
<1>1. PICK boxes \in Boxes : \E M \in Matchings(boxes) : FrameOf(boxes, M)
  BY FrameParts
<1>2. PICK M \in Matchings(boxes) : FrameOf(boxes, M)
  BY <1>1
<1>3. tracks' = [u \in Kept(Updated(boxes, M)) \cup DOMAIN Born(boxes, M) |->
                   IF u \in DOMAIN Born(boxes, M)
                   THEN Born(boxes, M)[u] ELSE Updated(boxes, M)[u]]
  BY <1>2 DEF FrameOf
<1>4. PICK S \in SUBSET Output(Updated(boxes, M)) :
        \E best \in [S -> {o \in Observation : o.frame = frame + 1}] :
          track_histories' = Histories(best)
  BY <1>2 DEF FrameOf
<1>5. PICK best \in [S -> {o \in Observation : o.frame = frame + 1}] :
        track_histories' = Histories(best)
  BY <1>4
<1>6. DOMAIN Updated(boxes, M) = DOMAIN tracks
      /\ Kept(Updated(boxes, M)) \subseteq DOMAIN tracks
  BY UpdatedType
<1>7. next_id \in Nat /\ t \in 0..(next_id - 1)
      /\ track_histories[t].missed \in 0..(MaxMissed - 1)
  BY DEF CarInv, HistoriesOK, HistoryType
<1>8. t \notin DOMAIN Born(boxes, M)
  <2>1. DOMAIN Born(boxes, M) = BornIds(boxes, M)
    BY BornType
  <2>2. /\ Cardinality(BornIds(boxes, M)) \in Nat
        /\ BornIds(boxes, M) \subseteq
             next_id..(next_id + Cardinality(BornIds(boxes, M)) - 1)
    BY <1>7, BornIdsFacts
  <2> QED
    BY <1>7, <2>1, <2>2
<1>9. t \notin DOMAIN tracks'
  BY <1>3, <1>6, <1>8
<1>10. t \notin S
  BY <1>5, <1>6 DEF Output
<1>11. CASE Forget(track_histories[t].missed + 1)
  <2>1. t \notin DOMAIN track_histories'
    BY <1>5, <1>10, <1>11 DEF Histories
  <2>2. track_histories[t].missed + 1 = MaxMissed
    BY <1>7, <1>11 DEF Forget
  <2> QED
    BY <1>9, <2>1, <2>2
<1>12. CASE ~Forget(track_histories[t].missed + 1)
  <2>1. t \in DOMAIN track_histories'
    BY <1>5, <1>10, <1>12 DEF Histories
  <2>2. track_histories'[t] = [track_histories[t] EXCEPT !.missed = @ + 1]
    BY <1>5, <1>10, <2>1 DEF Histories
  <2> QED
    BY <1>9, <2>1, <2>2
<1> QED
  BY <1>11, <1>12
-----------------------------------------------------------------------------
(* The theorems                                                            *)

\* The invariant of the tracker and the histories in every behaviour.
THEOREM CarInvariance == CarSpec => []CarInv
<1>1. CarInv /\ [CarNext]_carVars => CarInv'
  <2>1. CarInv /\ CarNext => CarInv'
    BY FrameKeepsInv DEF CarNext
  <2>2. CarInv /\ UNCHANGED carVars => CarInv'
    BY DEF CarInv, TracksOK, HistoriesOK, ResultOK, VotesAreRecent, carVars
  <2> QED
    BY <2>1, <2>2
<1> QED
  BY InitInv, <1>1, PTL DEF CarSpec

\* The types and what the rules of ObjectTracker and TrackHistory bound: ids
\* below next_id_, tracks within max_lost_, histories within MAX_HISTORY.
THEOREM CarTypes == CarSpec => []CarTypeOK
  BY CarInvariance, InvGivesTypes, PTL

\* The votes behind a label (process_frame, TrackHistory) follow each other
\* within the absence that erases a history.
THEOREM VotesStayRecent == CarSpec => []VotesAreRecent
<1>1. CarInv => VotesAreRecent
  BY DEF CarInv
<1> QED
  BY CarInvariance, <1>1, PTL

\* No track of ObjectTracker takes over the history of another.
THEOREM HistoriesAreNotInherited == CarSpec => DeadHistoriesAge
<1> DEFINE Aged ==
      \A t \in DOMAIN track_histories \ DOMAIN tracks :
        LET h == track_histories[t] IN
        /\ t \notin DOMAIN tracks'
        /\ IF t \in DOMAIN track_histories'
           THEN track_histories'[t] = [h EXCEPT !.missed = @ + 1]
           ELSE h.missed + 1 = MaxMissed
<1>1. CarInv /\ [CarNext]_carVars => [Aged]_carVars
  BY DeadStep DEF CarNext
<1> QED
  BY CarInvariance, <1>1, PTL DEF CarSpec, DeadHistoriesAge
-----------------------------------------------------------------------------
(* What the referee system is told: the inductive invariant                *)

\* What the two receivers were told last; a closed line stays as it was.
ToldTheSame == ~opened => line.sentry = EnemySlots(line.server)

JudgeInv == JudgeTypeOK /\ SentryToldAsServer /\ ToldTheSame

LEMMA PositionsOf ==
  ASSUME JudgeTypeOK, NEW n \in {0} \cup Number
  PROVE  Slots(n) \in [Slot -> Position]
<1> DEFINE of(s) == {i \in DOMAIN location[n] :
                       /\ location[n][i] >= 0
                       /\ SlotOf(location[n][i]) >= 0
                       /\ SlotIndex(location[n][i]) = s}
           last(s) == CHOOSE i \in of(s) : \A j \in of(s) : j <= i
<1>1. ASSUME NEW s \in Slot, n # 0, of(s) # {}
      PROVE  <<n, last(s)>> \in Number \X (Nat \ {0})
  <2>1. location[n] \in Seq(Int) /\ n \in Number
    BY <1>1, LocationAssumption DEF JudgeTypeOK, Number
  <2>2. Len(location[n]) \in Nat /\ DOMAIN location[n] = 1..Len(location[n])
    BY <2>1
  <2>3. of(s) \in SUBSET (0..Len(location[n])) /\ of(s) \subseteq Nat \ {0}
    BY <2>2
  <2> HIDE DEF of
  <2>4. \E i \in of(s) : \A j \in of(s) : j <= i
    BY <1>1, <2>2, <2>3, Largest
  <2>5. last(s) \in of(s)
    BY <2>4
  <2> HIDE DEF last
  <2> QED
    BY <2>1, <2>3, <2>5
<1>2. Slots(n) = [s \in Slot |-> IF n = 0 \/ of(s) = {} THEN Nowhere ELSE <<n, last(s)>>]
  BY DEF Slots
<1> HIDE DEF of, last
<1> QED
  BY <1>1, <1>2 DEF Position

LEMMA EnemyPositions ==
  ASSUME NEW P, NEW f \in [Slot -> P] PROVE EnemySlots(f) \in [0..5 -> P]
  BY DEF EnemySlots, Slot

\* A longer topic keeps the numbers of its messages.
LEMMA NumbersStay ==
  ASSUME location \in Seq(Messages), PublishLocation
  PROVE  /\ location' \in Seq(Messages) /\ Len(location') <= MaxLocations
         /\ Number \subseteq Number'
<1>1. PICK m \in Messages : location' = Append(location, m) /\ Len(location) < MaxLocations
  BY DEF PublishLocation
<1>2. location' \in Seq(Messages) /\ Len(location') = Len(location) + 1 /\ Len(location) \in Nat
  BY <1>1
<1> QED
  BY <1>1, <1>2, LocationAssumption DEF Number
-----------------------------------------------------------------------------
(* Each step preserves the invariant *)

LEMMA JudgeInitInv == JudgeInit => JudgeInv
<1> SUFFICES ASSUME JudgeInit PROVE JudgeInv
  OBVIOUS
<1>1. slots \in [Slot -> Position]
  BY DEF JudgeInit, Position
<1>2. EnemySlots(slots) \in [0..5 -> Position]
  BY <1>1, EnemyPositions
<1>3. JudgeTypeOK
  BY <1>1, <1>2, LocationAssumption, JudgeAssumption DEF JudgeInit, JudgeTypeOK
<1> QED
  BY <1>3 DEF JudgeInit, JudgeInv, SentryToldAsServer, ToldTheSame

LEMMA PublishKeeps ==
  ASSUME JudgeInv, PublishLocation, UNCHANGED judgeVars PROVE JudgeInv'
<1>1. location' \in Seq(Messages) /\ Len(location') <= MaxLocations /\ Number \subseteq Number'
  BY NumbersStay DEF JudgeInv, JudgeTypeOK
<1>2. Position \subseteq Position'
  BY <1>1 DEF Position, Nowhere
<1>3. /\ slots \in [Slot -> Position'] /\ line \in [server : [Slot -> Position'], sentry : [0..5 -> Position']]
  BY <1>2 DEF JudgeInv, JudgeTypeOK
<1>4. JudgeTypeOK'
  BY <1>1, <1>3 DEF JudgeInv, JudgeTypeOK, judgeVars, Slot
<1> QED
  BY <1>4 DEF JudgeInv, SentryToldAsServer, ToldTheSame, judgeVars, EnemySlots

LEMMA FrameKeeps ==
  ASSUME JudgeInv, UNCHANGED location,
         SendServer \/ SendSentry
  PROVE  JudgeInv'
<1>1. /\ seq \in 0..(SeqMod - 1) /\ slots \in [Slot -> Position] /\ opened \in BOOLEAN
      /\ line \in [server : [Slot -> Position], sentry : [0..5 -> Position]]
  BY DEF JudgeInv, JudgeTypeOK
<1>2. seq' \in 0..(SeqMod - 1)
  BY <1>1, JudgeAssumption DEF SendServer, SendSentry, Frame
<1>3. Position' = Position /\ Number' = Number /\ Slot' = Slot
  BY DEF Position, Number, Nowhere, Slot
<1>4. EnemySlots(slots) \in [0..5 -> Position]
  BY <1>1, EnemyPositions
<1>5. CASE SendServer
  <2>1. /\ round = "server" /\ round' = "sentry" /\ UNCHANGED <<latest, opened, slots>>
        /\ line' = IF opened THEN [line EXCEPT !.server = slots] ELSE line
    BY <1>5 DEF SendServer, RoundGoes, Frame
  <2>2. JudgeTypeOK'
    BY <2>1, <1>1, <1>2, <1>3 DEF JudgeInv, JudgeTypeOK
  <2>3. SentryToldAsServer' /\ ToldTheSame'
    BY <2>1, <1>1 DEF JudgeInv, SentryToldAsServer, ToldTheSame, EnemySlots
  <2> QED
    BY <2>2, <2>3 DEF JudgeInv
<1>6. CASE SendSentry
  <2>1. /\ round = "sentry" /\ round' = "double" /\ UNCHANGED <<latest, opened, slots>>
        /\ line' = IF opened THEN [line EXCEPT !.sentry = EnemySlots(slots)] ELSE line
    BY <1>6 DEF SendSentry, RoundGoes, Frame
  <2>2. JudgeTypeOK'
    BY <2>1, <1>1, <1>2, <1>3, <1>4 DEF JudgeInv, JudgeTypeOK
  <2>3. SentryToldAsServer' /\ ToldTheSame'
    BY <2>1, <1>1 DEF JudgeInv, SentryToldAsServer, ToldTheSame, EnemySlots
  <2> QED
    BY <2>2, <2>3 DEF JudgeInv
<1> QED
  BY <1>5, <1>6

LEMMA OthersKeep ==
  ASSUME JudgeInv, UNCHANGED location,
         JudgeCb \/ CopyLatest \/ SendDouble
  PROVE  JudgeInv'
<1>1. /\ latest \in {0} \cup Number /\ seq \in 0..(SeqMod - 1)
      /\ Position' = Position /\ Number' = Number /\ Slot' = Slot
  BY DEF JudgeInv, JudgeTypeOK, Position, Number, Nowhere, Slot
<1>2. Slots(latest) \in [Slot -> Position]
  BY <1>1, PositionsOf DEF JudgeInv
<1>3. CASE JudgeCb
  BY <1>1, <1>3 DEF JudgeCb, JudgeInv, JudgeTypeOK, SentryToldAsServer, ToldTheSame, EnemySlots
<1>4. CASE CopyLatest
  BY <1>1, <1>2, <1>4 DEF CopyLatest, RoundGoes, JudgeInv, JudgeTypeOK, SentryToldAsServer, ToldTheSame,
     EnemySlots
<1>5. CASE SendDouble
  <2>1. seq' \in 0..(SeqMod - 1)
    BY <1>1, <1>5, JudgeAssumption DEF SendDouble
  <2> QED
    BY <1>1, <1>5, <2>1 DEF SendDouble, RoundGoes, JudgeInv, JudgeTypeOK, SentryToldAsServer, ToldTheSame,
       EnemySlots
<1> QED
  BY <1>3, <1>4, <1>5

LEMMA JudgeNextInv == JudgeInv /\ [JudgeNext]_<<location, judgeVars>> => JudgeInv'
<1> SUFFICES ASSUME JudgeInv, [JudgeNext]_<<location, judgeVars>> PROVE JudgeInv'
  OBVIOUS
<1>1. CASE JudgeNext
  BY <1>1, PublishKeeps, FrameKeeps, OthersKeep DEF JudgeNext, JudgeLoop
<1>2. CASE UNCHANGED <<location, judgeVars>>
  BY <1>2 DEF judgeVars, JudgeInv, JudgeTypeOK, SentryToldAsServer, ToldTheSame, Position, Number, Nowhere,
     Slot, EnemySlots
<1> QED
  BY <1>1, <1>2
-----------------------------------------------------------------------------
\* The invariant holds in every reachable state.
LEMMA JudgeInvariance == JudgeSpec => []JudgeInv
  BY JudgeInitInv, JudgeNextInv, PTL DEF JudgeSpec

\* Type correctness: every slot that is sent holds a place of the message it was
\* built from (sendRobotLocations).
THEOREM JudgeTypes == JudgeSpec => []JudgeTypeOK
<1>1. JudgeInv => JudgeTypeOK
  BY DEF JudgeInv
<1> QED
  BY <1>1, JudgeInvariance, PTL

\* The server and the own sentry are told the same places of the enemy, whatever
\* arrives between the two frames (the copy of latest_ at the start of a round).
THEOREM SentryAndServer == JudgeSpec => []SentryToldAsServer
<1>1. JudgeInv => SentryToldAsServer
  BY DEF JudgeInv
<1> QED
  BY <1>1, JudgeInvariance, PTL
-----------------------------------------------------------------------------
(* The decisions and the operator's window                                 *)

windowVars == <<location, decisionVars, panelVars>>

WindowTypes == location \in Seq(Messages) /\ DecisionTypeOK /\ PanelTypeOK

LEMMA WindowInit == location = <<>> /\ DecisionInit /\ PanelInit => WindowTypes
<1> SUFFICES ASSUME location = <<>>, DecisionInit, PanelInit PROVE WindowTypes
  OBVIOUS
<1>1. DecisionTypeOK
  <2>1. /\ sentry_targets \in Seq(Decision) /\ ai_nav \in Seq(Number) /\ ai.heard = 0
        /\ ai.hist \in Seq(Number) /\ Len(ai.hist) <= SeqLen
    BY DecisionAssumption DEF DecisionInit
  <2>2. enabled \in BOOLEAN
    BY DEF DecisionInit
  <2>3. sentry \in [heard : {0} \cup Number, at : {0} \cup Number, target : {0} \cup Number]
    BY DEF DecisionInit
  <2> QED
    BY <2>1, <2>2, <2>3 DEF DecisionTypeOK
<1>2. PanelTypeOK
  <2>1. \A s \in Source : Newest(s) = 0
    BY DEF DecisionInit, Source, Newest
  <2> QED
    BY <2>1, PanelAssumption DEF PanelInit, PanelTypeOK, Nothing, Source
<1> QED
  BY <1>1, <1>2 DEF WindowTypes

\* A longer location has more numbers.
LEMMA LongerLocation ==
  ASSUME location \in Seq(Messages), PublishLocation
  PROVE  /\ location' \in Seq(Messages) /\ Len(location') = Len(location) + 1
         /\ Number \subseteq Number' /\ Len(location) \in Nat
<1>1. PICK m \in Messages : location' = Append(location, m)
  BY DEF PublishLocation
<1> QED
  BY <1>1 DEF Number

\* A window of the last messages.
LEMMA SlideIs ==
  ASSUME NEW S, NEW h \in Seq(S), Len(h) <= SeqLen, NEW n \in S
  PROVE  Slide(h, n) \in Seq(S) /\ Len(Slide(h, n)) <= SeqLen
<1>1. Len(h) \in Nat /\ SeqLen \in Nat /\ SeqLen > 0
  BY DecisionAssumption
<1>2. CASE Len(h) < SeqLen
  BY <1>1, <1>2 DEF Slide
<1>3. CASE Len(h) = SeqLen
  <2>1. Tail(h) \in Seq(S) /\ Len(Tail(h)) = Len(h) - 1
    BY <1>1, <1>3
  <2> QED
    BY <1>1, <1>3, <2>1 DEF Slide
<1> QED
  BY <1>1, <1>2, <1>3

\* What arrives at the nodes leaves their types alone.
LEMMA LocationKeeps ==
  ASSUME WindowTypes, PublishLocation, UNCHANGED <<decisionVars, panelVars>>
  PROVE  WindowTypes'
<1>1. /\ location' \in Seq(Messages) /\ Len(location') = Len(location) + 1
      /\ Number \subseteq Number' /\ Len(location) \in Nat
  BY LongerLocation DEF WindowTypes
<1>2. DecisionTypeOK'
  <2>1. ai.hist \in Seq(Number') /\ ai_nav \in Seq(Number')
    <3>1. ai.hist \in Seq(Number) /\ ai_nav \in Seq(Number)
      BY DEF WindowTypes, DecisionTypeOK
    <3>2. PICK h \in Seq(Number), v \in Seq(Number) : h = ai.hist /\ v = ai_nav
      BY <3>1
    <3>3. \A i \in 1..Len(h) : h[i] \in Number'
      BY <1>1
    <3>4. \A i \in 1..Len(v) : v[i] \in Number'
      BY <1>1
    <3> QED
      BY <3>2, <3>3, <3>4
  <2>2. sentry \in [heard : {0} \cup Number', at : {0} \cup Number', target : {0} \cup Number']
    BY <1>1 DEF WindowTypes, DecisionTypeOK
  <2> QED
    BY <1>1, <2>1, <2>2 DEF WindowTypes, DecisionTypeOK, decisionVars, Number
<1>3. PanelTypeOK'
  <2>1. \A s \in Source : kept[s] <= Newest(s)'
    BY <1>1 DEF WindowTypes, PanelTypeOK, Newest, decisionVars, Source
  <2> QED
    BY <2>1 DEF WindowTypes, PanelTypeOK, panelVars
<1> QED
  BY <1>1, <1>2, <1>3 DEF WindowTypes

LEMMA SentryKeeps ==
  ASSUME location \in Seq(Messages), DecisionTypeOK, SentryCb
  PROVE  DecisionTypeOK' \/ location' # location
<1> SUFFICES ASSUME location' = location PROVE DecisionTypeOK'
  OBVIOUS
<1>1. PICK n \in Number : Throttled(n) \/ Decide(n)
  BY DEF SentryCb
<1>2. /\ sentry \in [heard : {0} \cup Number, at : {0} \cup Number, target : {0} \cup Number]
      /\ sentry_targets \in Seq(Decision)
      /\ Number' = Number /\ Number \subseteq Nat
  BY DEF DecisionTypeOK, Number
<1>3. CASE Throttled(n)
  <2>1. sentry' \in [heard : {0} \cup Number, at : {0} \cup Number, target : {0} \cup Number]
    BY <1>2, <1>3 DEF Throttled
  <2> QED
    BY <1>2, <1>3, <2>1 DEF Throttled, SentryCb, DecisionTypeOK
<1>4. CASE Decide(n)
  <2>1. PICK at \in {0} \cup Number, target \in {0} \cup Number, aim \in {0} \cup Number :
          /\ sentry' = [heard |-> n, at |-> at, target |-> target]
          /\ sentry_targets' = Append(sentry_targets, [from |-> n, at |-> at, target |-> aim])
    <3>1. sentry.at \in {0} \cup Number /\ sentry.target \in {0} \cup Number
      BY <1>2
    <3> QED
      BY <1>4, <3>1 DEF Decide, Hold
  <2>2. sentry' \in [heard : {0} \cup Number, at : {0} \cup Number, target : {0} \cup Number]
    BY <2>1
  <2>3. [from |-> n, at |-> at, target |-> aim] \in Decision
    BY <1>2 DEF Decision
  <2>4. sentry_targets' \in Seq(Decision)
    BY <1>2, <2>1, <2>3
  <2> QED
    BY <1>2, <2>2, <2>4 DEF SentryCb, DecisionTypeOK
<1> QED
  BY <1>1, <1>3, <1>4

LEMMA AiKeeps ==
  ASSUME DecisionTypeOK, LocCb, location' = location
  PROVE  DecisionTypeOK'
<1>1. PICK n \in Number :
        LET hist == IF Names(n, OwnSentry) THEN Slide(ai.hist, n) ELSE ai.hist IN
          /\ ai' = [heard |-> n, hist |-> hist]
          /\ ai_nav' = IF Names(n, OwnSentry) /\ Len(hist) >= MinWindow
                       THEN Append(ai_nav, n) ELSE ai_nav
  BY DEF LocCb
<1>2. PICK h \in Seq(Number), v \in Seq(Number) : h = ai.hist /\ v = ai_nav
  BY DEF DecisionTypeOK
<1>3. Len(h) <= SeqLen
  BY <1>2 DEF DecisionTypeOK
<1>4. Slide(h, n) \in Seq(Number) /\ Len(Slide(h, n)) <= SeqLen
  BY <1>3, SlideIs
<1>5. ai'.hist \in Seq(Number) /\ Len(ai'.hist) <= SeqLen /\ ai'.heard \in Number
  BY <1>1, <1>2, <1>3, <1>4
<1>6. Append(v, n) \in Seq(Number)
  OBVIOUS
<1>7. ai_nav' \in Seq(Number)
  BY <1>1, <1>2, <1>6
<1>8. Number' = Number
  BY DEF Number
<1> QED
  BY <1>5, <1>7, <1>8 DEF LocCb, DecisionTypeOK

\* Decisions only make the topics longer.
LEMMA TopicsGrow ==
  ASSUME DecisionTypeOK, location \in Seq(Messages), location' = location,
         DecisionNext \/ UNCHANGED decisionVars
  PROVE  \A s \in Source : /\ Newest(s) \in Nat /\ Newest(s)' \in Nat
                           /\ Newest(s) <= Newest(s)'
<1>1. /\ sentry_targets \in Seq(Decision) /\ ai_nav \in Seq(Number)
  BY DEF DecisionTypeOK
<1>2. Len(sentry_targets') \in Nat /\ Len(sentry_targets) <= Len(sentry_targets')
  <2>1. CASE sentry_targets' = sentry_targets
    BY <1>1, <2>1
  <2>2. CASE \E d : sentry_targets' = Append(sentry_targets, d)
    <3>1. PICK d : sentry_targets' = Append(sentry_targets, d)
      BY <2>2
    <3>2. PICK t : t = sentry_targets /\ t \in Seq(Decision)
      BY <1>1
    <3>3. Len(Append(t, d)) = Len(t) + 1 /\ Len(t) \in Nat
      BY <3>2
    <3> QED
      BY <3>1, <3>2, <3>3
  <2> QED
    BY <2>1, <2>2 DEF DecisionNext, SentryCb, Throttled, Decide, LocCb, decisionVars
<1>3. Len(ai_nav') \in Nat /\ Len(ai_nav) <= Len(ai_nav')
  <2>1. CASE ai_nav' = ai_nav
    BY <1>1, <2>1
  <2>2. CASE \E d : ai_nav' = Append(ai_nav, d)
    <3>1. PICK d : ai_nav' = Append(ai_nav, d)
      BY <2>2
    <3>2. PICK t : t = ai_nav /\ t \in Seq(Number)
      BY <1>1
    <3>3. Len(Append(t, d)) = Len(t) + 1 /\ Len(t) \in Nat
      BY <3>2
    <3> QED
      BY <3>1, <3>2, <3>3
  <2> QED
    BY <2>1, <2>2 DEF DecisionNext, SentryCb, LocCb, decisionVars
<1>4. Len(location) \in Nat /\ Len(sentry_targets) \in Nat /\ Len(ai_nav) \in Nat
  BY <1>1
<1> QED
  BY <1>2, <1>3, <1>4 DEF Newest, Source

LEMMA DecidingKeeps ==
  ASSUME WindowTypes, DecisionNext, UNCHANGED <<location, panelVars>>
  PROVE  WindowTypes'
<1>1. location' = location /\ location \in Seq(Messages) /\ DecisionTypeOK
  BY DEF WindowTypes
<1>2. DecisionTypeOK'
  BY <1>1, SentryKeeps, AiKeeps DEF DecisionNext
<1>3. \A s \in Source : kept[s] <= Newest(s)'
  <2>1. \A s \in Source : kept[s] <= Newest(s) /\ kept[s] \in Nat
    BY DEF WindowTypes, PanelTypeOK
  <2> QED
    BY <1>1, <2>1, TopicsGrow
<1>4. PanelTypeOK'
  BY <1>3 DEF WindowTypes, PanelTypeOK, panelVars
<1> QED
  BY <1>1, <1>2, <1>4 DEF WindowTypes

LEMMA DrawingKeeps ==
  ASSUME WindowTypes, PanelNext, UNCHANGED <<location, decisionVars>>
  PROVE  WindowTypes'
<1>1. location' = location /\ location \in Seq(Messages) /\ DecisionTypeOK /\ PanelTypeOK
  BY DEF WindowTypes
<1>2. DecisionTypeOK'
  BY <1>1 DEF DecisionTypeOK, decisionVars, Number
<1>3. \A s \in Source : Newest(s)' = Newest(s) /\ Newest(s) \in Nat
  <2>1. \A s \in Source : Newest(s) \in Nat
    BY <1>1, TopicsGrow
  <2> QED
    BY <1>1, <2>1 DEF Newest, Source, decisionVars
<1>4. /\ kept \in [Source -> Nat] /\ copied \in [Source -> Nat] /\ shown \in [Source -> Nat]
      /\ pub_counter \in 0..(PubEvery - 1) /\ map_view \in 0..MaxMaps
      /\ PubEvery \in Nat /\ PubEvery > 0 /\ MaxMaps \in Nat
  BY <1>1, PanelAssumption DEF PanelTypeOK
<1>5. ASSUME NEW s \in Source, KeepCb(s)
      PROVE  PanelTypeOK'
  <2>1. PICK n \in (kept[s] + 1)..Newest(s) : kept' = [kept EXCEPT ![s] = n]
    BY <1>5 DEF KeepCb
  <2>2. n \in Nat /\ n <= Newest(s)
    BY <1>3, <1>4
  <2>3. kept' \in [Source -> Nat] /\ \A u \in Source : kept'[u] <= Newest(u)'
    BY <1>1, <1>3, <1>4, <2>1, <2>2 DEF PanelTypeOK
  <2> QED
    BY <1>1, <1>5, <2>3 DEF KeepCb, PanelTypeOK
<1>6. ASSUME NEW s \in Source, NEW to \in Source \cup {"draw"}, Copy(s, to)
      PROVE  PanelTypeOK'
  <2>1. copied' \in [Source -> Nat]
    BY <1>4, <1>6 DEF Copy
  <2>2. \A u \in Source : kept[u] <= Newest(u)'
    BY <1>1, <1>3 DEF PanelTypeOK
  <2> QED
    BY <1>1, <1>6, <2>1, <2>2 DEF Copy, PanelTypeOK
<1>7. ASSUME Draw
      PROVE  PanelTypeOK'
  <2>1. (pub_counter + 1) % PubEvery \in 0..(PubEvery - 1)
    BY <1>4
  <2>2. pub_counter' \in 0..(PubEvery - 1) /\ map_view' \in 0..MaxMaps
    BY <1>4, <1>7, <2>1 DEF Draw
  <2>3. \A u \in Source : kept[u] <= Newest(u)'
    BY <1>1, <1>3 DEF PanelTypeOK
  <2> QED
    <3>1. kept' = kept /\ copied' = copied /\ shown' = copied /\ place' = "location"
      BY <1>7 DEF Draw
    <3>2. {kept', copied', shown'} \subseteq [Source -> Nat]
      BY <1>4, <3>1
    <3> QED
      <4>1. \A u \in Source : kept'[u] <= Newest(u)'
        BY <2>3, <3>1
      <4>2. place' \in Source \cup {"draw"}
        BY <3>1 DEF Source
      <4> QED
        BY <2>2, <3>2, <4>1, <4>2 DEF PanelTypeOK
<1>8. PanelTypeOK'
  <2>1. /\ "location" \in Source /\ "sentry_targets" \in Source /\ "ai_nav" \in Source
        /\ "sentry_targets" \in Source \cup {"draw"} /\ "ai_nav" \in Source \cup {"draw"}
        /\ "draw" \in Source \cup {"draw"}
    BY DEF Source
  <2>2. CASE \E s \in Source : KeepCb(s)
    BY <1>5, <2>2
  <2>3. CASE DisplayLoop
    <3>1. CASE Copy("location", "sentry_targets")
      BY <1>6, <2>1, <3>1
    <3>2. CASE Copy("sentry_targets", "ai_nav")
      BY <1>6, <2>1, <3>2
    <3>3. CASE Copy("ai_nav", "draw")
      BY <1>6, <2>1, <3>3
    <3>4. CASE Draw
      BY <1>7, <3>4
    <3> QED
      <4>1. \/ Copy("location", "sentry_targets") \/ Copy("sentry_targets", "ai_nav")
            \/ Copy("ai_nav", "draw") \/ Draw
        BY <2>3 DEF DisplayLoop
      <4> QED
        BY <4>1, <3>1, <3>2, <3>3, <3>4
  <2> QED
    BY <2>2, <2>3 DEF PanelNext
<1> QED
  BY <1>1, <1>2, <1>8 DEF WindowTypes

LEMMA WindowKeeps == WindowTypes /\ [Window]_windowVars => WindowTypes'
<1> SUFFICES ASSUME WindowTypes, [Window]_windowVars PROVE WindowTypes'
  OBVIOUS
<1>1. CASE Window
  BY <1>1, LocationKeeps, DecidingKeeps, DrawingKeeps DEF Window
<1>2. CASE UNCHANGED windowVars
  BY <1>2 DEF windowVars, decisionVars, panelVars, WindowTypes, DecisionTypeOK, PanelTypeOK,
     Number, Newest, Source
<1> QED
  BY <1>1, <1>2
-----------------------------------------------------------------------------
(* The page                                                                *)


\* What the types of the page rest on: what a snapshot is, and that every
\* restart of the server was counted.
WebInv ==
  /\ WebTypeOK
  /\ sse.payload.generation \in Nat /\ sse.payload.web \in [Field -> Nat] /\ sse.last \in Nat
  /\ used.breaks \in 0..MaxBreaks /\ used.waves \in Nat
  /\ server <= used.breaks + 1

LEMMA WebInitInv == WebInit => WebInv
<1> SUFFICES ASSUME WebInit PROVE WebInv
  OBVIOUS
<1> USE DEF WebInit, Empty, Closed
<1>1. MaxMessages \in Nat /\ MaxBreaks \in Nat /\ Topics \subseteq Field
  BY WebAssumption DEF Field
<1>2. [f \in Field |-> 0] \in [Field -> Nat]
  OBVIOUS
<1>3. browser \in [server : 1..server, web : [Field -> Nat]]
  BY <1>2
<1>4. WebTypeOK
  <2>1. published \in [Topics -> 0..MaxMessages] /\ heard \in [Topics -> Nat] /\ web \in [Field -> Nat]
    BY <1>1
  <2>2. \A t \in Topics : heard[t] = 0 /\ published[t] = 0 /\ web[t] = 0
    BY <1>1
  <2>3. server \in 1..(MaxBreaks + 1) /\ generation \in Nat /\ streamed \in 0..MaxMessages
    BY <1>1
  <2>4. sse.place = "closed" /\ sse.last <= generation /\ sse.payload.generation <= generation
    OBVIOUS
  <2>5. storing \in BOOLEAN
    OBVIOUS
  <2> QED
    BY ONLY <1>3, <2>1, <2>2, <2>3, <2>4, <2>5 DEF WebTypeOK
<1> QED
  BY <1>1, <1>2, <1>4 DEF WebInv

\* What a message, a callback, a wave and a tick change.
LEMMA WritersKeep ==
  ASSUME WebInv,
         \/ \E t \in Topics : Publish(t) \/ SubscriberCb(t)
         \/ Ingest \/ Clear \/ Announce \/ MetricsTick
  PROVE  WebInv'
<1> USE DEF WebInv
<1>1. /\ MaxMessages \in Nat /\ MaxBreaks \in Nat /\ Topics \subseteq Field
      /\ "wave" \in Field /\ "wave" \notin Topics
  BY WebAssumption DEF Field
<1>2. /\ published \in [Topics -> 0..MaxMessages] /\ heard \in [Topics -> Nat]
      /\ web \in [Field -> Nat] /\ generation \in Nat
      /\ \A t \in Topics : heard[t] <= published[t] /\ web[t] \in {0, heard[t]}
      /\ sse.last <= generation /\ sse.payload.generation <= generation
      /\ sse.payload.generation \in Nat /\ sse.last \in Nat
  BY DEF WebTypeOK
<1>3. ASSUME NEW t \in Topics, Publish(t)
      PROVE  WebInv'
  <2>1. published' = [published EXCEPT ![t] = @ + 1] /\ published[t] < MaxMessages
    BY <1>3 DEF Publish
  <2>2. /\ published' \in [Topics -> 0..MaxMessages]
        /\ \A u \in Topics : heard[u] <= published'[u]
    BY <1>1, <1>2, <2>1
  <2> QED
    BY <1>3, <2>2 DEF Publish, serverVars, WebTypeOK
<1>4. ASSUME NEW t \in Topics, SubscriberCb(t)
      PROVE  WebInv'
  <2>1. PICK n \in (heard[t] + 1)..published[t] :
          heard' = [heard EXCEPT ![t] = n] /\ web' = [web EXCEPT ![t] = n]
    BY <1>4 DEF SubscriberCb
  <2>2. n \in Nat /\ n <= published[t]
    BY <1>2
  <2>3. /\ heard' \in [Topics -> Nat] /\ web' \in [Field -> Nat]
        /\ \A u \in Topics : heard'[u] <= published[u] /\ web'[u] \in {0, heard'[u]}
    BY <1>1, <1>2, <2>1, <2>2
  <2>4. generation' \in Nat /\ sse.last <= generation' /\ sse.payload.generation <= generation'
    BY <1>2, <1>4 DEF SubscriberCb, Notify
  <2> QED
    BY <1>4, <2>3, <2>4 DEF SubscriberCb, WebTypeOK
<1>5. CASE Ingest
  <2>1. /\ web' \in [Field -> Nat] /\ \A t \in Topics : web'[t] = web[t]
    BY <1>1, <1>2, <1>5 DEF Ingest
  <2>2. used'.breaks = used.breaks /\ used'.waves = used.waves + 1
    BY <1>5 DEF Ingest
  <2>3. storing' \in BOOLEAN
    BY <1>5 DEF Ingest
  <2> QED
    BY <1>2, <1>5, <2>1, <2>2, <2>3 DEF Ingest, WebTypeOK
<1>6. CASE Clear
  <2>1. /\ web' \in [Field -> Nat] /\ \A t \in Topics : web'[t] = web[t]
    BY <1>1, <1>2, <1>6 DEF Clear
  <2>2. storing' \in BOOLEAN
    BY <1>6 DEF Clear
  <2> QED
    BY <1>2, <1>6, <2>1, <2>2 DEF Clear, WebTypeOK
<1>7. CASE Announce
  <2>1. generation' \in Nat /\ sse.last <= generation' /\ sse.payload.generation <= generation'
    BY <1>2, <1>7 DEF Announce, Notify
  <2>2. storing' \in BOOLEAN
    BY <1>7 DEF Announce
  <2> QED
    BY <1>2, <1>7, <2>1, <2>2 DEF Announce, WebTypeOK
<1>8. CASE MetricsTick
  <2>1. generation' \in Nat /\ sse.last <= generation' /\ sse.payload.generation <= generation'
    BY <1>2, <1>8 DEF MetricsTick, Notify
  <2>2. used'.breaks = used.breaks /\ used'.waves = used.waves
    BY <1>8 DEF MetricsTick
  <2> QED
    BY <1>2, <1>8, <2>1, <2>2 DEF MetricsTick, WebTypeOK
<1> QED
  BY <1>3, <1>4, <1>5, <1>6, <1>7, <1>8

\* What the two threads of a connection change, and a failure.
LEMMA PushersKeep ==
  ASSUME WebInv, SendEvents \/ SendMjpeg \/ BreakConnection \/ RestartServer
  PROVE  WebInv'
<1> USE DEF WebInv
<1>1. /\ MaxMessages \in Nat /\ MaxBreaks \in Nat /\ Topics \subseteq Field
      /\ "map_view" \in Topics
  BY WebAssumption DEF Field
<1>2. /\ published \in [Topics -> 0..MaxMessages] /\ heard \in [Topics -> Nat]
      /\ web \in [Field -> Nat] /\ generation \in Nat
      /\ server \in 1..(MaxBreaks + 1)
      /\ \A t \in Topics : heard[t] <= published[t] /\ web[t] \in {0, heard[t]}
      /\ sse.last <= generation /\ sse.payload.generation <= generation
      /\ sse.payload.generation \in Nat /\ sse.last \in Nat
      /\ browser \in [server : 1..server, web : [Field -> Nat]]
  BY DEF WebTypeOK
<1>3. CASE SendEvents
  <2>1. UNCHANGED <<published, server, heard, web, generation, storing, streamed, used>>
    BY <1>3 DEF SendEvents, Pushes
  <2>2. /\ sse'.place \in {"closed", "check", "wait"}
        /\ sse'.last <= generation /\ sse'.last \in Nat
        /\ sse'.payload.generation <= generation
        /\ sse'.payload.generation \in Nat /\ sse'.payload.web \in [Field -> Nat]
    <3>1. CASE Connect
      BY <1>2, <3>1 DEF Connect, Snapshot
    <3>2. CASE Send
      BY <1>2, <3>2 DEF Send, WebTypeOK
    <3>3. CASE Throttle
      BY <1>2, <3>3 DEF Throttle, Snapshot, WebTypeOK
    <3>4. CASE Keepalive
      BY <1>2, <3>4 DEF Keepalive
    <3>5. CASE Wake
      BY <1>2, <3>5 DEF Wake, Snapshot
    <3> QED
      BY <1>3, <3>1, <3>2, <3>3, <3>4, <3>5 DEF SendEvents, Pushes
  <2>3. browser' \in [server : 1..server, web : [Field -> Nat]]
    <3>1. browser' = browser \/ browser' = [server |-> server, web |-> sse.payload.web]
      BY <1>3 DEF SendEvents, Pushes, Connect, Send, Throttle, Keepalive, Wake
    <3>2. server \in 1..server
      BY <1>2
    <3> QED
      BY <1>2, <3>1, <3>2
  <2> QED
    BY <2>1, <2>2, <2>3 DEF WebTypeOK
<1>4. CASE SendMjpeg
  <2>1. web["map_view"] \in 0..MaxMessages
    BY <1>1, <1>2, <1>4 DEF SendMjpeg
  <2> QED
    BY <1>4, <2>1 DEF SendMjpeg, WebTypeOK
<1>5. ASSUME Breaks
      PROVE  /\ used'.breaks = used.breaks + 1 /\ used'.waves = used.waves
             /\ used'.breaks \in 0..MaxBreaks
             /\ streamed' = 0 /\ browser' = browser
             /\ sse'.place = "closed" /\ sse'.last = 0 /\ sse'.payload.generation = 0
             /\ sse'.payload.web \in [Field -> Nat]
  BY <1>1, <1>5 DEF Breaks, Closed, Empty
<1>6. CASE BreakConnection
  BY <1>1, <1>2, <1>5, <1>6 DEF BreakConnection, WebTypeOK
<1>7. CASE RestartServer
  <2>1. /\ server' = server + 1 /\ heard' = [t \in Topics |-> published[t]]
        /\ web' = [f \in Field |-> 0] /\ generation' = 0 /\ storing' = FALSE
        /\ published' = published
    BY <1>7 DEF RestartServer, Empty
  <2>2. /\ used'.breaks = used.breaks + 1 /\ used'.waves = used.waves
        /\ used'.breaks \in 0..MaxBreaks
        /\ streamed' = 0 /\ browser' = browser
        /\ sse'.place = "closed" /\ sse'.last = 0 /\ sse'.payload.generation = 0
        /\ sse'.payload.web \in [Field -> Nat]
    BY <1>5, <1>7 DEF RestartServer
  <2>3. server' \in 1..(MaxBreaks + 1) /\ server' <= used'.breaks + 1
    BY <1>1, <1>2, <2>1, <2>2
  <2>4. /\ heard' \in [Topics -> Nat] /\ web' \in [Field -> Nat]
        /\ \A t \in Topics : heard'[t] <= published[t] /\ web'[t] = 0
    BY <1>1, <1>2, <2>1
  <2>5. browser' \in [server : 1..server', web : [Field -> Nat]]
    <3>1. 1..server \subseteq 1..server'
      BY <1>2, <2>1
    <3> QED
      BY <1>2, <2>2, <3>1
  <2>6. storing' \in BOOLEAN
    BY <2>1
  <2> QED
    BY <1>1, <2>1, <2>2, <2>3, <2>4, <2>5, <2>6 DEF WebTypeOK
<1> QED
  BY <1>3, <1>4, <1>6, <1>7

LEMMA WebKeeps == WebInv /\ [WebNext]_webVars => WebInv'
<1> SUFFICES ASSUME WebInv, [WebNext]_webVars PROVE WebInv'
  OBVIOUS
<1>1. CASE WebNext
  BY <1>1, WritersKeep, PushersKeep DEF WebNext
<1>2. CASE UNCHANGED webVars
  BY <1>2 DEF webVars, serverVars, WebInv, WebTypeOK
<1> QED
  BY <1>1, <1>2
-----------------------------------------------------------------------------
(* The outputs: a behaviour of Outputs is one of every path                *)

LEMMA OutputsStart ==
  OutputsInit => CarInit /\ JudgeInit /\ WindowTypes /\ WebInv
<1>1. OutputsInit => /\ CarInit /\ JudgeInit /\ DecisionInit /\ PanelInit /\ WebInit
                     /\ location = <<>>
  BY DEF OutputsInit, JudgeInit
<1> QED
  BY <1>1, WindowInit, WebInitInv

LEMMA OutputsSteps ==
  [OutputsNext]_outputVars =>
    /\ [CarNext]_carVars /\ [JudgeNext]_<<location, judgeVars>>
    /\ [Window]_windowVars /\ [WebNext]_webVars
<1> SUFFICES ASSUME [OutputsNext]_outputVars
             PROVE  /\ [CarNext]_carVars /\ [JudgeNext]_<<location, judgeVars>>
                    /\ [Window]_windowVars /\ [WebNext]_webVars
  OBVIOUS
<1>1. [CarNext]_carVars
  BY DEF OutputsNext, outputVars
<1>2. [JudgeNext]_<<location, judgeVars>>
  <2>1. Window /\ UNCHANGED judgeVars => JudgeNext \/ UNCHANGED <<location, judgeVars>>
    BY DEF Window, JudgeNext
  <2> QED
    BY <2>1 DEF OutputsNext, outputVars
<1>3. [Window]_windowVars
  <2>1. JudgeNext /\ UNCHANGED <<decisionVars, panelVars>> => Window \/ UNCHANGED windowVars
    BY DEF Window, JudgeNext, windowVars
  <2> QED
    BY <2>1 DEF OutputsNext, outputVars, windowVars
<1>4. [WebNext]_webVars
  BY DEF OutputsNext, outputVars
<1> QED
  BY <1>1, <1>2, <1>3, <1>4

\* The types of every path, in the system that has them all: the topics grow,
\* what a node keeps of them has been published, and a snapshot of the page is
\* never of a later generation than the server.
THEOREM OutputsKeepTypes == OutputsSpec => []OutputsTypeOK
<1>1. WindowTypes => DecisionTypeOK /\ PanelTypeOK
  BY DEF WindowTypes
<1>2. WebInv => WebTypeOK
  BY DEF WebInv
<1> QED
  BY <1>1, <1>2, OutputsStart, OutputsSteps, WindowKeeps, WebKeeps, CarTypes, JudgeTypes, PTL
  DEF OutputsSpec, OutputsTypeOK, CarSpec, JudgeSpec

\* In that system too, the own sentry is told what the server is, the votes are
\* of the last frames, and no history is inherited.
THEOREM OutputsAreSafe ==
  OutputsSpec => []SentryToldAsServer /\ []VotesAreRecent /\ DeadHistoriesAge
  BY OutputsStart, OutputsSteps, SentryAndServer, VotesStayRecent, HistoriesAreNotInherited, PTL
  DEF OutputsSpec, CarSpec, JudgeSpec
=============================================================================
