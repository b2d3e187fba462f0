---------------------------- MODULE RadarTracks ----------------------------
(***************************************************************************)
(* The ground half of RadarNode (radar.cpp): the vector KFs_ of Kalman     *)
(* tracks fed by target_pointcloud (pcdCb), the camera votes of            *)
(* detect_result (detectCb), the list last_known_locs_ of cars whose track *)
(* was erased, and the ground part of the location messages that pcdCb and *)
(* otherCb publish.                                                        *)
(*                                                                         *)
(* rclcpp::spin is a single-threaded executor, so callbacks do not         *)
(* interleave.  pcdCb is laid out as the steps of its own loop (predict,   *)
(* one step per cluster centre, cleanup and publish) and `busy` keeps      *)
(* every other callback out until it returns: the loop's invariants are    *)
(* invariants of the states in between.                                    *)
(*                                                                         *)
(* KFs_ is modelled as a function from births to tracks: elements are only *)
(* appended at the end and erasing keeps the order, so the order of births *)
(* is the order of the vector.  The field is one line of integer places.   *)
(***************************************************************************)
EXTENDS Votes

CONSTANTS
  Place,       \* where cluster centres and estimates can be (a bound)
  Drift,       \* how far one KF.predict() can carry an estimate
  DetectR,     \* detect_r (filter.jump_threshold)
  MaxSpeed,    \* car_max_speed (filter.max_velocity)
  MaxDt,       \* the 0.3 s cap on dt_ in match()
  DeleteTime,  \* delete_time (filter.max_inactive_time)
  VoteAge,     \* TIME_THRESHOLD of cameraMatch
  KeepTime,    \* the 10 s a last known position is kept
  MyColor,     \* global.my_color
  Debug,       \* global.debug_coordinate_publish
  Labels,      \* what the camera can read: some of Vote (a bound)
  MaxBirths,   \* tracks created in one run (a bound)
  MaxHits      \* updates of one track (a bound)

ASSUME PlaceAssumption == Place \subseteq Int
ASSUME DriftAssumption == Drift \subseteq Int
ASSUME RadiusAssumption == DetectR \in Nat /\ MaxSpeed \in Nat /\ MaxDt \in Nat
ASSUME TimeAssumption ==
  DeleteTime \in Nat /\ VoteAge \in Nat /\ KeepTime \in Nat /\ VoteAge <= DeleteTime
ASSUME SideAssumption == MyColor \in Team /\ Debug \in BOOLEAN
ASSUME LabelsAssumption == Labels \subseteq Vote
ASSUME BoundAssumption == MaxBirths \in Nat /\ MaxHits \in Nat \ {0}

VARIABLES
  KFs,        \* birth |-> track, for the tracks in the vector
  born,       \* how many tracks were ever created
  lastKnown,  \* last_known_locs_
  gap,        \* time since the last predict (all tracks share it)
  busy,       \* pcdCb is between its Step 1 and its Step 3
  sent        \* the ground part of what the last step published

vars == <<KFs, born, lastKnown, gap, busy, sent>>
-----------------------------------------------------------------------------
(* Tracks *)

\* An age beyond every threshold on tracks behaves like Long.
Long == DeleteTime + 1

\* The same for the ages of last known positions.
Forgotten == KeepTime + 1

AtMost(n, cap) == IF n <= cap THEN n ELSE cap

Birth == 1..MaxBirths

Track ==
  [pos   : Place,          \* predict_point
   seen  : Place,          \* the newest point of history
   dt    : 0..Long,        \* dt_
   idle  : 0..Long,        \* last_time
   hits  : 0..MaxHits,
   votes : Seq(Vote)]      \* detect_history

\* KalmanFilterPlus(pt, 0).  Its dt_ of 0.1 s is below the time unit.
NewTrack(pt) ==
  [pos |-> pt, seen |-> pt, dt |-> 0, idle |-> 0, hits |-> 1, votes |-> <<>>]

Dist(p, q) == IF p <= q THEN q - p ELSE p - q

\* match()
Matches(t, pt) == Dist(t.pos, pt) < MaxSpeed * AtMost(t.dt, MaxDt) + DetectR

\* update(): KF.correct() leaves the estimate between prediction and measurement.
Corrected(t, pt, p) ==
  [pos |-> p, seen |-> pt, dt |-> t.dt, idle |-> 0, hits |-> t.hits + 1, votes |-> t.votes]

Between(p, q) == {r \in Place : (p <= r /\ r <= q) \/ (q <= r /\ r <= p)}

\* last_time = dt_ instead of last_time += dt_.
PredictedNotSummed(t, p) ==
  [t EXCEPT !.pos = p, !.dt = gap, !.idle = AtMost(gap, Long)]

\* update_predict_point()
Predicted(t, p) ==
  [t EXCEPT !.pos = p, !.dt = gap, !.idle = AtMost(@ + gap, Long)]

Predictions(t) == {p \in Place : \E d \in Drift : p = t.pos + d}

\* cameraMatch(): the newest radar point is the nearest in time.
CameraMatches(t, p) ==
  /\ t.idle + gap <= VoteAge
  /\ Dist(t.seen, p) < DetectR
-----------------------------------------------------------------------------
(* The location message *)

Quiet == [by |-> "nobody", live |-> <<>>, last |-> {}]

\* The publication filter: enemies and the own sentry, or everything.
Reported(cid) ==
  \/ Debug
  \/ IF MyColor = Red THEN cid >= 100 \/ cid = 7
                      ELSE (0 < cid /\ cid < 100) \/ cid = 107

\* The tracks that compete for cid.
Claimants(ks, cid) ==
  {k \in DOMAIN ks : Identified(ks[k].votes) /\ Identity(ks[k].votes) = cid}

LiveIds(ks) ==
  {cid \in CarIds : Reported(cid) /\ Claimants(ks, cid) # {}}

\* The claimant with most hits, the first of the vector on a tie.
Best(ks, cid) ==
  CHOOSE k \in Claimants(ks, cid) :
    \A j \in Claimants(ks, cid) :
      ks[k].hits > ks[j].hits \/ (ks[k].hits = ks[j].hits /\ k <= j)

\* Step 4 of pcdCb, and the same code in otherCb.
Message(by, ks, lk) ==
  [by   |-> by,
   live |-> [cid \in LiveIds(ks) |-> Best(ks, cid)],
   last |-> {e \in lk : -e.id \notin LiveIds(ks)}]

Publish(by, ks, lk) ==
  LET m == Message(by, ks, lk)
  IN sent' = IF LiveIds(ks) = {} /\ m.last = {} THEN Quiet ELSE m
-----------------------------------------------------------------------------
(* Callbacks *)

Init ==
  /\ KFs = [k \in {} |-> NewTrack(0)]
  /\ born = 0
  /\ lastKnown = {}
  /\ gap = 0
  /\ busy = FALSE
  /\ sent = Quiet

\* One unit of time passes while no callback runs.
Tick ==
  /\ ~busy
  /\ gap' = AtMost(gap + 1, Long)
  /\ lastKnown' = {[e EXCEPT !.age = AtMost(@ + 1, Forgotten)] : e \in lastKnown}
  /\ sent' = Quiet
  /\ UNCHANGED <<KFs, born, busy>>

\* detectCb with one robot: every track near it gets the vote.  The robots of a
\* message are independent and nothing is published, so a message of n robots
\* is n such steps.
DetectCb(p, v) ==
  /\ ~busy
  /\ KFs' = [k \in DOMAIN KFs |->
               IF CameraMatches(KFs[k], p)
               THEN [KFs[k] EXCEPT !.votes = Push(@, v)]
               ELSE KFs[k]]
  /\ sent' = Quiet
  /\ UNCHANGED <<born, lastKnown, gap, busy>>

\* pcdCb of a cloud that is not empty, Step 1: predict every track.
PcdPredict ==
  /\ ~busy
  /\ \E p \in [DOMAIN KFs -> Place] :
       /\ \A k \in DOMAIN KFs : p[k] \in Predictions(KFs[k])
       /\ KFs' = [k \in DOMAIN KFs |-> Predicted(KFs[k], p[k])]
  /\ gap' = 0
  /\ busy' = TRUE
  /\ sent' = Quiet
  /\ UNCHANGED <<born, lastKnown>>

\* Step 2, a cluster centre no track matches: a new track at the end.
PcdCreate(pt) ==
  /\ busy
  /\ born < MaxBirths
  /\ \A k \in DOMAIN KFs : ~Matches(KFs[k], pt)
  /\ born' = born + 1
  /\ KFs' = [k \in DOMAIN KFs \cup {born + 1} |->
               IF k = born + 1 THEN NewTrack(pt) ELSE KFs[k]]
  /\ UNCHANGED <<lastKnown, gap, busy, sent>>

\* Step 2, a cluster centre some tracks match: the closest is updated, the
\* first of the vector when two are as close.
PcdUpdate(pt, k) ==
  /\ busy
  /\ k \in DOMAIN KFs
  /\ Matches(KFs[k], pt)
  /\ \A j \in DOMAIN KFs \ {k} :
       Matches(KFs[j], pt) =>
         \/ Dist(KFs[k].pos, pt) < Dist(KFs[j].pos, pt)
         \/ Dist(KFs[k].pos, pt) = Dist(KFs[j].pos, pt) /\ k < j
  /\ KFs[k].hits < MaxHits
  /\ \E p \in Between(KFs[k].pos, pt) :
       KFs' = [KFs EXCEPT ![k] = Corrected(@, pt, p)]
  /\ UNCHANGED <<born, lastKnown, gap, busy, sent>>

\* Identified tracks are kept however old they are.
ExpiredAnonymous == {k \in DOMAIN KFs : KFs[k].idle > DeleteTime /\ KFs[k].votes = <<>>}

\* The tracks Step 3 erases.
Expired == {k \in DOMAIN KFs : KFs[k].idle > DeleteTime}

\* The id is saved as it is.
ObituariesNotNegated ==
  {[kf |-> k, id |-> Identity(KFs[k].votes), age |-> 0] :
     k \in {j \in Expired : Identified(KFs[j].votes)}}

\* Only tracks radar confirmed at least once more are saved.
ObituariesOfUpdated ==
  {[kf |-> k, id |-> -Identity(KFs[k].votes), age |-> 0] :
     k \in {j \in Expired : Identified(KFs[j].votes) /\ KFs[j].hits > 1}}

\* What Step 3 saves of them: the negated car id of those that had a vote.
Obituaries ==
  {[kf |-> k, id |-> -Identity(KFs[k].votes), age |-> 0] :
     k \in {j \in Expired : Identified(KFs[j].votes)}}

\* The expired tracks are saved but not erased.
PcdFinishKeeps ==
  LET kept == {e \in lastKnown : e.age <= KeepTime} \cup Obituaries
  IN /\ busy
     /\ lastKnown' = kept
     /\ busy' = FALSE
     /\ Publish("pcdCb", KFs, kept)
     /\ UNCHANGED <<KFs, born, gap>>

\* last_known_locs_ is never purged.
PcdFinishNoPurge ==
  LET left == [k \in DOMAIN KFs \ Expired |-> KFs[k]]
      kept == lastKnown \cup Obituaries
  IN /\ busy
     /\ KFs' = left
     /\ lastKnown' = kept
     /\ busy' = FALSE
     /\ Publish("pcdCb", left, kept)
     /\ UNCHANGED <<born, gap>>

\* Steps 3 and 4: erase, save, purge, publish.
PcdFinish ==
  LET left == [k \in DOMAIN KFs \ Expired |-> KFs[k]]
      kept == {e \in lastKnown : e.age <= KeepTime} \cup Obituaries
  IN /\ busy
     /\ KFs' = left
     /\ lastKnown' = kept
     /\ busy' = FALSE
     /\ Publish("pcdCb", left, kept)
     /\ UNCHANGED <<born, gap>>

\* otherCb with a point inside the field: no predict, no cleanup, but the
\* ground tracks and the last known positions are published with the drones.
OtherCb ==
  /\ ~busy
  /\ Publish("otherCb", KFs, lastKnown)
  /\ UNCHANGED <<KFs, born, lastKnown, gap, busy>>

Next ==
  \/ Tick
  \/ \E p \in Place, v \in Labels : DetectCb(p, v)
  \/ PcdPredict
  \/ \E pt \in Place : PcdCreate(pt)
  \/ \E pt \in Place, k \in Birth : PcdUpdate(pt, k)
  \/ PcdFinish
  \/ OtherCb

Spec == Init /\ [][Next]_vars

\* The lidar delivers frames for ever (publish_freq 10 Hz, reliable QoS) and a
\* callback that runs returns.  Frames have a finite rate, so time passes again
\* and again although each frame keeps it from passing for a moment.
Fairness == WF_vars(PcdPredict) /\ WF_vars(PcdFinish) /\ SF_vars(Tick)

FairSpec == Spec /\ Fairness
-----------------------------------------------------------------------------
(* Properties *)

LastEntry == [kf : Birth, id : {-cid : cid \in CarIds}, age : 0..Forgotten]

TypeOK ==
  /\ DOMAIN KFs \subseteq 1..born
  /\ \A k \in DOMAIN KFs : KFs[k] \in Track
  /\ born \in 0..MaxBirths
  /\ lastKnown \subseteq LastEntry
  /\ gap \in 0..Long
  /\ busy \in BOOLEAN
  /\ sent.by \in {"nobody", "pcdCb", "otherCb"}

\* Outside pcdCb no track is left that radar has not confirmed for longer than
\* delete_time, measured at the last predict: whatever the order of votes,
\* frames and drone frames, votes alone never keep a track.
NoGhostTrack ==
  ~busy => \A k \in DOMAIN KFs : KFs[k].idle <= DeleteTime

\* Every id a message carries was read by the camera: a vote for exactly that
\* team and number is in the window of the track published under it, although
\* getColor and getNumber are elected one after the other and ties are broken
\* in different ways (last vote, smallest number).
PublishedIdWasVoted ==
  \A cid \in DOMAIN sent.live :
    LET k == sent.live[cid]
    IN /\ k \in DOMAIN KFs
       /\ \E i \in DOMAIN KFs[k].votes : CarId(KFs[k].votes[i]) = cid

\* A lost position is never that of a track still in the vector, and each track
\* is lost at most once.
LostMeansErased ==
  /\ \A e \in lastKnown : e.kf \in 1..born \ DOMAIN KFs
  /\ \A e, f \in lastKnown : e.kf = f.kf => e = f

\* An identified track leaves the vector only by being reported: the message of
\* the step that erases it carries its car id, live (another track has it) or
\* negated.
NoSilentLoss ==
  [][\A k \in DOMAIN KFs \ DOMAIN KFs' :
       Identified(KFs[k].votes) =>
         LET cid == Identity(KFs[k].votes)
         IN \/ cid \in DOMAIN sent'.live
            \/ \E e \in sent'.last : e.id = -cid]_vars

\* One camera vote cannot turn a track whose window holds a lead of three votes
\* for a team (push_back may evict one of them, so a lead of two can be lost).
Lead(s, c) == ColorVotes(s, c) - ColorVotes(s, IF c = Red THEN Blue ELSE Red)

NoSingleVoteFlip ==
  [][\A k \in DOMAIN KFs \cap DOMAIN KFs', c \in Team :
       Lead(KFs[k].votes, c) >= 3 => getColor(KFs'[k].votes) = c]_vars

\* A track radar does not confirm any more is erased: it is again and again
\* either gone or just updated.
GhostsDie ==
  \A k \in Birth : []<>(k \notin DOMAIN KFs \/ KFs[k].idle = 0)

\* A lost position is forgotten in the end.
LostExpires ==
  \A k \in Birth : []<>(\A e \in lastKnown : e.kf # k)

\* Neither a track nor the memory of one stays for ever.
TracksEnd == GhostsDie /\ LostExpires

\* What docs/KNOWN_ISSUES.md 1.3 says of one message: each target is in it once.
\* Two tracks of one car that expire leave two entries with the same id.
OneEntryPerTarget ==
  \A e, f \in sent.last : e.id = f.id => e = f

\* What docs/PROJECT_ANALYSIS.md says of debug_coordinate_publish = false: only
\* enemies and the own sentry are published.  Step 3 saves every lost car.
OnlyEnemiesAndOwnSentry ==
  /\ \A cid \in DOMAIN sent.live : Reported(cid)
  /\ \A e \in sent.last : Reported(-e.id)
=============================================================================
