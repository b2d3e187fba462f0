------------------------- MODULE RadarTracksProofs --------------------------
(***************************************************************************)
(* Safety of the ground tracks of radar.cpp for every field, every set of  *)
(* labels, every threshold and any number of tracks: first the votes, then *)
(* the tracks that are published by them.                                  *)
(***************************************************************************)
EXTENDS RadarTracks, FiniteSetTheorems, TLAPS

(* What getColor and getNumber elect is always something the camera read.  *)
(* The two are elected one after the other, with different rules for ties, *)
(* so it is not obvious that the pair of them was ever a vote.             *)

\* A set of naturals that is not empty has a least element.
LEMMA LeastNatural ==
  ASSUME NEW T, T \subseteq Nat, T # {}
  PROVE  \E x \in T : \A y \in T : x <= y
<1>1. PICK x \in T : \A y \in T : ~(<<y, x>> \in OpToRel(<, Nat))
  BY NatLessThanWellFounded, WFMin
<1>2. \A y \in T : ~(y < x)
  BY <1>1 DEF OpToRel
<1> QED BY <1>2

\* The choice getNumber and best_per_cid make exists: the largest value of a
\* bounded function, at the smallest argument that has it.
LEMMA FirstOfTheLargest ==
  ASSUME NEW S, S \subseteq Nat, S # {},
         NEW f \in [S -> Nat], NEW b \in Nat, \A s \in S : f[s] <= b
  PROVE  \E k \in S : \A j \in S : f[k] > f[j] \/ (f[k] = f[j] /\ k <= j)
<1> DEFINE Short == {b - f[s] : s \in S}
<1>1. Short \subseteq Nat /\ Short # {}
  <2>1. \A s \in S : f[s] \in Nat /\ f[s] <= b
    OBVIOUS
  <2>2. \A s \in S : b - f[s] \in Nat
    BY <2>1
  <2> QED BY <2>2
<1>2. PICK m \in Short : \A n \in Short : m <= n
  BY <1>1, LeastNatural
<1>3. PICK t \in S : m = b - f[t]
  BY <1>2
<1>4. \A j \in S : f[j] <= f[t]
  <2> TAKE j \in S
  <2>1. m <= b - f[j]
    BY <1>2
  <2>2. f[t] \in Nat /\ f[j] \in Nat
    OBVIOUS
  <2> QED BY <1>3, <2>1, <2>2
<1> DEFINE Largest == {s \in S : f[s] = f[t]}
<1>5. Largest \subseteq Nat /\ Largest # {}
  OBVIOUS
<1>6. PICK k \in Largest : \A j \in Largest : k <= j
  BY <1>5, LeastNatural
<1>7. ASSUME NEW j \in S PROVE f[k] > f[j] \/ (f[k] = f[j] /\ k <= j)
  <2>1. f[k] = f[t] /\ f[j] <= f[t]
    BY <1>4, <1>6
  <2>2. f[k] = f[j] => k <= j
    BY <1>6, <2>1
  <2>3. f[k] \in Nat /\ f[j] \in Nat
    BY <1>6
  <2> QED BY <2>1, <2>2, <2>3
<1> QED BY <1>6, <1>7

\* The positions of a window that satisfy a condition are counted by a natural
\* number, at most the length of the window, and zero only if there are none.
LEMMA CountOfPositions ==
  ASSUME NEW s \in Seq(Vote), NEW I, I \subseteq DOMAIN s
  PROVE  /\ Cardinality(I) \in 0..Len(s)
         /\ Cardinality(I) = 0 <=> I = {}
<1>1. IsFiniteSet(1..Len(s)) /\ Cardinality(1..Len(s)) = Len(s)
  <2>1. Len(s) \in Nat /\ 1 \in Int
    OBVIOUS
  <2>2. Cardinality(1..Len(s)) = IF 1 > Len(s) THEN 0 ELSE Len(s) - 1 + 1
    BY <2>1, FS_Interval
  <2>3. IsFiniteSet(1..Len(s))
    BY <2>1, FS_Interval
  <2> QED BY <2>1, <2>2, <2>3
<1>2. I \subseteq 1..Len(s)
  OBVIOUS
<1>3. IsFiniteSet(I) /\ Cardinality(I) <= Len(s)
  BY <1>1, <1>2, FS_Subset
<1>4. Cardinality(I) \in Nat
  BY <1>3, FS_CardinalityType
<1>5. Cardinality(I) = 0 <=> I = {}
  BY <1>3, FS_EmptySet
<1> QED BY <1>3, <1>4, <1>5

\* A team with a positive count has a vote.
LEMMA ColorVotesWitness ==
  ASSUME NEW s \in Seq(Vote), NEW c \in Team
  PROVE  /\ ColorVotes(s, c) \in Nat
         /\ ColorVotes(s, c) > 0 => \E i \in DOMAIN s : s[i][1] = c
<1> DEFINE I == {i \in DOMAIN s : s[i][1] = c}
<1>1. Cardinality(I) \in 0..Len(s) /\ (Cardinality(I) = 0 <=> I = {})
  <2>1. I \subseteq DOMAIN s
    OBVIOUS
  <2> HIDE DEF I
  <2> QED BY <2>1, CountOfPositions
<1>2. ColorVotes(s, c) = Cardinality(I)
  BY DEF ColorVotes
<1> HIDE DEF I
<1>3. Cardinality(I) > 0 => I # {}
  BY <1>1
<1>4. Cardinality(I) \in Nat
  BY <1>1
<1> QED BY <1>2, <1>3, <1>4 DEF I

\* The team of a window with votes was voted by one of them.
LEMMA ColorWasVoted ==
  ASSUME NEW s \in Seq(Vote), s # <<>>
  PROVE  /\ getColor(s) \in Team
         /\ \E i \in DOMAIN s : s[i][1] = getColor(s)
<1> DEFINE r == ColorVotes(s, Red)
           b == ColorVotes(s, Blue)
<1>1. r \in Nat /\ b \in Nat
  BY ColorVotesWitness DEF Team
<1>2. Len(s) \in DOMAIN s /\ s[Len(s)] \in Vote
  OBVIOUS
<1>3. s[Len(s)][1] \in Team
  BY <1>2 DEF Vote
<1>4. CASE r > b
  <2>1. getColor(s) = Red
    BY <1>1, <1>4 DEF getColor
  <2>2. r > 0
    BY <1>1, <1>4
  <2> QED BY <2>1, <2>2, ColorVotesWitness DEF Team
<1>5. CASE b > r
  <2>1. getColor(s) = Blue
    BY <1>1, <1>5 DEF getColor
  <2>2. b > 0
    BY <1>1, <1>5
  <2> QED BY <2>1, <2>2, ColorVotesWitness DEF Team
<1>6. CASE r = b
  <2>1. getColor(s) = IF s[Len(s)][1] = Red THEN Red ELSE Blue
    BY <1>1, <1>6 DEF getColor
  <2>2. getColor(s) = s[Len(s)][1]
    BY <2>1, <1>3 DEF Team
  <2> QED BY <2>2, <1>2, <1>3
<1> QED BY <1>1, <1>4, <1>5, <1>6

\* The number is elected among the votes for the team, so the pair is a vote.
\* This is why pcdCb never publishes a car the camera did not read.
THEOREM ElectedWasVoted ==
  ASSUME NEW s \in Seq(Vote), s # <<>>
  PROVE  /\ <<getColor(s), getNumber(s)>> \in Vote
         /\ \E i \in DOMAIN s : s[i] = <<getColor(s), getNumber(s)>>
<1> DEFINE c == getColor(s)
           I(n) == {i \in DOMAIN s : s[i] = <<c, n>>}
           f == [n \in Candidates(s) |-> NumberVotes(s, c, n)]
<1>1. c \in Team
  BY ColorWasVoted
<1>2. \A n : NumberVotes(s, c, n) \in 0..Len(s) /\ (NumberVotes(s, c, n) > 0 => I(n) # {})
  <2> TAKE n
  <2>1. I(n) \subseteq DOMAIN s
    OBVIOUS
  <2>2. Cardinality(I(n)) \in 0..Len(s) /\ (Cardinality(I(n)) = 0 <=> I(n) = {})
    <3> HIDE DEF I
    <3> QED BY <2>1, CountOfPositions
  <2>3. NumberVotes(s, c, n) = Cardinality(I(n))
    BY DEF NumberVotes
  <2> HIDE DEF I, c
  <2> QED BY <2>2, <2>3
<1>3. PICK i \in DOMAIN s : s[i][1] = c
  BY ColorWasVoted
<1>4. s[i][2] \in Number /\ s[i] = <<c, s[i][2]>>
  <2>1. s[i] \in Vote
    OBVIOUS
  <2> HIDE DEF c
  <2> QED BY <1>3, <2>1 DEF Vote
<1>5. s[i][2] \in Candidates(s)
  <2>1. I(s[i][2]) # {}
    BY <1>4
  <2>2. I(s[i][2]) \subseteq DOMAIN s
    OBVIOUS
  <2>3. Cardinality(I(s[i][2])) \in 0..Len(s) /\ Cardinality(I(s[i][2])) # 0
    <3> HIDE DEF I
    <3> QED BY <2>1, <2>2, CountOfPositions
  <2>4. NumberVotes(s, c, s[i][2]) > 0
    BY <2>3 DEF NumberVotes
  <2> QED BY <1>4, <2>4 DEF Candidates
<1>6. Candidates(s) \subseteq Nat /\ Candidates(s) # {}
  BY <1>5, NumberAssumption DEF Candidates
<1>7. f \in [Candidates(s) -> Nat] /\ \A n \in Candidates(s) : f[n] <= Len(s)
  <2> HIDE DEF I, c
  <2>1. \A n \in Candidates(s) : NumberVotes(s, c, n) \in 0..Len(s)
    BY <1>2
  <2>2. Len(s) \in Nat
    OBVIOUS
  <2> QED BY <2>1, <2>2
<1>8. \E k \in Candidates(s) : \A j \in Candidates(s) :
         f[k] > f[j] \/ (f[k] = f[j] /\ k <= j)
  <2>1. Len(s) \in Nat
    OBVIOUS
  <2> HIDE DEF f
  <2> QED BY <1>6, <1>7, <2>1, FirstOfTheLargest
<1>9. \E k \in Candidates(s) : \A j \in Candidates(s) :
         \/ NumberVotes(s, c, k) > NumberVotes(s, c, j)
         \/ NumberVotes(s, c, k) = NumberVotes(s, c, j) /\ k <= j
  <2> HIDE DEF c
  <2> QED BY <1>8
<1>10. getNumber(s) \in Candidates(s)
  BY <1>6, <1>9 DEF getNumber
<1>11. getNumber(s) \in Number /\ NumberVotes(s, c, getNumber(s)) > 0
  BY <1>10 DEF Candidates
<1>12. I(getNumber(s)) # {}
  <2> HIDE DEF I, c
  <2> QED BY <1>2, <1>11
<1> QED
  <2>1. <<c, getNumber(s)>> \in Vote
    <3> HIDE DEF c
    <3> QED BY <1>1, <1>11 DEF Vote
  <2> QED BY <2>1, <1>12

-----------------------------------------------------------------------------
(* The tracks                                                              *)

\* What the callbacks keep between their steps: besides the properties, that
\* pcdCb publishes nothing before it has finished.
IInv ==
  /\ TypeOK
  /\ NoGhostTrack
  /\ LostMeansErased
  /\ busy => sent = Quiet

LEMMA LongIsNat == Long \in Nat /\ Forgotten \in Nat
BY TimeAssumption DEF Long, Forgotten

\* An age stays within its cap.
LEMMA AtMostBound ==
  ASSUME NEW n \in Nat, NEW cap \in Nat
  PROVE  AtMost(n, cap) \in 0..cap
BY DEF AtMost

\* push_back and pop_front keep a window a window.
LEMMA PushType ==
  ASSUME NEW s \in Seq(Vote), NEW v \in Vote
  PROVE  Push(s, v) \in Seq(Vote) /\ Push(s, v) # <<>>
<1> DEFINE t == Append(s, v)
<1>1. t \in Seq(Vote) /\ Len(t) = Len(s) + 1 /\ t # <<>>
  OBVIOUS
<1>2. Len(t) > VoteCap => Tail(t) \in Seq(Vote) /\ Len(Tail(t)) = Len(t) - 1
  BY <1>1
<1>3. Len(t) > VoteCap => Tail(t) # <<>>
  <2>1. Len(t) > VoteCap => Len(Tail(t)) >= 1
    BY <1>1, <1>2, VoteCapAssumption
  <2> QED BY <2>1, <1>2
<1> QED BY <1>1, <1>2, <1>3 DEF Push

\* An identified track is published under an id of CarIds that was voted.
LEMMA IdentityWasVoted ==
  ASSUME NEW s \in Seq(Vote), Identified(s)
  PROVE  /\ Identity(s) \in CarIds
         /\ Identity(s) \in Int
         /\ \E i \in DOMAIN s : CarId(s[i]) = Identity(s)
<1> DEFINE v == <<getColor(s), getNumber(s)>>
<1>1. v \in Vote /\ \E i \in DOMAIN s : s[i] = v
  BY ElectedWasVoted DEF Identified
<1>2. Identity(s) = CarId(v)
  BY DEF Identity
<1>3. v[2] \in Number
  <2> HIDE DEF v
  <2> QED BY <1>1 DEF Vote
<1>4. CarNo[v[2]] \in Int
  BY <1>3, CarNoAssumption
<1>5. CarId(v) \in Int
  BY <1>4 DEF CarId
<1> HIDE DEF v
<1> QED BY <1>1, <1>2, <1>5 DEF CarIds

\* A track made of a cluster centre is a track.
LEMMA NewTrackType == ASSUME NEW pt \in Place PROVE NewTrack(pt) \in Track
<1>1. <<>> \in Seq(Vote)
  OBVIOUS
<1> QED BY <1>1, LongIsNat, BoundAssumption DEF NewTrack, Track
-----------------------------------------------------------------------------
LEMMA InitInv == Init => IInv
<1> SUFFICES ASSUME Init PROVE IInv
  OBVIOUS
<1>1. DOMAIN KFs = {}
  BY DEF Init
<1>2. TypeOK
  <2>1. born \in 0..MaxBirths /\ gap \in 0..Long
    BY LongIsNat, BoundAssumption DEF Init
  <2>2. lastKnown \subseteq LastEntry /\ busy \in BOOLEAN
    BY DEF Init
  <2>3. sent.by \in {"nobody", "pcdCb", "otherCb"}
    BY DEF Init, Quiet
  <2> QED BY <1>1, <2>1, <2>2, <2>3 DEF TypeOK
<1> QED BY <1>1, <1>2 DEF Init, IInv, NoGhostTrack, LostMeansErased

\* Time: ages grow to their caps, tracks do not change.
LEMMA TickInv == ASSUME IInv, Tick PROVE IInv'
<1> USE DEF IInv
<1>1. gap' \in 0..Long
  BY LongIsNat, AtMostBound DEF TypeOK, Tick
<1>2. ASSUME NEW e \in lastKnown'
      PROVE  \E f \in lastKnown : e = [f EXCEPT !.age = AtMost(@ + 1, Forgotten)]
  BY DEF Tick
<1>3. ASSUME NEW f \in lastKnown
      PROVE  [f EXCEPT !.age = AtMost(@ + 1, Forgotten)] \in LastEntry
  <2>1. f \in LastEntry
    BY DEF TypeOK
  <2>2. f.age + 1 \in Nat
    BY <2>1, LongIsNat DEF LastEntry
  <2>3. AtMost(f.age + 1, Forgotten) \in 0..Forgotten
    BY <2>2, LongIsNat, AtMostBound
  <2> QED BY <2>1, <2>3 DEF LastEntry
<1>4. lastKnown' \subseteq LastEntry
  BY <1>2, <1>3
<1>5. TypeOK'
  BY <1>1, <1>4 DEF TypeOK, Tick, Quiet
<1>6. ASSUME NEW f \in lastKnown
      PROVE  [f EXCEPT !.age = AtMost(@ + 1, Forgotten)].kf = f.kf
  BY DEF TypeOK, LastEntry
<1>7. LostMeansErased'
  <2>1. \A e \in lastKnown' : e.kf \in 1..born \ DOMAIN KFs
    BY <1>2, <1>6 DEF LostMeansErased
  <2>2. ASSUME NEW e \in lastKnown', NEW f \in lastKnown', e.kf = f.kf
        PROVE  e = f
    <3>1. PICK d \in lastKnown : e = [d EXCEPT !.age = AtMost(@ + 1, Forgotten)]
      BY <1>2
    <3>2. PICK g \in lastKnown : f = [g EXCEPT !.age = AtMost(@ + 1, Forgotten)]
      BY <1>2
    <3>3. d.kf = g.kf
      BY <1>6, <2>2, <3>1, <3>2
    <3>4. d = g
      BY <3>3 DEF LostMeansErased
    <3> QED BY <3>1, <3>2, <3>4
  <2> QED BY <2>1, <2>2 DEF LostMeansErased, Tick
<1> QED BY <1>5, <1>7 DEF Tick, NoGhostTrack

\* A vote changes the window of the tracks it matches and nothing else.
LEMMA DetectInv ==
  ASSUME IInv, NEW p \in Place, NEW v \in Labels, DetectCb(p, v)
  PROVE  IInv'
<1> USE DEF IInv
<1>1. DOMAIN KFs' = DOMAIN KFs
  BY DEF DetectCb
<1>2. ASSUME NEW k \in DOMAIN KFs
      PROVE  KFs'[k] \in Track /\ KFs'[k].idle = KFs[k].idle
  <2>1. KFs[k] \in Track
    BY DEF TypeOK
  <2>2. Push(KFs[k].votes, v) \in Seq(Vote)
    BY <2>1, LabelsAssumption, PushType DEF Track
  <2>3. [KFs[k] EXCEPT !.votes = Push(@, v)] \in Track
    BY <2>1, <2>2 DEF Track
  <2>4. [KFs[k] EXCEPT !.votes = Push(@, v)].idle = KFs[k].idle
    BY <2>1 DEF Track
  <2> QED BY <2>1, <2>3, <2>4 DEF DetectCb
<1>3. TypeOK'
  BY <1>1, <1>2 DEF TypeOK, DetectCb, Quiet
<1> QED BY <1>1, <1>2, <1>3 DEF DetectCb, NoGhostTrack, LostMeansErased

\* Predicting keeps the tracks and closes the node for other callbacks.
LEMMA PredictInv == ASSUME IInv, PcdPredict PROVE IInv'
<1> USE DEF IInv
<1>1. PICK p \in [DOMAIN KFs -> Place] :
        KFs' = [k \in DOMAIN KFs |-> Predicted(KFs[k], p[k])]
  BY DEF PcdPredict
<1>2. DOMAIN KFs' = DOMAIN KFs
  BY <1>1
<1>3. ASSUME NEW k \in DOMAIN KFs PROVE KFs'[k] \in Track
  <2>1. KFs[k] \in Track
    BY DEF TypeOK
  <2>2. KFs[k].idle \in Nat /\ gap \in 0..Long
    BY <2>1 DEF TypeOK, Track
  <2>3. AtMost(KFs[k].idle + gap, Long) \in 0..Long
    BY <2>2, LongIsNat, AtMostBound
  <2>4. Predicted(KFs[k], p[k]) \in Track
    BY <2>1, <2>2, <2>3 DEF Predicted, Track
  <2> QED BY <1>1, <2>4
<1>4. TypeOK'
  BY <1>2, <1>3, LongIsNat DEF TypeOK, PcdPredict, Quiet
<1> QED BY <1>2, <1>4 DEF PcdPredict, NoGhostTrack, LostMeansErased

\* A new track is younger than every lost one.
LEMMA CreateInv == ASSUME IInv, NEW pt \in Place, PcdCreate(pt) PROVE IInv'
<1> USE DEF IInv
<1>1. DOMAIN KFs' = DOMAIN KFs \cup {born + 1}
  BY DEF PcdCreate
<1>2. ASSUME NEW k \in DOMAIN KFs' PROVE KFs'[k] \in Track
  BY NewTrackType DEF PcdCreate, TypeOK
<1>3. TypeOK'
  BY <1>1, <1>2, BoundAssumption DEF TypeOK, PcdCreate
<1>4. LostMeansErased'
  BY <1>1 DEF TypeOK, PcdCreate, LostMeansErased
<1> QED BY <1>3, <1>4 DEF PcdCreate, NoGhostTrack

\* An update keeps every track where it is in the vector.
LEMMA UpdateInv ==
  ASSUME IInv, NEW pt \in Place, NEW k \in Birth, PcdUpdate(pt, k)
  PROVE  IInv'
<1> USE DEF IInv
<1>1. PICK p \in Place : KFs' = [KFs EXCEPT ![k] = Corrected(@, pt, p)]
  BY DEF PcdUpdate, Between
<1>2. DOMAIN KFs' = DOMAIN KFs
  BY <1>1
<1>3. Corrected(KFs[k], pt, p) \in Track
  <2>1. KFs[k] \in Track /\ KFs[k].hits < MaxHits
    BY DEF TypeOK, PcdUpdate
  <2>2. KFs[k].hits + 1 \in 0..MaxHits
    BY <2>1, BoundAssumption DEF Track
  <2> QED BY <2>1, <2>2, LongIsNat DEF Corrected, Track
<1>4. \A j \in DOMAIN KFs' : KFs'[j] \in Track
  BY <1>1, <1>3 DEF TypeOK
<1>5. TypeOK'
  BY <1>2, <1>4 DEF TypeOK, PcdUpdate
<1> QED BY <1>2, <1>5 DEF PcdUpdate, NoGhostTrack, LostMeansErased

\* What the cleanup saves is well formed, and of tracks it erases.
LEMMA ObituariesType ==
  ASSUME TypeOK
  PROVE  /\ Obituaries \subseteq LastEntry
         /\ \A e \in Obituaries : e.kf \in Expired
         /\ \A e, f \in Obituaries : e.kf = f.kf => e = f
<1> DEFINE Note(k) == [kf |-> k, id |-> -Identity(KFs[k].votes), age |-> 0]
<1>1. ASSUME NEW k \in Expired, Identified(KFs[k].votes)
      PROVE  Note(k) \in LastEntry
  <2>1. k \in DOMAIN KFs /\ KFs[k] \in Track /\ k \in Birth
    BY BoundAssumption DEF Expired, TypeOK, Birth
  <2>2. Identity(KFs[k].votes) \in CarIds
    BY <1>1, <2>1, IdentityWasVoted DEF Track
  <2> QED BY <2>1, <2>2, LongIsNat DEF LastEntry
<1>2. \A e \in Obituaries : \E k \in Expired : Identified(KFs[k].votes) /\ e = Note(k)
  BY DEF Obituaries
<1>3. \A k : Note(k).kf = k
  OBVIOUS
<1> HIDE DEF Note
<1> QED BY <1>1, <1>2, <1>3

\* The cleanup erases exactly the tracks it saves or may forget.
LEMMA FinishInv == ASSUME IInv, PcdFinish PROVE IInv'
<1> USE DEF IInv
<1>1. DOMAIN KFs' = DOMAIN KFs \ Expired /\ \A k \in DOMAIN KFs' : KFs'[k] = KFs[k]
  BY DEF PcdFinish
<1>2. lastKnown' \subseteq lastKnown \cup Obituaries
  BY DEF PcdFinish
<1>3. lastKnown' \subseteq LastEntry
  BY <1>2, ObituariesType DEF TypeOK
<1>4. sent'.by \in {"nobody", "pcdCb", "otherCb"}
  BY DEF PcdFinish, Publish, Message, Quiet
<1>5. TypeOK'
  BY <1>1, <1>3, <1>4 DEF TypeOK, PcdFinish
<1>6. LostMeansErased'
  <2>1. \A e \in lastKnown : e.kf \in 1..born /\ e.kf \notin DOMAIN KFs
    BY DEF LostMeansErased
  <2>2. \A e \in Obituaries : e.kf \in 1..born /\ e.kf \in Expired /\ e.kf \in DOMAIN KFs
    BY ObituariesType DEF TypeOK, Expired
  <2>3. \A e \in lastKnown' : e.kf \in 1..born \ DOMAIN KFs'
    BY <1>1, <1>2, <2>1, <2>2
  <2>4. \A e, f \in lastKnown' : e.kf = f.kf => e = f
    BY <1>2, <2>1, <2>2, ObituariesType DEF LostMeansErased
  <2> QED BY <2>3, <2>4 DEF LostMeansErased, PcdFinish
<1>7. NoGhostTrack'
  <2>1. ASSUME NEW k \in DOMAIN KFs' PROVE KFs'[k].idle <= DeleteTime
    <3>1. k \in DOMAIN KFs /\ k \notin Expired /\ KFs'[k] = KFs[k]
      BY <1>1
    <3>2. KFs[k].idle \in Nat
      BY <3>1, LongIsNat DEF TypeOK, Track
    <3> QED BY <3>1, <3>2, TimeAssumption DEF Expired
  <2> QED BY <2>1 DEF NoGhostTrack
<1> QED BY <1>5, <1>6, <1>7 DEF PcdFinish

LEMMA OtherInv == ASSUME IInv, OtherCb PROVE IInv'
<1>1. sent'.by \in {"nobody", "pcdCb", "otherCb"}
  BY DEF OtherCb, Publish, Message, Quiet
<1> QED BY <1>1 DEF IInv, OtherCb, TypeOK, NoGhostTrack, LostMeansErased

LEMMA NextInv == IInv /\ [Next]_vars => IInv'
<1> SUFFICES ASSUME IInv, [Next]_vars PROVE IInv'
  OBVIOUS
<1>1. CASE Tick
  BY <1>1, TickInv
<1>2. CASE \E p \in Place, v \in Labels : DetectCb(p, v)
  BY <1>2, DetectInv
<1>3. CASE PcdPredict
  BY <1>3, PredictInv
<1>4. CASE \E pt \in Place : PcdCreate(pt)
  BY <1>4, CreateInv
<1>5. CASE \E pt \in Place, k \in Birth : PcdUpdate(pt, k)
  BY <1>5, UpdateInv
<1>6. CASE PcdFinish
  BY <1>6, FinishInv
<1>7. CASE OtherCb
  BY <1>7, OtherInv
<1>8. CASE UNCHANGED vars
  BY <1>8 DEF IInv, vars, TypeOK, NoGhostTrack, LostMeansErased, Quiet
<1> QED BY <1>1, <1>2, <1>3, <1>4, <1>5, <1>6, <1>7, <1>8 DEF Next

\* The invariant the other theorems rest on.
THEOREM Invariance == Spec => []IInv
BY InitInv, NextInv, PTL DEF Spec

\* Type correctness: among others, last known ids are negated car ids and hit
\* counters stay in range, whatever the interleaving of the callbacks.
THEOREM TypeCorrect == Spec => []TypeOK
<1>1. IInv => TypeOK
  BY DEF IInv
<1> QED BY <1>1, Invariance, PTL

\* Between callbacks no track is older than delete_time, however long the votes
\* keep coming.
THEOREM NoGhosts == Spec => []NoGhostTrack
<1>1. IInv => NoGhostTrack
  BY DEF IInv
<1> QED BY <1>1, Invariance, PTL

\* Every lost position is of one erased track.
THEOREM LostAreErased == Spec => []LostMeansErased
<1>1. IInv => LostMeansErased
  BY DEF IInv
<1> QED BY <1>1, Invariance, PTL
-----------------------------------------------------------------------------
(* The location messages *)

\* The winner of best_per_cid is one of the tracks that claim the car.
LEMMA BestIsClaimant ==
  ASSUME NEW ks, NEW n \in Nat, DOMAIN ks \subseteq 1..n,
         \A k \in DOMAIN ks : ks[k] \in Track,
         NEW cid, Claimants(ks, cid) # {}
  PROVE  Best(ks, cid) \in Claimants(ks, cid)
<1> DEFINE S == Claimants(ks, cid)
           f == [k \in S |-> ks[k].hits]
<1>1. S \subseteq Nat /\ S \subseteq DOMAIN ks
  BY DEF Claimants
<1>2. MaxHits \in Nat
  BY BoundAssumption
<1>3. \A k \in S : ks[k].hits \in Nat /\ ks[k].hits <= MaxHits
  BY <1>1, <1>2 DEF Track
<1>4. f \in [S -> Nat] /\ \A k \in S : f[k] <= MaxHits
  BY <1>3
<1>5. \E k \in S : \A j \in S : f[k] > f[j] \/ (f[k] = f[j] /\ k <= j)
  <2> HIDE DEF S, f
  <2> QED BY <1>1, <1>2, <1>4, FirstOfTheLargest DEF S
<1>6. \E k \in S : \A j \in S :
        ks[k].hits > ks[j].hits \/ (ks[k].hits = ks[j].hits /\ k <= j)
  <2> HIDE DEF S
  <2> QED BY <1>5
<1> QED BY <1>6 DEF Best

\* The ids of a message built from typed tracks were voted.
LEMMA MessageWasVoted ==
  ASSUME NEW ks, NEW n \in Nat, DOMAIN ks \subseteq 1..n,
         \A k \in DOMAIN ks : ks[k] \in Track,
         NEW cid \in LiveIds(ks)
  PROVE  /\ Best(ks, cid) \in DOMAIN ks
         /\ \E i \in DOMAIN ks[Best(ks, cid)].votes :
              CarId(ks[Best(ks, cid)].votes[i]) = cid
<1> DEFINE b == Best(ks, cid)
<1>1. b \in Claimants(ks, cid)
  BY BestIsClaimant DEF LiveIds
<1>2. b \in DOMAIN ks /\ Identified(ks[b].votes) /\ Identity(ks[b].votes) = cid
  BY <1>1 DEF Claimants
<1>3. ks[b].votes \in Seq(Vote)
  BY <1>2 DEF Track
<1> HIDE DEF b
<1>4. \E i \in DOMAIN ks[b].votes : CarId(ks[b].votes[i]) = cid
  BY <1>2, <1>3, IdentityWasVoted
<1> QED BY <1>2, <1>4 DEF b

\* A step that publishes the tracks it leaves publishes voted ids only.
LEMMA PublishWasVoted ==
  ASSUME TypeOK', NEW by, NEW lk, Publish(by, KFs', lk)
  PROVE  PublishedIdWasVoted'
<1>1. CASE sent' = Quiet
  BY <1>1 DEF PublishedIdWasVoted, Quiet
<1>2. CASE sent' = Message(by, KFs', lk)
  <2>1. DOMAIN sent'.live = LiveIds(KFs')
    BY <1>2 DEF Message
  <2>2. \A cid \in LiveIds(KFs') : sent'.live[cid] = Best(KFs', cid)
    BY <1>2 DEF Message
  <2>3. born' \in Nat /\ DOMAIN KFs' \subseteq 1..born'
    BY BoundAssumption DEF TypeOK
  <2>4. \A k \in DOMAIN KFs' : KFs'[k] \in Track
    BY DEF TypeOK
  <2>5. ASSUME NEW cid \in LiveIds(KFs')
        PROVE  /\ Best(KFs', cid) \in DOMAIN KFs'
               /\ \E i \in DOMAIN KFs'[Best(KFs', cid)].votes :
                    CarId(KFs'[Best(KFs', cid)].votes[i]) = cid
    BY <2>3, <2>4, MessageWasVoted
  <2> QED BY <2>1, <2>2, <2>5 DEF PublishedIdWasVoted
<1> QED BY <1>1, <1>2 DEF Publish

\* The camera read every published car id: the pair elected by getColor and
\* getNumber is a vote of the track that wins best_per_cid.
THEOREM OnlyVotedIds == Spec => []PublishedIdWasVoted
<1>1. sent = Quiet => PublishedIdWasVoted
  BY DEF PublishedIdWasVoted, Quiet
<1>2. Init => PublishedIdWasVoted
  BY <1>1 DEF Init
<1>3. IInv /\ IInv' /\ PublishedIdWasVoted /\ [Next]_vars => PublishedIdWasVoted'
  <2> SUFFICES ASSUME IInv, IInv', PublishedIdWasVoted, [Next]_vars
               PROVE  PublishedIdWasVoted'
    OBVIOUS
  <2>1. sent' = Quiet => PublishedIdWasVoted'
    BY DEF PublishedIdWasVoted, Quiet
  <2>2. CASE Tick
    BY <2>1, <2>2 DEF Tick
  <2>3. CASE \E p \in Place, v \in Labels : DetectCb(p, v)
    BY <2>1, <2>3 DEF DetectCb
  <2>4. CASE PcdPredict
    BY <2>1, <2>4 DEF PcdPredict
  <2>5. CASE \E pt \in Place : PcdCreate(pt)
    BY <2>1, <2>5 DEF PcdCreate, IInv
  <2>6. CASE \E pt \in Place, k \in Birth : PcdUpdate(pt, k)
    BY <2>1, <2>6 DEF PcdUpdate, IInv
  <2>7. CASE PcdFinish
    BY <2>7, PublishWasVoted DEF PcdFinish, IInv
  <2>8. CASE OtherCb
    BY <2>8, PublishWasVoted DEF OtherCb, IInv
  <2>9. CASE UNCHANGED vars
    BY <2>9 DEF vars, PublishedIdWasVoted
  <2> QED BY <2>2, <2>3, <2>4, <2>5, <2>6, <2>7, <2>8, <2>9 DEF Next
<1> QED BY <1>2, <1>3, Invariance, PTL DEF Spec

\* The car of one erased track is in the message of the step that erases it.
ReportsLoss ==
  \A k \in DOMAIN KFs \ DOMAIN KFs' :
    Identified(KFs[k].votes) =>
      LET cid == Identity(KFs[k].votes)
      IN \/ cid \in DOMAIN sent'.live
         \/ \E e \in sent'.last : e.id = -cid

\* The cleanup saves what it erases, and Step 4 drops a saved position only for
\* a car it publishes live.
LEMMA FinishReportsLoss == ASSUME IInv, PcdFinish PROVE ReportsLoss
<1> DEFINE left == [k \in DOMAIN KFs \ Expired |-> KFs[k]]
           kept == {e \in lastKnown : e.age <= KeepTime} \cup Obituaries
<1>1. KFs' = left /\ Publish("pcdCb", left, kept)
  BY DEF PcdFinish
<1>2. ASSUME NEW k \in DOMAIN KFs \ DOMAIN KFs', Identified(KFs[k].votes)
      PROVE  \/ Identity(KFs[k].votes) \in DOMAIN sent'.live
             \/ \E e \in sent'.last : e.id = -Identity(KFs[k].votes)
  <2> DEFINE cid == Identity(KFs[k].votes)
             note == [kf |-> k, id |-> -cid, age |-> 0]
             m == Message("pcdCb", left, kept)
  <2>1. k \in Expired
    BY <1>1
  <2>2. note \in kept
    BY <1>2, <2>1 DEF Obituaries
  <2>3. KFs[k].votes \in Seq(Vote)
    BY DEF IInv, TypeOK, Track
  <2>4. cid \in Int
    BY <1>2, <2>3, IdentityWasVoted
  <2>5. note.id = -cid /\ -note.id = cid
    <3> HIDE DEF cid
    <3> QED BY <2>4
  <2>6. DOMAIN m.live = LiveIds(left) /\ m.last = {e \in kept : -e.id \notin LiveIds(left)}
    BY DEF Message
  <2> HIDE DEF left, kept, note, cid, m
  <2>7. CASE cid \in LiveIds(left)
    <3>1. sent' = m
      BY <1>1, <2>7 DEF Publish, m
    <3> QED BY <2>6, <2>7, <3>1 DEF cid
  <2>8. CASE cid \notin LiveIds(left)
    <3>1. note \in m.last
      BY <2>2, <2>5, <2>6, <2>8
    <3>2. sent' = m
      BY <1>1, <3>1 DEF Publish, m
    <3> QED BY <2>5, <3>1, <3>2 DEF cid
  <2> QED BY <2>7, <2>8
<1> HIDE DEF left, kept
<1> QED BY <1>2 DEF ReportsLoss

\* No identified track leaves the vector without a message that says so.
THEOREM LossIsReported == Spec => NoSilentLoss
<1>1. IInv /\ [Next]_vars => [ReportsLoss]_vars
  <2> SUFFICES ASSUME IInv, Next PROVE ReportsLoss
    OBVIOUS
  <2>1. CASE PcdFinish
    BY <2>1, FinishReportsLoss
  <2>2. CASE ~PcdFinish
    <3>1. DOMAIN KFs \subseteq DOMAIN KFs'
      BY <2>2 DEF Next, Tick, DetectCb, PcdPredict, PcdCreate, PcdUpdate, OtherCb
    <3> QED BY <3>1 DEF ReportsLoss
  <2> QED BY <2>1, <2>2
<1>2. [][ReportsLoss]_vars => NoSilentLoss
  BY PTL DEF NoSilentLoss, ReportsLoss
<1> QED BY <1>1, <1>2, Invariance, PTL DEF Spec
-----------------------------------------------------------------------------
(* How far one vote can move an identity.                                  *)

\* push_back adds at most one vote for a team.
LEMMA AppendCounts ==
  ASSUME NEW s \in Seq(Vote), NEW v \in Vote, NEW c \in Team
  PROVE  /\ ColorVotes(Append(s, v), c) >= ColorVotes(s, c)
         /\ ColorVotes(Append(s, v), c) <= ColorVotes(s, c) + 1
<1> DEFINE t == Append(s, v)
           I == {i \in DOMAIN s : s[i][1] = c}
           J == {i \in DOMAIN t : t[i][1] = c}
<1>1. PICK n \in Nat : n = Len(s)
  OBVIOUS
<1>2. /\ t \in Seq(Vote) /\ DOMAIN s = 1..n /\ DOMAIN t = 1..(n + 1)
      /\ \A i \in 1..n : t[i] = s[i]
  BY <1>1
<1>3. ColorVotes(s, c) = Cardinality(I) /\ ColorVotes(t, c) = Cardinality(J)
  BY DEF ColorVotes
<1>4. /\ \A i \in I : i \in J
      /\ \A i \in J : i \in I \/ i = n + 1
      /\ n + 1 \notin I
  BY <1>2
<1>5. I \subseteq DOMAIN s /\ J \subseteq DOMAIN t
  OBVIOUS
<1> HIDE DEF t, I, J
<1>6. IsFiniteSet(I) /\ IsFiniteSet(J) /\ Cardinality(I) \in Nat /\ Cardinality(J) \in Nat
  <2>1. PICK m : m = 1..(n + 1)
    OBVIOUS
  <2>2. IsFiniteSet(m)
    BY <2>1, FS_Interval
  <2>3. J \subseteq m
    BY <1>2, <1>5, <2>1
  <2>4. I \subseteq m
    BY <1>4, <2>3
  <2> QED
    BY <2>2, <2>3, <2>4, FS_Subset, FS_CardinalityType
<1>7. Cardinality(I) <= Cardinality(J)
  BY <1>4, <1>6, FS_Subset
<1>8. PICK x : x = n + 1
  OBVIOUS
<1>9. IsFiniteSet(I \cup {x}) /\ Cardinality(I \cup {x}) = Cardinality(I) + 1
  BY <1>4, <1>6, <1>8, FS_AddElement
<1>10. Cardinality(J) <= Cardinality(I \cup {x})
  <2>1. J \subseteq I \cup {x}
    BY <1>4, <1>8
  <2> QED
    BY <1>9, <2>1, FS_Subset
<1> QED
  BY <1>3, <1>6, <1>7, <1>9, <1>10 DEF t

\* pop_front takes at most one vote of a team away.
LEMMA TailCounts ==
  ASSUME NEW s \in Seq(Vote), s # <<>>, NEW c \in Team
  PROVE  /\ ColorVotes(Tail(s), c) <= ColorVotes(s, c)
         /\ ColorVotes(s, c) <= ColorVotes(Tail(s), c) + 1
<1> DEFINE t == Tail(s)
           I == {i \in DOMAIN s : s[i][1] = c}
           J == {i \in DOMAIN t : t[i][1] = c}
           K == {i + 1 : i \in J}
           f == [i \in J |-> i + 1]
<1>1. PICK n \in Nat : n + 1 = Len(s)
  <2>1. Len(s) \in Nat /\ Len(s) # 0
    OBVIOUS
  <2>2. Len(s) - 1 \in Nat /\ (Len(s) - 1) + 1 = Len(s)
    BY <2>1
  <2> QED
    BY <2>2
<1>2. /\ DOMAIN s = 1..(n + 1) /\ DOMAIN t = 1..n
      /\ \A i \in 1..n : t[i] = s[i + 1] /\ i + 1 \in 1..(n + 1)
  BY <1>1
<1>3. ColorVotes(s, c) = Cardinality(I) /\ ColorVotes(t, c) = Cardinality(J)
  BY DEF ColorVotes
<1>4. J \subseteq 1..n /\ I \subseteq 1..(n + 1)
  BY <1>2
<1>5. \A i \in J : f[i] = i + 1 /\ f[i] \in I
  BY <1>2
<1>6. \A i \in I : i = 1 \/ i \in K
  <2> SUFFICES ASSUME NEW i \in I, i # 1 PROVE i \in K
    OBVIOUS
  <2>1. i \in Nat /\ i - 1 \in 1..n /\ (i - 1) + 1 = i
    BY <1>4
  <2>2. t[i - 1] = s[i]
    BY <1>2, <2>1
  <2>3. i - 1 \in J
    BY <1>2, <2>1, <2>2
  <2> QED
    BY <2>1, <2>3
<1>7. \A i \in K : i \in I
  BY <1>5
<1>8. IsFiniteSet(I) /\ IsFiniteSet(J) /\ Cardinality(I) \in Nat /\ Cardinality(J) \in Nat
  <2> HIDE DEF I, J
  <2>1. PICK a, b : a = 1..n /\ b = 1..(n + 1)
    OBVIOUS
  <2>2. IsFiniteSet(a) /\ IsFiniteSet(b)
    BY <2>1, FS_Interval
  <2> QED
    BY <1>4, <2>1, <2>2, FS_Subset, FS_CardinalityType
<1>9. IsFiniteSet(K) /\ Cardinality(K) = Cardinality(J)
  <2>1. K = {f[i] : i \in J}
    OBVIOUS
  <2>2. \A i, j \in J : f[i] = f[j] => i = j
    <3> SUFFICES ASSUME NEW i \in J, NEW j \in J, f[i] = f[j] PROVE i = j
      OBVIOUS
    <3>1. i \in Nat /\ j \in Nat /\ i + 1 = j + 1
      BY <1>4, <1>5
    <3> QED
      BY <3>1
  <2>3. f \in [J -> K]
    OBVIOUS
  <2> HIDE DEF K, J, f
  <2>4. f \in Surjection(J, K)
    BY <2>1, <2>3 DEF Surjection
  <2>5. f \in Injection(J, K)
    BY <2>2, <2>3 DEF Injection, IsInjective
  <2> QED
    BY <1>8, <2>4, <2>5, FS_Surjection
<1> HIDE DEF t, I, J, K, f
<1>10. Cardinality(J) <= Cardinality(I)
  BY <1>7, <1>8, <1>9, FS_Subset
<1>11. Cardinality(I) <= Cardinality(J) + 1
  <2>1. IsFiniteSet(K \cup {1}) /\ Cardinality(K \cup {1}) <= Cardinality(J) + 1
    <3>0. PICK x, m : x = 1 /\ m = Cardinality(J) /\ m \in Nat /\ m <= m + 1
      BY <1>8
    <3>1. CASE 1 \in K
      <4>1. K \cup {1} = K
        BY <3>1
      <4> QED
        BY <1>8, <1>9, <3>0, <4>1
    <3>2. CASE 1 \notin K
      <4>1. IsFiniteSet(K \cup {x}) /\ Cardinality(K \cup {x}) = m + 1
        BY <1>9, <3>0, <3>2, FS_AddElement
      <4> QED
        BY <3>0, <4>1
    <3> QED
      BY <3>1, <3>2
  <2>2. I \subseteq K \cup {1}
    BY <1>6
  <2>3. Cardinality(I) <= Cardinality(K \cup {1}) /\ Cardinality(K \cup {1}) \in Nat
    BY <2>1, <2>2, FS_Subset, FS_CardinalityType
  <2> QED
    BY <1>8, <2>1, <2>3
<1> QED
  BY <1>3, <1>10, <1>11 DEF t

\* A lead of one vote elects the team.
LEMMA LeadElects ==
  ASSUME NEW s \in Seq(Vote), NEW c \in Team, Lead(s, c) >= 1
  PROVE  getColor(s) = c
<1>1. ColorVotes(s, Red) \in Nat /\ ColorVotes(s, Blue) \in Nat
  BY ColorVotesWitness DEF Team
<1>2. Red # Blue
  BY DEF Red, Blue
<1>3. s # <<>>
  <2> SUFFICES ASSUME s = <<>> PROVE FALSE
    OBVIOUS
  <2>1. ~(\E i \in DOMAIN s : s[i][1] = c)
    OBVIOUS
  <2>2. ~(ColorVotes(s, c) > 0)
    BY <2>1, ColorVotesWitness
  <2>3. CASE c = Red
    BY <1>1, <1>2, <2>2, <2>3 DEF Lead
  <2>4. CASE c = Blue
    BY <1>1, <1>2, <2>2, <2>4 DEF Lead
  <2> QED
    BY <2>3, <2>4 DEF Team
<1>4. CASE c = Red
  <2>1. ColorVotes(s, Red) > ColorVotes(s, Blue)
    BY <1>1, <1>4 DEF Lead
  <2> QED
    BY <1>1, <1>3, <1>4, <2>1 DEF getColor
<1>5. CASE c = Blue
  <2>1. ColorVotes(s, Blue) > ColorVotes(s, Red)
    BY <1>1, <1>2, <1>5 DEF Lead
  <2> QED
    BY <1>1, <1>3, <1>5, <2>1 DEF getColor
<1> QED
  BY <1>4, <1>5 DEF Team

\* A vote moves the lead by two at most: it adds one for the other team and
\* may push one of this team out of the window.
LEMMA PushKeepsLead ==
  ASSUME NEW s \in Seq(Vote), NEW v \in Vote, NEW c \in Team, Lead(s, c) >= 3
  PROVE  getColor(Push(s, v)) = c
<1> DEFINE d == IF c = Red THEN Blue ELSE Red
           t == Append(s, v)
<1>1. d \in Team
  BY DEF Team
<1>2. PICK a, b, a1, b1, a2, b2 :
        /\ a = ColorVotes(s, c) /\ b = ColorVotes(s, d)
        /\ a1 = ColorVotes(t, c) /\ b1 = ColorVotes(t, d)
        /\ a2 = ColorVotes(Push(s, v), c) /\ b2 = ColorVotes(Push(s, v), d)
  OBVIOUS
<1>3. t \in Seq(Vote) /\ t # <<>> /\ Push(s, v) \in Seq(Vote)
  <2>1. t \in Seq(Vote) /\ t # <<>>
    OBVIOUS
  <2> QED
    BY <2>1, PushType
<1>4. Push(s, v) = t \/ Push(s, v) = Tail(t)
  BY DEF Push
<1>5. /\ a \in Nat /\ b \in Nat /\ a1 \in Nat /\ b1 \in Nat /\ a2 \in Nat /\ b2 \in Nat
  BY <1>1, <1>2, <1>3, ColorVotesWitness
<1>6. a1 >= a /\ b1 <= b + 1
  BY <1>1, <1>2, AppendCounts
<1>7. a2 + 1 >= a1 /\ b2 <= b1
  <2>1. CASE Push(s, v) = t
    BY <1>2, <1>5, <2>1
  <2>2. CASE Push(s, v) = Tail(t)
    <3> HIDE DEF t
    <3> QED
      BY <1>1, <1>2, <1>3, <2>2, TailCounts
  <2> QED
    BY <1>4, <2>1, <2>2
<1>8. a - b >= 3
  BY <1>2 DEF Lead
<1>9. a2 - b2 >= 1
  BY <1>5, <1>6, <1>7, <1>8
<1>10. Lead(Push(s, v), c) >= 1
  BY <1>2, <1>9 DEF Lead
<1> QED
  BY <1>3, <1>10, LeadElects

\* One camera vote cannot flip a track that leads by three: NoSingleVoteFlip
\* for every window length, whatever else a step does to the tracks.
THEOREM OneVoteIsNotEnough == Spec => NoSingleVoteFlip
<1> DEFINE Settled == \A k \in DOMAIN KFs \cap DOMAIN KFs', c \in Team :
                        Lead(KFs[k].votes, c) >= 3 => getColor(KFs'[k].votes) = c
<1>1. IInv /\ [Next]_vars => [Settled]_vars
  <2> SUFFICES ASSUME IInv, Next,
                      NEW k \in DOMAIN KFs \cap DOMAIN KFs', NEW c \in Team,
                      Lead(KFs[k].votes, c) >= 3
               PROVE  getColor(KFs'[k].votes) = c
    OBVIOUS
  <2>1. KFs[k].votes \in Seq(Vote) /\ KFs[k] \in Track
    BY DEF IInv, TypeOK, Track
  <2>2. ASSUME KFs'[k].votes = KFs[k].votes PROVE getColor(KFs'[k].votes) = c
    <3>1. Lead(KFs[k].votes, c) >= 1
      <4>1. PICK x : x = Lead(KFs[k].votes, c)
        OBVIOUS
      <4>2. x \in Int
        <5>1. ColorVotes(KFs[k].votes, Red) \in Nat /\ ColorVotes(KFs[k].votes, Blue) \in Nat
          BY <2>1, ColorVotesWitness DEF Team
        <5> QED
          BY <4>1, <5>1 DEF Lead, Team
      <4> QED
        BY <4>1, <4>2
    <3> QED
      BY <2>1, <2>2, <3>1, LeadElects
  <2>3. ASSUME NEW p \in Place, NEW v \in Labels, DetectCb(p, v)
        PROVE  getColor(KFs'[k].votes) = c
    <3>1. CASE CameraMatches(KFs[k], p)
      <4>1. KFs'[k] = [KFs[k] EXCEPT !.votes = Push(KFs[k].votes, v)]
        BY <2>3, <3>1 DEF DetectCb
      <4>2. KFs'[k].votes = Push(KFs[k].votes, v)
        BY <2>1, <4>1 DEF Track
      <4>3. v \in Vote
        BY LabelsAssumption
      <4> QED
        BY <2>1, <4>2, <4>3, PushKeepsLead
    <3>2. CASE ~CameraMatches(KFs[k], p)
      BY <2>2, <2>3, <3>2 DEF DetectCb
    <3> QED
      BY <3>1, <3>2
  <2>4. CASE PcdPredict
    <3>1. PICK p : KFs' = [h \in DOMAIN KFs |-> Predicted(KFs[h], p[h])]
      BY <2>4 DEF PcdPredict
    <3>2. KFs'[k].votes = KFs[k].votes
      BY <2>1, <3>1 DEF Predicted, Track
    <3> QED
      BY <2>2, <3>2
  <2>5. ASSUME NEW pt \in Place, PcdCreate(pt) PROVE getColor(KFs'[k].votes) = c
    <3>1. k # born + 1
      BY DEF IInv, TypeOK
    <3>2. KFs'[k] = KFs[k]
      BY <2>5, <3>1 DEF PcdCreate
    <3> QED
      BY <2>2, <3>2
  <2>6. ASSUME NEW pt \in Place, NEW h \in Birth, PcdUpdate(pt, h)
        PROVE  getColor(KFs'[k].votes) = c
    <3>1. PICK p : KFs' = [KFs EXCEPT ![h] = Corrected(KFs[h], pt, p)]
      BY <2>6 DEF PcdUpdate
    <3>2. KFs'[k].votes = KFs[k].votes
      BY <3>1 DEF Corrected
    <3> QED
      BY <2>2, <3>2
  <2>7. CASE PcdFinish
    <3>1. KFs'[k] = KFs[k]
      BY <2>7 DEF PcdFinish
    <3> QED
      BY <2>2, <3>1
  <2>8. CASE Tick \/ OtherCb
    BY <2>2, <2>8 DEF Tick, OtherCb
  <2> QED
    BY <2>3, <2>4, <2>5, <2>6, <2>7, <2>8 DEF Next
<1>2. [][Settled]_vars => NoSingleVoteFlip
  BY PTL DEF NoSingleVoteFlip
<1> QED
  BY <1>1, <1>2, Invariance, PTL DEF Spec
=============================================================================
