------------------------------- MODULE Votes -------------------------------
(***************************************************************************)
(* The identity of a radar track.  Every KalmanFilterPlus of radar.cpp     *)
(* keeps detect_history, a window of the last camera votes (color, number) *)
(* it received; getColor and getNumber turn the window into a team and an  *)
(* index into labels_, and labelToCarId turns those into the car id that   *)
(* is published.  Pure operators: no state lives here.                     *)
(***************************************************************************)
EXTENDS Integers, Sequences, FiniteSets

CONSTANTS
  Number,    \* the indices of labels_ (params.labels of detector_config.yaml)
  CarNo,     \* labels_[n] as labelToCarId reads it: "1".."4" |-> 1..4, "S" |-> 7
  VoteCap    \* MAX_HISTORY, the length of detect_history

ASSUME NumberAssumption == Number \subseteq Nat /\ IsFiniteSet(Number)
ASSUME CarNoAssumption  == CarNo \in [Number -> 1..7]
ASSUME VoteCapAssumption == VoteCap \in Nat \ {0}

Blue    == 0
Unknown == 1
Red     == 2
Team    == {Blue, Red}

\* A pair parseLabel lets through: team known, label found in labels_.
Vote == Team \X Number

ColorVotes(s, c)     == Cardinality({i \in DOMAIN s : s[i][1] = c})
NumberVotes(s, c, n) == Cardinality({i \in DOMAIN s : s[i] = <<c, n>>})

\* push_back, then pop_front when the window overflows.
Push(s, v) ==
  LET t == Append(s, v) IN IF Len(t) > VoteCap THEN Tail(t) ELSE t

\* The last vote alone decides.
getColorLast(s) ==
  IF s = <<>> THEN Unknown ELSE s[Len(s)][1]

\* A majority of the team's votes; on a tie the last vote decides.
getColor(s) ==
  LET red  == ColorVotes(s, Red)
      blue == ColorVotes(s, Blue)
  IN CASE s = <<>>                -> Unknown
       [] s # <<>> /\ red > blue  -> Red
       [] s # <<>> /\ blue > red  -> Blue
       [] s # <<>> /\ red = blue  -> IF s[Len(s)][1] = Red THEN Red ELSE Blue

\* The numbers num_map has an entry for.
Candidates(s) == {n \in Number : NumberVotes(s, getColor(s), n) > 0}

\* The most voted number of any team, not of the winning one.
getNumberAnyTeam(s) ==
  LET count(n) == NumberVotes(s, Red, n) + NumberVotes(s, Blue, n)
      cand     == {n \in Number : count(n) > 0}
  IN IF cand = {} THEN 0
     ELSE CHOOSE n \in cand :
            \A m \in cand : count(n) > count(m) \/ (count(n) = count(m) /\ n <= m)

\* std::map iterates in ascending order and only a larger count replaces the
\* best so far: the most voted number of the winning team, the smallest on a tie.
getNumber(s) ==
  LET count(n) == NumberVotes(s, getColor(s), n)
  IN IF Candidates(s) = {} THEN 0
     ELSE CHOOSE n \in Candidates(s) :
            \A m \in Candidates(s) :
              count(n) > count(m) \/ (count(n) = count(m) /\ n <= m)

\* labelToCarId of "R" or "B" followed by labels_[number]: red 1..7, blue 101..107.
CarId(v) == CarNo[v[2]] + (IF v[1] = Blue THEN 100 ELSE 0)

CarIds == {CarId(v) : v \in Vote}

\* What a track with this window is published as.
Identity(s) == CarId(<<getColor(s), getNumber(s)>>)

Identified(s) == s # <<>>
=============================================================================
