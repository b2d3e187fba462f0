------------------------------ MODULE Location ------------------------------
(***************************************************************************)
(* The topic location, what the radar tells the rest of the system, and    *)
(* the reading of an id that its subscribers share.  A message is a        *)
(* sequence of ids: below 100 red, from 101 blue, a drone is 6 or 106, the *)
(* own sentry is number 7, and a negative id names the last known place of *)
(* a robot that is lost.  Positions are named by their message.            *)
(***************************************************************************)
EXTENDS Integers, Sequences

CONSTANTS
  MyColor,      \* my_color_, "Red" or "Blue"
  Messages,     \* the messages of the radar; it publishes no empty one
  MaxLocations  \* messages in one run (a bound)

ASSUME LocationAssumption ==
  /\ MyColor \in {"Red", "Blue"}
  /\ Messages \subseteq Seq(Int) \ {<< >>}
  /\ MaxLocations \in Nat

VARIABLE location  \* the messages published

Number == 1..Len(location)

Enemy(id) == IF MyColor = "Red" THEN id >= 100 ELSE 0 < id /\ id < 100

OwnSentry == IF MyColor = "Red" THEN 7 ELSE 107

Names(n, id) == \E i \in DOMAIN location[n] : location[n][i] = id

PublishLocation ==
  /\ Len(location) < MaxLocations
  /\ \E m \in Messages : location' = Append(location, m)
=============================================================================
