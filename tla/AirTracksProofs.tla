-------------------------- MODULE AirTracksProofs --------------------------
(***************************************************************************)
(* Proofs about AirTracks, for any field, any limits and any number of     *)
(* drones and memory blocks: the types, that no drone outlives its time,   *)
(* and how far the hysteresis keyed by addresses goes.                     *)
(***************************************************************************)
EXTENDS AirTracks, FiniteSetTheorems, SequenceTheorems, TLAPS

\* There are at most as many tracks as were created.
FewTracks == Len(KFs_air) <= born

\* Only a track that was created was published.
ShownIsBorn == \A k \in DOMAIN shown : k \in Int /\ k <= born

\* A track never comes back to a place behind its own, and while it is in the
\* place it was published from, the cache has the side it was published with.
Remembers(ks, c, sh) ==
  \A i \in DOMAIN ks :
    ks[i].id \in DOMAIN sh =>
      /\ sh[ks[i].id].slot[2] >= i
      /\ sh[ks[i].id].slot[2] = i =>
           /\ sh[ks[i].id].slot \in DOMAIN c
           /\ c[sh[ks[i].id].slot] = sh[ks[i].id].side

CacheRemembers == Remembers(KFs_air, cache, shown)

\* The vector: tracks in the order of their births, no more than were created.
IsVector(ks, n) ==
  /\ ks \in Seq(Track)
  /\ \A i, j \in DOMAIN ks : i < j => ks[i].id < ks[j].id
  /\ \A i \in DOMAIN ks : ks[i].id <= n
  /\ Len(ks) <= n

IsCache(c) == DOMAIN c \subseteq Slot /\ \A s \in DOMAIN c : c[s] \in Side

\* What the loop that erases has passed is not expired.
CleanBehind == phase = "erasing" => \A i \in DOMAIN KFs_air : i > at => ~Expired(i)

AirInv ==
  /\ TypeOK /\ FewTracks /\ ShownIsBorn /\ CacheRemembers
  /\ NoGhostDrone /\ CleanBehind

\* The types but those of the vector and the cache.
OtherTypes ==
  /\ born \in 0..MaxBirths
  /\ block \in Block
  /\ capacity \in Nat /\ Len(KFs_air) <= capacity
  /\ gap \in 0..Long
  /\ phase \in {"out", "predicted", "matched", "erasing"}
  /\ at \in 0..Len(KFs_air)
  /\ \A k \in DOMAIN shown : shown[k] \in [side : Side, slot : Slot]
-----------------------------------------------------------------------------
(* Erasing                                                                 *)

\* What is left keeps its order, and what was behind moves up.
LEMMA RemoveFacts ==
  ASSUME NEW S, NEW ks \in Seq(S), NEW i \in DOMAIN ks
  PROVE  /\ RemoveAt(ks, i) \in Seq(S)
         /\ Len(RemoveAt(ks, i)) = Len(ks) - 1
         /\ \A m \in 1..(Len(ks) - 1) : RemoveAt(ks, i)[m] = IF m < i THEN ks[m] ELSE ks[m + 1]
<1>1. PICK n \in Nat : n = Len(ks) /\ DOMAIN ks = 1..n
  OBVIOUS
<1>2. i \in 1..n
  BY <1>1
<1>3. PICK front, back : front = SubSeq(ks, 1, i - 1) /\ back = SubSeq(ks, i + 1, n)
  OBVIOUS
<1>4. /\ front \in Seq(S) /\ Len(front) = i - 1
      /\ \A m \in 1..(i - 1) : front[m] = ks[m]
  BY <1>1, <1>2, <1>3, SubSeqProperties
<1>5. /\ back \in Seq(S) /\ Len(back) = n - i
      /\ \A m \in 1..(n - i) : back[m] = ks[i + m]
  <2>1. back \in Seq(S) /\ Len(back) = n - i
    BY <1>1, <1>2, <1>3, SubSeqProperties
  <2>2. ASSUME NEW m \in 1..(n - i) PROVE back[m] = ks[i + m]
    <3>1. back[m] = ks[(i + 1) + m - 1]
      BY <1>1, <1>2, <1>3, SubSeqProperties
    <3>2. (i + 1) + m - 1 = i + m
      BY <1>2
    <3> QED
      BY <3>1, <3>2
  <2> QED
    BY <2>1, <2>2
<1>6. RemoveAt(ks, i) = front \o back
  BY <1>1, <1>3 DEF RemoveAt
<1>7. /\ front \o back \in Seq(S) /\ Len(front \o back) = n - 1
      /\ \A m \in 1..(n - 1) : (front \o back)[m] = IF m < i THEN front[m] ELSE back[m - (i - 1)]
  <2>1. /\ front \o back \in Seq(S) /\ Len(front \o back) = Len(front) + Len(back)
        /\ \A m \in 1..(Len(front) + Len(back)) :
             (front \o back)[m] = IF m <= Len(front) THEN front[m] ELSE back[m - Len(front)]
    BY <1>4, <1>5, ConcatProperties
  <2>2. Len(front) + Len(back) = n - 1 /\ Len(front) = i - 1
    <3>1. i \in Int /\ (i - 1) + (n - i) = n - 1
      BY <1>2
    <3> QED
      BY <1>4, <1>5, <3>1
  <2>3. \A m \in 1..(n - 1) : m <= i - 1 <=> m < i
    BY <1>2
  <2> QED
    BY <2>1, <2>2, <2>3
<1>8. ASSUME NEW m \in 1..(n - 1)
      PROVE  (front \o back)[m] = IF m < i THEN ks[m] ELSE ks[m + 1]
  <2>1. CASE m < i
    BY <1>2, <1>4, <1>7, <2>1
  <2>2. CASE ~(m < i)
    <3>1. m - (i - 1) \in 1..(n - i) /\ i + (m - (i - 1)) = m + 1
      BY <1>1, <1>2, <2>2
    <3>2. back[m - (i - 1)] = ks[i + (m - (i - 1))]
      BY <1>5, <3>1
    <3> QED
      BY <1>7, <2>2, <3>1, <3>2
  <2> QED
    BY <2>1, <2>2
<1> QED
  BY <1>1, <1>6, <1>7, <1>8
-----------------------------------------------------------------------------
(* Publishing                                                              *)

\* A side is chosen for every estimate, and in the dead zone the cache rules.
LEMMA Sides ==
  ASSUME NEW c, IsCache(c), NEW slot, NEW x \in Place
  PROVE  /\ SideOf(c, slot, x) \in Side
         /\ x \in DeadZone /\ slot \in DOMAIN c => SideOf(c, slot, x) = c[slot]
<1>1. x \in Int /\ RedBelow \in Int /\ Middle \in Int /\ BlueAbove \in Int
      /\ RedBelow <= Middle /\ Middle <= BlueAbove
  BY FieldAssumption, SideAssumption
<1>2. CASE x < RedBelow
  <2>1. x \notin DeadZone
    BY <1>1, <1>2 DEF DeadZone
  <2>2. ~(x > BlueAbove) /\ x \notin RedBelow..BlueAbove
    BY <1>1, <1>2
  <2> QED
    BY <1>2, <2>1, <2>2 DEF SideOf, Side
<1>3. CASE x > BlueAbove
  <2>1. x \notin DeadZone
    BY <1>1, <1>3 DEF DeadZone
  <2>2. ~(x < RedBelow) /\ x \notin RedBelow..BlueAbove
    BY <1>1, <1>3
  <2> QED
    BY <1>3, <2>1, <2>2 DEF SideOf, Side
<1>4. CASE ~(x < RedBelow) /\ ~(x > BlueAbove)
  <2>1. x \in RedBelow..BlueAbove
    BY <1>1, <1>4
  <2>2. SideOf(c, slot, x) = IF slot \in DOMAIN c THEN c[slot]
                             ELSE IF x < Middle THEN "Red" ELSE "Blue"
    BY <1>4, <2>1 DEF SideOf
  <2> QED
    BY <2>2 DEF IsCache, Side
<1> QED
  BY <1>2, <1>3, <1>4

\* What appendAirLocations does to the cache and to what was shown.
LEMMA Appended ==
  ASSUME NEW n \in Nat, NEW ks, IsVector(ks, n), NEW b, NEW c, NEW sh,
         NEW c2, c2 = CacheAfter(ks, b, c), NEW sh2, sh2 = ShownAfter(ks, b, c, sh)
  PROVE  /\ \A s : s \in DOMAIN c2 <=>
                (s \in DOMAIN c \/ \E i \in Published(ks) : s = SlotOf(b, i))
         /\ \A i \in Published(ks) :
              c2[SlotOf(b, i)] = SideOf(c, SlotOf(b, i), ks[i].pos)
         /\ \A s \in DOMAIN c :
              (\A i \in Published(ks) : s # SlotOf(b, i)) => c2[s] = c[s]
         /\ \A k \in DOMAIN sh2 : \E i \in DOMAIN ks : k = ks[i].id
         /\ \A i \in Published(ks) :
              /\ ks[i].id \in DOMAIN sh2
              /\ sh2[ks[i].id] = [side |-> SideOf(c, SlotOf(b, i), ks[i].pos),
                                  slot |-> SlotOf(b, i)]
         /\ \A i \in DOMAIN ks \ Published(ks) :
              ks[i].id \in DOMAIN sh2 =>
                ks[i].id \in DOMAIN sh /\ sh2[ks[i].id] = sh[ks[i].id]
<1> DEFINE side(i) == SideOf(c, SlotOf(b, i), ks[i].pos)
           written == {SlotOf(b, i) : i \in Published(ks)}
           there   == {ks[i].id : i \in DOMAIN ks}
           index   == [id \in there |-> CHOOSE i \in DOMAIN ks : ks[i].id = id]
           told    == {ks[i].id : i \in Published(ks)}
<1>1. \A i \in Published(ks) : i \in DOMAIN ks
  BY DEF Published
<1>2. \A i \in DOMAIN ks : i \in Int /\ ks[i].id \in Int
  <2>1. ks \in Seq(Track)
    BY DEF IsVector
  <2>2. ASSUME NEW i \in DOMAIN ks PROVE i \in Int /\ ks[i].id \in Int
    <3>1. i \in 1..Len(ks) /\ Len(ks) \in Nat
      BY <2>1
    <3>2. ks[i] \in Track
      BY <2>1
    <3> QED
      BY <3>1, <3>2 DEF Track, Birth
  <2> QED
    BY <2>2
<1>3. \A i, j \in DOMAIN ks : ks[i].id = ks[j].id => i = j
  <2> SUFFICES ASSUME NEW i \in DOMAIN ks, NEW j \in DOMAIN ks, ks[i].id = ks[j].id
               PROVE  i = j
    OBVIOUS
  <2>1. ~(i < j) /\ ~(j < i)
    BY <1>2 DEF IsVector
  <2> QED
    BY <1>2, <2>1
<1>4. \A i \in DOMAIN ks : ks[i].id \in there /\ index[ks[i].id] = i
  <2> SUFFICES ASSUME NEW i \in DOMAIN ks PROVE index[ks[i].id] = i
    OBVIOUS
  <2>1. index[ks[i].id] = CHOOSE j \in DOMAIN ks : ks[j].id = ks[i].id
    OBVIOUS
  <2>2. index[ks[i].id] \in DOMAIN ks /\ ks[index[ks[i].id]].id = ks[i].id
    BY <2>1
  <2> QED
    BY <1>3, <2>2
<1>5. c2 = [s \in DOMAIN c \cup written |->
              IF s \in written THEN SideOf(c, s, ks[s[2]].pos) ELSE c[s]]
  BY DEF CacheAfter
<1>6. sh2 = [id \in told \cup (there \cap DOMAIN sh) |->
                  IF index[id] \in Published(ks)
                  THEN [side |-> side(index[id]), slot |-> SlotOf(b, index[id])]
                  ELSE sh[id]]
  BY DEF ShownAfter
<1>7. \A s : s \in DOMAIN c2 <=>
          (s \in DOMAIN c \/ \E i \in Published(ks) : s = SlotOf(b, i))
  BY <1>5
<1>8. ASSUME NEW i \in Published(ks)
      PROVE  c2[SlotOf(b, i)] = SideOf(c, SlotOf(b, i), ks[i].pos)
  <2>1. SlotOf(b, i) \in written /\ SlotOf(b, i)[2] = i
    BY DEF SlotOf
  <2> HIDE DEF written
  <2> QED
    BY <1>5, <2>1
<1>9. ASSUME NEW s \in DOMAIN c, \A i \in Published(ks) : s # SlotOf(b, i)
      PROVE  c2[s] = c[s]
  <2>1. s \notin written
    BY <1>9
  <2> HIDE DEF written, side
  <2> QED
    BY <1>5, <2>1
<1>10. DOMAIN sh2 = told \cup (there \cap DOMAIN sh)
  <2> HIDE DEF told, there, index, side
  <2> QED
    BY <1>6
<1>11. \A k \in DOMAIN sh2 : \E i \in DOMAIN ks : k = ks[i].id
  BY <1>1, <1>10
<1>12. ASSUME NEW i \in Published(ks)
       PROVE  /\ ks[i].id \in DOMAIN sh2
              /\ sh2[ks[i].id] = [side |-> side(i), slot |-> SlotOf(b, i)]
  <2>1. ks[i].id \in told /\ index[ks[i].id] = i
    BY <1>1, <1>4
  <2> HIDE DEF told, there, index, side
  <2> QED
    BY <1>6, <2>1
<1>13. ASSUME NEW i \in DOMAIN ks, i \notin Published(ks), ks[i].id \in DOMAIN sh2
       PROVE  ks[i].id \in DOMAIN sh /\ sh2[ks[i].id] = sh[ks[i].id]
  <2>1. index[ks[i].id] = i
    BY <1>4
  <2>2. ks[i].id \notin told
    BY <1>1, <1>3, <1>13
  <2> HIDE DEF told, there, index, side
  <2> QED
    BY <1>6, <1>10, <1>13, <2>1, <2>2
<1> QED
  BY <1>1, <1>7, <1>8, <1>9, <1>11, <1>12, <1>13

\* Publishing keeps the types and what the cache remembers, and a drone shown
\* from the same slot inside the dead zone keeps its side.
LEMMA AppendKeeps ==
  ASSUME NEW n \in 0..MaxBirths, NEW ks, IsVector(ks, n), NEW b \in Block,
         NEW c, IsCache(c), NEW sh,
         \A k \in DOMAIN sh : sh[k] \in [side : Side, slot : Slot],
         \A k \in DOMAIN sh : k \in Int /\ k <= n,
         Remembers(ks, c, sh),
         NEW c2, c2 = CacheAfter(ks, b, c), NEW sh2, sh2 = ShownAfter(ks, b, c, sh)
  PROVE  /\ IsCache(c2)
         /\ \A k \in DOMAIN sh2 : sh2[k] \in [side : Side, slot : Slot]
         /\ \A k \in DOMAIN sh2 : k \in Int /\ k <= n
         /\ Remembers(ks, c2, sh2)
         /\ \A i \in DOMAIN ks :
              /\ ks[i].id \in DOMAIN sh /\ ks[i].id \in DOMAIN sh2
              /\ sh2[ks[i].id].slot = sh[ks[i].id].slot
              /\ ks[i].pos \in DeadZone
              => sh2[ks[i].id].side = sh[ks[i].id].side
<1>1. n \in Nat /\ MaxBirths \in Nat /\ n <= MaxBirths
  BY LimitAssumption
<1>2. ASSUME NEW i \in DOMAIN ks
      PROVE  /\ i \in 1..n /\ ks[i].pos \in Place /\ ks[i].id \in Int /\ ks[i].id <= n
             /\ SlotOf(b, i) \in Slot /\ SlotOf(b, i)[2] = i
  <2>1. ks \in Seq(Track) /\ Len(ks) \in Nat /\ Len(ks) <= n /\ ks[i].id <= n
    BY DEF IsVector
  <2>2. i \in 1..Len(ks)
    BY <2>1
  <2>3. i \in 1..n
    BY <1>1, <2>1, <2>2
  <2>4. ks[i] \in Track
    BY <2>1
  <2>5. ks[i].pos \in Place /\ ks[i].id \in Int
    BY <2>4 DEF Track, Birth
  <2>6. i \in 1..(2 * MaxBirths)
    BY <1>1, <2>3
  <2> QED
    BY <2>1, <2>3, <2>5, <2>6 DEF SlotOf, Slot
<1>3. \A i \in Published(ks) : i \in DOMAIN ks
  BY DEF Published
<1>4. \A i \in DOMAIN ks : SideOf(c, SlotOf(b, i), ks[i].pos) \in Side
  BY <1>2, Sides
<1>5. /\ \A s : s \in DOMAIN c2 <=>
             (s \in DOMAIN c \/ \E i \in Published(ks) : s = SlotOf(b, i))
      /\ \A i \in Published(ks) :
           c2[SlotOf(b, i)] = SideOf(c, SlotOf(b, i), ks[i].pos)
      /\ \A s \in DOMAIN c :
           (\A i \in Published(ks) : s # SlotOf(b, i)) => c2[s] = c[s]
      /\ \A k \in DOMAIN sh2 : \E i \in DOMAIN ks : k = ks[i].id
  <2>1. \A s : s \in DOMAIN c2 <=>
            (s \in DOMAIN c \/ \E i \in Published(ks) : s = SlotOf(b, i))
    BY <1>1, Appended
  <2>2. \A i \in Published(ks) :
           c2[SlotOf(b, i)] = SideOf(c, SlotOf(b, i), ks[i].pos)
    BY <1>1, Appended
  <2>3. \A s \in DOMAIN c :
           (\A i \in Published(ks) : s # SlotOf(b, i)) => c2[s] = c[s]
    BY <1>1, Appended
  <2>4. \A k \in DOMAIN sh2 : \E i \in DOMAIN ks : k = ks[i].id
    BY <1>1, Appended
  <2> QED
    BY <2>1, <2>2, <2>3, <2>4
<1>6. ASSUME NEW i \in Published(ks)
      PROVE  /\ ks[i].id \in DOMAIN sh2
             /\ sh2[ks[i].id].side = SideOf(c, SlotOf(b, i), ks[i].pos)
             /\ sh2[ks[i].id].slot = SlotOf(b, i)
             /\ sh2[ks[i].id] = [side |-> SideOf(c, SlotOf(b, i), ks[i].pos),
                                    slot |-> SlotOf(b, i)]
  <2>1. i \in DOMAIN ks
    BY <1>3
  <2>2. ks[i].id \in DOMAIN sh2
    BY <1>1, <2>1, Appended
  <2>3. sh2[ks[i].id] = [side |-> SideOf(c, SlotOf(b, i), ks[i].pos), slot |-> SlotOf(b, i)]
    BY <1>1, <2>1, Appended
  <2> QED
    BY <2>2, <2>3
<1>7. ASSUME NEW i \in DOMAIN ks, i \notin Published(ks), ks[i].id \in DOMAIN sh2
      PROVE  ks[i].id \in DOMAIN sh /\ sh2[ks[i].id] = sh[ks[i].id]
  <2>1. \A h \in DOMAIN ks \ Published(ks) :
          ks[h].id \in DOMAIN sh2 =>
            ks[h].id \in DOMAIN sh /\ sh2[ks[h].id] = sh[ks[h].id]
    BY <1>1, Appended
  <2> QED
    BY <1>7, <2>1
<1>8. IsCache(c2)
  <2>1. ASSUME NEW s \in DOMAIN c2 PROVE s \in Slot /\ c2[s] \in Side
    <3>1. CASE \E i \in Published(ks) : s = SlotOf(b, i)
      BY <1>2, <1>3, <1>4, <1>5, <3>1
    <3>2. CASE \A i \in Published(ks) : s # SlotOf(b, i)
      <4>1. s \in DOMAIN c /\ c2[s] = c[s]
        BY <1>5, <3>2
      <4> QED
        BY <4>1 DEF IsCache
    <3> QED
      BY <3>1, <3>2
  <2> QED
    BY <2>1 DEF IsCache
<1>9. ASSUME NEW k \in DOMAIN sh2
      PROVE  sh2[k] \in [side : Side, slot : Slot] /\ k \in Int /\ k <= n
  <2>1. PICK i \in DOMAIN ks : k = ks[i].id
    BY <1>5
  <2>2. CASE i \in Published(ks)
    <3>1. SideOf(c, SlotOf(b, i), ks[i].pos) \in Side /\ SlotOf(b, i) \in Slot
      BY <1>2, <1>4
    <3>2. sh2[k] = [side |-> SideOf(c, SlotOf(b, i), ks[i].pos), slot |-> SlotOf(b, i)]
      BY <1>6, <2>1, <2>2
    <3> QED
      BY <1>2, <2>1, <3>1, <3>2
  <2>3. CASE i \notin Published(ks)
    BY <1>2, <1>7, <2>1, <2>3
  <2> QED
    BY <2>2, <2>3
<1>10. Remembers(ks, c2, sh2)
  <2> SUFFICES ASSUME NEW i \in DOMAIN ks, ks[i].id \in DOMAIN sh2
               PROVE  /\ sh2[ks[i].id].slot[2] >= i
                      /\ sh2[ks[i].id].slot[2] = i =>
                           /\ sh2[ks[i].id].slot \in DOMAIN c2
                           /\ c2[sh2[ks[i].id].slot] = sh2[ks[i].id].side
    BY DEF Remembers
  <2>1. CASE i \in Published(ks)
    <3>1. /\ sh2[ks[i].id].slot = SlotOf(b, i)
          /\ sh2[ks[i].id].side = c2[SlotOf(b, i)]
      BY <1>5, <1>6, <2>1
    <3>2. SlotOf(b, i) \in DOMAIN c2
      BY <1>5, <2>1, Zenon
    <3>3. SlotOf(b, i)[2] = i /\ i \in Int
      BY <1>2
    <3> QED
      BY <3>1, <3>2, <3>3
  <2>2. CASE i \notin Published(ks)
    <3>1. ks[i].id \in DOMAIN sh /\ sh2[ks[i].id] = sh[ks[i].id]
      BY <1>7, <2>2
    <3>2. PICK was : was = sh[ks[i].id]
      OBVIOUS
    <3>3. was.slot[2] >= i
      BY <3>1, <3>2 DEF Remembers
    <3>4. ASSUME was.slot[2] = i
          PROVE  was.slot \in DOMAIN c2 /\ c2[was.slot] = was.side
      <4>1. was.slot \in DOMAIN c /\ c[was.slot] = was.side
        BY <3>1, <3>2, <3>4 DEF Remembers
      <4>2. \A j \in Published(ks) : was.slot # SlotOf(b, j)
        BY <1>2, <1>3, <2>2, <3>4
      <4> QED
        BY <1>5, <4>1, <4>2
    <3> QED
      BY <3>1, <3>2, <3>3, <3>4
  <2> QED
    BY <2>1, <2>2
<1>11. ASSUME NEW i \in DOMAIN ks,
              ks[i].id \in DOMAIN sh, ks[i].id \in DOMAIN sh2,
              sh2[ks[i].id].slot = sh[ks[i].id].slot,
              ks[i].pos \in DeadZone
       PROVE  sh2[ks[i].id].side = sh[ks[i].id].side
  <2>1. CASE i \notin Published(ks)
    BY <1>7, <1>11, <2>1
  <2>2. CASE i \in Published(ks)
    <3>1. sh[ks[i].id].slot = SlotOf(b, i) /\ SlotOf(b, i)[2] = i
      BY <1>2, <1>6, <1>11, <2>2
    <3>2. SlotOf(b, i) \in DOMAIN c /\ c[SlotOf(b, i)] = sh[ks[i].id].side
      BY <1>11, <3>1 DEF Remembers
    <3>3. SideOf(c, SlotOf(b, i), ks[i].pos) = c[SlotOf(b, i)]
      BY <1>2, <1>11, <3>2, Sides
    <3> QED
      BY <1>6, <2>2, <3>2, <3>3
  <2> QED
    BY <2>1, <2>2
<1> QED
  BY <1>8, <1>9, <1>10, <1>11
-----------------------------------------------------------------------------
(* The invariant                                                           *)

LEMMA AirParts ==
  AirInv <=> /\ IsVector(KFs_air, born) /\ IsCache(cache) /\ OtherTypes
             /\ NoGhostDrone /\ CleanBehind /\ ShownIsBorn /\ CacheRemembers
BY DEF AirInv, TypeOK, FewTracks, IsVector, IsCache, OtherTypes

LEMMA AirInit == Init => AirInv
<1> SUFFICES ASSUME Init PROVE AirInv
  OBVIOUS
<1>1. KFs_air = <<>> /\ born = 0 /\ at = 0 /\ capacity = 0 /\ DOMAIN cache = {} /\ DOMAIN shown = {}
  BY DEF Init
<1>2. IsVector(KFs_air, born)
  BY <1>1 DEF IsVector
<1>3. OtherTypes
  <2>1. 0 \in 0..MaxBirths /\ 0 \in 0..Long
    BY LimitAssumption DEF Long
  <2> QED
    BY <1>1, <2>1 DEF Init, OtherTypes
<1>4. NoGhostDrone /\ CleanBehind /\ CacheRemembers
  BY <1>1 DEF Init, NoGhostDrone, CleanBehind, CacheRemembers, Remembers
<1>5. IsCache(cache) /\ ShownIsBorn
  BY <1>1 DEF IsCache, ShownIsBorn
<1> QED
  BY <1>2, <1>3, <1>4, <1>5, AirParts

\* A track stays one, whatever a predict or an update makes of it.
LEMMA TrackChanges ==
  ASSUME NEW t \in Track, NEW p \in Place, gap \in 0..Long
  PROVE  /\ Predicted(t, p) \in Track /\ Predicted(t, p).id = t.id
         /\ Corrected(t, p) \in Track /\ Corrected(t, p).id = t.id
<1>1. Long \in Nat /\ Confirm \in Nat /\ Confirm >= 1
  BY LimitAssumption DEF Long
<1>2. t.idle \in 0..Long /\ t.hits \in 1..Confirm
  BY DEF Track
<1>3. AtMost(t.idle + gap, Long) \in 0..Long
  BY <1>1, <1>2 DEF AtMost
<1>4. AtMost(t.hits + 1, Confirm) \in 1..Confirm
  BY <1>1, <1>2 DEF AtMost
<1>5. Predicted(t, p) = [t EXCEPT !.pos = p, !.dt = gap, !.idle = AtMost(t.idle + gap, Long)]
  BY DEF Predicted
<1>6. Corrected(t, p) = [t EXCEPT !.pos = p, !.idle = 0, !.hits = AtMost(t.hits + 1, Confirm)]
  BY DEF Corrected
<1>7. 0 \in 0..Long
  BY <1>1
<1> QED
  BY <1>3, <1>4, <1>5, <1>6, <1>7 DEF Track

\* A vector with the same tracks at the same places is one.
LEMMA SameTracks ==
  ASSUME NEW n, NEW ks, IsVector(ks, n), NEW ks2 \in Seq(Track), Len(ks2) = Len(ks),
         \A i \in DOMAIN ks : ks2[i].id = ks[i].id
  PROVE  /\ IsVector(ks2, n)
         /\ \A c, sh : Remembers(ks, c, sh) => Remembers(ks2, c, sh)
<1>1. ks \in Seq(Track) /\ DOMAIN ks2 = DOMAIN ks
  BY DEF IsVector
<1>2. IsVector(ks2, n)
  BY <1>1 DEF IsVector
<1>3. ASSUME NEW c, NEW sh, Remembers(ks, c, sh) PROVE Remembers(ks2, c, sh)
  BY <1>1, <1>3 DEF Remembers
<1> QED
  BY <1>2, <1>3

LEMMA TickKeeps == AirInv /\ Tick => AirInv'
<1> SUFFICES ASSUME AirInv, Tick PROVE AirInv'
  OBVIOUS
<1>1. gap' \in 0..Long
  <2>1. Long \in Nat /\ gap \in 0..Long
    BY LimitAssumption DEF AirInv, TypeOK, Long
  <2>2. gap' = AtMost(gap + 1, Long)
    BY DEF Tick
  <2> QED
    BY <2>1, <2>2 DEF AtMost
<1>2. phase = "out" /\ UNCHANGED <<KFs_air, born, block, capacity, cache, phase, at, shown>>
  BY DEF Tick
<1>3. OtherTypes'
  BY <1>1, <1>2, AirParts DEF OtherTypes
<1>4. IsVector(KFs_air, born)' /\ IsCache(cache)'
  BY <1>2, AirParts DEF IsVector, IsCache
<1>5. NoGhostDrone' /\ CleanBehind' /\ ShownIsBorn' /\ CacheRemembers'
  BY <1>2, AirParts DEF NoGhostDrone, CleanBehind, Expired, ShownIsBorn, CacheRemembers, Remembers
<1> QED
  BY <1>3, <1>4, <1>5, AirParts, PTL

LEMMA PredictKeeps == AirInv /\ OtherPredict => AirInv'
<1> SUFFICES ASSUME AirInv, OtherPredict PROVE AirInv'
  OBVIOUS
<1>1. /\ IsVector(KFs_air, born) /\ IsCache(cache) /\ OtherTypes
      /\ ShownIsBorn /\ CacheRemembers
  BY AirParts
<1>2. PICK p \in [DOMAIN KFs_air -> Place] :
        KFs_air' = [i \in DOMAIN KFs_air |-> Predicted(KFs_air[i], p[i])]
  BY DEF OtherPredict
<1>3. /\ UNCHANGED <<born, block, capacity, cache, at, shown>>
      /\ gap' = 0 /\ phase' = "predicted"
  BY DEF OtherPredict
<1>4. KFs_air \in Seq(Track) /\ gap \in 0..Long
  BY <1>1 DEF IsVector, OtherTypes
<1>5. \A i \in DOMAIN KFs_air : Predicted(KFs_air[i], p[i]) \in Track
                                /\ Predicted(KFs_air[i], p[i]).id = KFs_air[i].id
  <2> SUFFICES ASSUME NEW i \in DOMAIN KFs_air
               PROVE  /\ Predicted(KFs_air[i], p[i]) \in Track
                      /\ Predicted(KFs_air[i], p[i]).id = KFs_air[i].id
    OBVIOUS
  <2>1. KFs_air[i] \in Track /\ p[i] \in Place
    BY <1>4
  <2> QED
    BY <1>4, <2>1, TrackChanges
<1>6. PICK k2 : k2 = KFs_air'
  OBVIOUS
<1>7. /\ k2 \in Seq(Track) /\ Len(k2) = Len(KFs_air)
      /\ \A i \in DOMAIN KFs_air : k2[i].id = KFs_air[i].id
  <2>1. PICK n \in Nat : DOMAIN KFs_air = 1..n /\ n = Len(KFs_air)
    BY <1>4
  <2>2. k2 = [i \in 1..n |-> Predicted(KFs_air[i], p[i])]
    BY <1>2, <1>6, <2>1
  <2> QED
    BY <1>5, <2>1, <2>2
<1>8. IsVector(k2, born) /\ Remembers(k2, cache, shown)
  <2>1. PICK n, c, sh : n = born /\ c = cache /\ sh = shown
    OBVIOUS
  <2>2. IsVector(KFs_air, n) /\ Remembers(KFs_air, c, sh)
    BY <1>1, <2>1 DEF CacheRemembers
  <2> QED
    BY <1>7, <2>1, <2>2, SameTracks
<1>9. OtherTypes'
  <2>1. gap' \in 0..Long
    BY <1>3, LimitAssumption DEF Long
  <2> QED
    BY <1>1, <1>3, <1>6, <1>7, <2>1 DEF OtherTypes
<1>10. IsVector(KFs_air, born)' /\ IsCache(cache)'
  BY <1>1, <1>3, <1>6, <1>8 DEF IsVector, IsCache
<1>11. NoGhostDrone' /\ CleanBehind' /\ ShownIsBorn' /\ CacheRemembers'
  BY <1>1, <1>3, <1>6, <1>8 DEF NoGhostDrone, CleanBehind, ShownIsBorn, CacheRemembers, Remembers
<1> QED
  BY <1>9, <1>10, <1>11, AirParts, PTL

LEMMA UpdateKeeps ==
  ASSUME AirInv, NEW pt \in Field, NEW i \in Birth, OtherUpdate(pt, i)
  PROVE  AirInv'
<1>1. /\ IsVector(KFs_air, born) /\ IsCache(cache) /\ OtherTypes
      /\ NoGhostDrone /\ ShownIsBorn /\ CacheRemembers
  BY AirParts
<1>2. PICK p \in Between(KFs_air[i].pos, pt) :
        KFs_air' = [KFs_air EXCEPT ![i] = Corrected(KFs_air[i], p)]
  BY DEF OtherUpdate
<1>3. /\ UNCHANGED <<born, block, capacity, cache, gap, at, shown>>
      /\ phase' = "matched" /\ i \in DOMAIN KFs_air
  BY DEF OtherUpdate
<1>4. KFs_air \in Seq(Track) /\ gap \in 0..Long /\ KFs_air[i] \in Track
  BY <1>1, <1>3 DEF IsVector, OtherTypes
<1>5. Corrected(KFs_air[i], p) \in Track /\ Corrected(KFs_air[i], p).id = KFs_air[i].id
  <2>1. p \in Place
    BY DEF Between
  <2> QED
    BY <1>4, <2>1, TrackChanges
<1>6. PICK k2 : k2 = KFs_air'
  OBVIOUS
<1>7. /\ k2 \in Seq(Track) /\ Len(k2) = Len(KFs_air)
      /\ \A h \in DOMAIN KFs_air : k2[h].id = KFs_air[h].id
  BY <1>2, <1>3, <1>4, <1>5, <1>6
<1>8. IsVector(k2, born) /\ Remembers(k2, cache, shown)
  <2>1. PICK n, c, sh : n = born /\ c = cache /\ sh = shown
    OBVIOUS
  <2>2. IsVector(KFs_air, n) /\ Remembers(KFs_air, c, sh)
    BY <1>1, <2>1 DEF CacheRemembers
  <2> QED
    BY <1>7, <2>1, <2>2, SameTracks
<1>9. OtherTypes'
  BY <1>1, <1>3, <1>6, <1>7 DEF OtherTypes
<1>10. IsVector(KFs_air, born)' /\ IsCache(cache)'
  BY <1>1, <1>3, <1>6, <1>8 DEF IsVector, IsCache
<1>11. NoGhostDrone' /\ CleanBehind' /\ ShownIsBorn' /\ CacheRemembers'
  BY <1>1, <1>3, <1>6, <1>8 DEF NoGhostDrone, CleanBehind, ShownIsBorn, CacheRemembers, Remembers
<1> QED
  BY <1>9, <1>10, <1>11, AirParts, PTL

LEMMA CreateKeeps ==
  ASSUME AirInv, NEW pt \in Field, OtherCreate(pt)
  PROVE  AirInv'
<1> DEFINE t == NewTrack(born + 1, pt)
<1>1. /\ IsVector(KFs_air, born) /\ IsCache(cache) /\ OtherTypes
      /\ NoGhostDrone /\ ShownIsBorn /\ CacheRemembers
  BY AirParts
<1>2. /\ UNCHANGED <<cache, gap, at, shown>>
      /\ phase' = "matched" /\ born' = born + 1 /\ born < MaxBirths
      /\ KFs_air' = Append(KFs_air, t)
  BY DEF OtherCreate
<1>3. born \in Nat /\ MaxBirths \in Nat /\ born + 1 \in 1..MaxBirths
  BY <1>1, <1>2, LimitAssumption DEF OtherTypes
<1>4. t \in Track /\ t.id = born + 1
  <2>1. 0 \in 0..Long /\ 1 \in 1..Confirm
    BY LimitAssumption DEF Long
  <2>2. pt \in Place
    BY FieldAssumption
  <2> QED
    BY <1>3, <2>1, <2>2 DEF NewTrack, Track, Birth
<1> HIDE DEF t
<1>5. /\ KFs_air \in Seq(Track) /\ Len(KFs_air) \in Nat /\ Len(KFs_air) <= born
      /\ \A i \in DOMAIN KFs_air : KFs_air[i].id \in Int /\ KFs_air[i].id <= born
  <2>1. KFs_air \in Seq(Track) /\ Len(KFs_air) <= born
        /\ \A i \in DOMAIN KFs_air : KFs_air[i].id <= born
    BY <1>1 DEF IsVector
  <2>2. \A i \in DOMAIN KFs_air : KFs_air[i] \in Track
    BY <2>1
  <2> QED
    BY <2>1, <2>2 DEF Track, Birth
<1>6. PICK k2, n : k2 = KFs_air' /\ n = Len(KFs_air)
  OBVIOUS
<1>7. /\ k2 \in Seq(Track) /\ Len(k2) = n + 1 /\ DOMAIN k2 = 1..(n + 1)
      /\ DOMAIN KFs_air = 1..n /\ n \in Nat
      /\ \A i \in 1..n : k2[i] = KFs_air[i]
      /\ k2[n + 1] = t
  BY <1>2, <1>4, <1>5, <1>6
<1>8. \A i \in DOMAIN k2 : i \in DOMAIN KFs_air \/ i = n + 1
  BY <1>7
<1>9. \A i \in DOMAIN k2 : k2[i].id \in Int /\ k2[i].id <= born + 1
  <2> SUFFICES ASSUME NEW i \in DOMAIN k2 PROVE k2[i].id \in Int /\ k2[i].id <= born + 1
    OBVIOUS
  <2>1. CASE i \in DOMAIN KFs_air
    <3>1. k2[i].id \in Int /\ k2[i].id <= born
      BY <1>5, <1>7, <2>1
    <3> QED
      BY <1>3, <3>1
  <2>2. CASE i = n + 1
    BY <1>3, <1>4, <1>7, <2>2
  <2> QED
    BY <1>8, <2>1, <2>2
<1>10. \A i, j \in DOMAIN k2 : i < j => k2[i].id < k2[j].id
  <2> SUFFICES ASSUME NEW i \in DOMAIN k2, NEW j \in DOMAIN k2, i < j
               PROVE  k2[i].id < k2[j].id
    OBVIOUS
  <2>1. i \in 1..n
    BY <1>7
  <2>2. CASE j \in DOMAIN KFs_air
    BY <1>1, <1>7, <2>1, <2>2 DEF IsVector
  <2>3. CASE j = n + 1
    <3>1. k2[i].id \in Int /\ k2[i].id <= born
      BY <1>5, <1>7, <2>1
    <3>2. k2[j].id = born + 1
      BY <1>4, <1>7, <2>3
    <3> QED
      BY <1>3, <3>1, <3>2
  <2> QED
    BY <1>8, <2>2, <2>3
<1>11. IsVector(KFs_air, born)'
  <2>1. Len(k2) <= born'
    BY <1>2, <1>3, <1>5, <1>6, <1>7
  <2> QED
    BY <1>2, <1>6, <1>7, <1>9, <1>10, <2>1 DEF IsVector
<1>12. OtherTypes'
  <2>1. born' \in 0..MaxBirths
    BY <1>2, <1>3
  <2>2. block' \in Block /\ capacity' \in Nat /\ Len(k2) <= capacity'
    <3>1. block \in Block /\ capacity \in Nat /\ n <= capacity
      BY <1>1, <1>6 DEF OtherTypes
    <3>2. CASE n < capacity /\ UNCHANGED <<block, capacity>>
      BY <1>7, <3>1, <3>2
    <3>3. CASE /\ n = capacity
               /\ capacity' = IF capacity = 0 THEN 1 ELSE 2 * capacity
               /\ block' \in Block \ {block}
      BY <1>7, <3>1, <3>3
    <3> QED
      BY <1>6, <3>2, <3>3 DEF OtherCreate
  <2>3. at' \in 0..Len(k2)
    BY <1>1, <1>2, <1>6, <1>7 DEF OtherTypes
  <2> QED
    BY <1>1, <1>2, <1>6, <2>1, <2>2, <2>3 DEF OtherTypes
<1>13. IsCache(cache)'
  BY <1>1, <1>2 DEF IsCache
<1>14. NoGhostDrone' /\ CleanBehind'
  BY <1>2 DEF NoGhostDrone, CleanBehind
<1>15. ShownIsBorn'
  BY <1>1, <1>2, <1>3 DEF ShownIsBorn
<1>16. CacheRemembers'
  <2>1. born + 1 \notin DOMAIN shown
    BY <1>1, <1>3 DEF ShownIsBorn
  <2>2. \A i \in DOMAIN k2 : k2[i].id \in DOMAIN shown =>
          i \in DOMAIN KFs_air /\ k2[i] = KFs_air[i]
    BY <1>4, <1>7, <1>8, <2>1
  <2>3. Remembers(k2, cache, shown)
    BY <1>1, <2>2 DEF CacheRemembers, Remembers
  <2> QED
    BY <1>2, <1>6, <2>3 DEF CacheRemembers, Remembers
<1> QED
  BY <1>11, <1>12, <1>13, <1>14, <1>15, <1>16, AirParts, PTL

\* The cache without the entry of one address.
Without(c, slot) == Restrict(c, DOMAIN c \ {slot})

\* The vector without one track, and the cache without its entry.
LEMMA RemoveKeeps ==
  ASSUME NEW n \in Nat, NEW ks, IsVector(ks, n), NEW c, NEW sh, Remembers(ks, c, sh),
         \A k \in DOMAIN sh : sh[k] \in [side : Side, slot : Slot],
         IsCache(c), NEW b, NEW i \in DOMAIN ks,
         NEW k2, k2 = RemoveAt(ks, i), NEW c2, c2 = Without(c, SlotOf(b, i))
  PROVE  /\ IsVector(k2, n) /\ Len(k2) = Len(ks) - 1
         /\ \A m \in DOMAIN k2 : /\ m \in DOMAIN ks /\ m + 1 \in DOMAIN ks
                                /\ k2[m] = IF m < i THEN ks[m] ELSE ks[m + 1]
         /\ IsCache(c2) /\ Remembers(k2, c2, sh)
<1>1. PICK l \in Nat : l = Len(ks) /\ l <= n /\ DOMAIN ks = 1..l
  BY DEF IsVector
<1>2. ks \in Seq(Track) /\ i \in 1..l
  BY <1>1 DEF IsVector
<1>3. /\ k2 \in Seq(Track) /\ Len(k2) = l - 1 /\ DOMAIN k2 = 1..(l - 1)
      /\ \A m \in 1..(l - 1) : k2[m] = IF m < i THEN ks[m] ELSE ks[m + 1]
  <2>1. i \in DOMAIN ks
    BY <1>1
  <2>2. /\ k2 \in Seq(Track) /\ Len(k2) = Len(ks) - 1
        /\ \A m \in 1..(Len(ks) - 1) : k2[m] = IF m < i THEN ks[m] ELSE ks[m + 1]
    BY <1>2, <2>1, RemoveFacts
  <2>3. DOMAIN k2 = 1..Len(k2)
    BY <2>2
  <2> QED
    BY <1>1, <2>2, <2>3
<1>4. \A h \in 1..l : ks[h].id \in Int /\ ks[h].id <= n
  <2> SUFFICES ASSUME NEW h \in 1..l PROVE ks[h].id \in Int /\ ks[h].id <= n
    OBVIOUS
  <2>1. ks[h] \in Track
    BY <1>1, <1>2
  <2> QED
    BY <1>1, <2>1 DEF Track, Birth, IsVector
<1> DEFINE from(m) == IF m < i THEN m ELSE m + 1
<1>5. \A m \in 1..(l - 1) : from(m) \in 1..l /\ from(m) >= m /\ from(m) # i /\ k2[m] = ks[from(m)]
  BY <1>1, <1>2, <1>3
<1>6. \A m, k \in 1..(l - 1) : m < k => from(m) < from(k)
  BY <1>1, <1>2
<1> HIDE DEF from
<1>7. IsVector(k2, n)
  <2>1. \A m, k \in DOMAIN k2 : m < k => k2[m].id < k2[k].id
    BY <1>1, <1>3, <1>5, <1>6 DEF IsVector
  <2>2. \A m \in DOMAIN k2 : k2[m].id <= n
    BY <1>3, <1>4, <1>5
  <2>3. Len(k2) <= n
    BY <1>1, <1>3
  <2> QED
    BY <1>3, <2>1, <2>2, <2>3 DEF IsVector
<1>8. /\ IsCache(c2)
      /\ \A s \in DOMAIN c : s # SlotOf(b, i) => s \in DOMAIN c2 /\ c2[s] = c[s]
  BY DEF IsCache, Without, Restrict
<1>9. Remembers(k2, c2, sh)
  <2> SUFFICES ASSUME NEW m \in DOMAIN k2, k2[m].id \in DOMAIN sh
               PROVE  /\ sh[k2[m].id].slot[2] >= m
                      /\ sh[k2[m].id].slot[2] = m =>
                           /\ sh[k2[m].id].slot \in DOMAIN c2
                           /\ c2[sh[k2[m].id].slot] = sh[k2[m].id].side
    BY DEF Remembers
  <2>1. PICK h, was : h = from(m) /\ was = sh[k2[m].id]
    OBVIOUS
  <2>2. h \in DOMAIN ks /\ h # i /\ k2[m] = ks[h] /\ h >= m /\ h \in Int /\ m \in Int
    BY <1>1, <1>3, <1>5, <2>1
  <2>3. /\ was.slot[2] >= h
        /\ was.slot[2] = h => was.slot \in DOMAIN c /\ c[was.slot] = was.side
    BY <2>1, <2>2 DEF Remembers
  <2>4. was.slot[2] \in Int
    BY <2>1 DEF Slot
  <2>5. was.slot[2] >= m /\ (was.slot[2] = m => h = m)
    BY <2>2, <2>3, <2>4
  <2>6. ASSUME was.slot[2] = m
        PROVE  was.slot \in DOMAIN c2 /\ c2[was.slot] = was.side
    <3>1. h = m /\ was.slot \in DOMAIN c /\ c[was.slot] = was.side
      BY <2>3, <2>5, <2>6
    <3>2. was.slot # SlotOf(b, i)
      BY <2>2, <2>6, <3>1 DEF SlotOf
    <3> QED
      BY <1>8, <3>1, <3>2
  <2> QED
    BY <2>1, <2>5, <2>6
<1>10. \A m \in DOMAIN k2 : m \in DOMAIN ks /\ m + 1 \in DOMAIN ks
  BY <1>1, <1>3
<1> QED
  BY <1>1, <1>3, <1>7, <1>8, <1>9, <1>10

\* Publishing what the vector has.
LEMMA PublishKeeps ==
  ASSUME IsVector(KFs_air, born), IsCache(cache), OtherTypes, ShownIsBorn, CacheRemembers,
         UNCHANGED <<KFs_air, born, block, capacity, gap, at>>,
         phase' \in {"out", "predicted", "matched", "erasing"},
         AppendAirLocations(KFs_air, block, cache)
  PROVE  IsVector(KFs_air, born)' /\ IsCache(cache)' /\ OtherTypes' /\ ShownIsBorn' /\ CacheRemembers'
<1>1. PICK n, b, ks, c, sh : n = born /\ b = block /\ ks = KFs_air /\ c = cache /\ sh = shown
  OBVIOUS
<1>2. PICK c3, sh3 : c3 = cache' /\ sh3 = shown'
  OBVIOUS
<1>3. c3 = CacheAfter(ks, b, c) /\ sh3 = ShownAfter(ks, b, c, sh)
  BY <1>1, <1>2 DEF AppendAirLocations
<1>4. /\ n \in 0..MaxBirths /\ b \in Block
      /\ \A k \in DOMAIN sh : sh[k] \in [side : Side, slot : Slot]
      /\ \A k \in DOMAIN sh : k \in Int /\ k <= n
  BY <1>1 DEF OtherTypes, ShownIsBorn
<1>5. IsVector(ks, n) /\ IsCache(c) /\ Remembers(ks, c, sh)
  BY <1>1 DEF CacheRemembers
<1>6. /\ IsCache(c3)
      /\ \A k \in DOMAIN sh3 : sh3[k] \in [side : Side, slot : Slot]
      /\ \A k \in DOMAIN sh3 : k \in Int /\ k <= n
      /\ Remembers(ks, c3, sh3)
  BY <1>3, <1>4, <1>5, AppendKeeps
<1>7. IsVector(KFs_air, born)' /\ IsCache(cache)' /\ ShownIsBorn' /\ CacheRemembers'
  BY <1>1, <1>2, <1>6 DEF IsVector, IsCache, ShownIsBorn, CacheRemembers, Remembers
<1>8. OtherTypes'
  BY <1>2, <1>6 DEF OtherTypes
<1> QED
  BY <1>7, <1>8

\* Nothing has been passed when the loop begins.
LEMMA EraseBegins == AirInv /\ OtherErase => AirInv'
<1> SUFFICES ASSUME AirInv, OtherErase PROVE AirInv'
  OBVIOUS
<1>1. /\ IsVector(KFs_air, born) /\ IsCache(cache) /\ OtherTypes
      /\ ShownIsBorn /\ CacheRemembers
  BY AirParts
<1>2. /\ UNCHANGED <<KFs_air, born, block, capacity, cache, gap, shown>>
      /\ phase' = "erasing" /\ at' = Len(KFs_air)
  BY DEF OtherErase
<1>3. Len(KFs_air) \in Nat /\ DOMAIN KFs_air = 1..Len(KFs_air)
  BY <1>1 DEF IsVector
<1>4. OtherTypes'
  <2>1. at' \in 0..Len(KFs_air)
    BY <1>2, <1>3
  <2> QED
    BY <1>1, <1>2, <2>1 DEF OtherTypes
<1>5. NoGhostDrone' /\ CleanBehind'
  BY <1>2, <1>3 DEF NoGhostDrone, CleanBehind
<1>6. IsVector(KFs_air, born)' /\ IsCache(cache)' /\ ShownIsBorn' /\ CacheRemembers'
  BY <1>1, <1>2 DEF IsVector, IsCache, ShownIsBorn, CacheRemembers, Remembers
<1> QED
  BY <1>4, <1>5, <1>6, AirParts, PTL

\* A round of the loop erases at most the track it looks at; those it passed move
\* up, but stay behind the index.
LEMMA EraseStepKeeps == AirInv /\ EraseStep => AirInv'
<1> SUFFICES ASSUME AirInv, EraseStep PROVE AirInv'
  OBVIOUS
<1>1. /\ IsVector(KFs_air, born) /\ IsCache(cache) /\ OtherTypes
      /\ CleanBehind /\ ShownIsBorn /\ CacheRemembers
  BY AirParts
<1>2. /\ UNCHANGED <<born, block, capacity, gap, phase, shown>>
      /\ phase = "erasing" /\ at \in DOMAIN KFs_air /\ at' = at - 1
  BY DEF EraseStep
<1>3. PICK l \in Nat : l = Len(KFs_air) /\ DOMAIN KFs_air = 1..l
  BY <1>1 DEF IsVector
<1>4. at \in 1..l /\ at' \in 0..(l - 1)
  BY <1>2, <1>3
<1>5. \A h \in 1..l : h > at => ~(KFs_air[h].idle > DeleteTime)
  BY <1>1, <1>2, <1>3 DEF CleanBehind, Expired
<1>6. NoGhostDrone' /\ ShownIsBorn'
  BY <1>1, <1>2 DEF NoGhostDrone, ShownIsBorn
<1>7. CASE Expired(at) /\ Erase(at)
  <2>1. PICK n, b, ks, i, c, sh : /\ n = born /\ b = block /\ ks = KFs_air
                                  /\ i = at /\ c = cache /\ sh = shown
    OBVIOUS
  <2>2. PICK k2, c2 : k2 = KFs_air' /\ c2 = cache'
    OBVIOUS
  <2>3. k2 = RemoveAt(ks, i) /\ c2 = Without(c, SlotOf(b, i))
    BY <1>7, <2>1, <2>2 DEF Erase, Without
  <2>4. /\ n \in Nat /\ IsVector(ks, n) /\ IsCache(c) /\ Remembers(ks, c, sh)
        /\ i \in DOMAIN ks
        /\ \A k \in DOMAIN sh : sh[k] \in [side : Side, slot : Slot]
    BY <1>1, <1>2, <2>1, LimitAssumption DEF CacheRemembers, OtherTypes
  <2>5. /\ IsVector(k2, n) /\ Len(k2) = Len(ks) - 1
        /\ \A m \in DOMAIN k2 : /\ m \in DOMAIN ks /\ m + 1 \in DOMAIN ks
                               /\ k2[m] = IF m < i THEN ks[m] ELSE ks[m + 1]
        /\ IsCache(c2) /\ Remembers(k2, c2, sh)
    BY <2>3, <2>4, RemoveKeeps
  <2>6. IsVector(KFs_air, born)' /\ IsCache(cache)' /\ CacheRemembers'
    BY <1>2, <2>1, <2>2, <2>5 DEF IsVector, IsCache, CacheRemembers, Remembers
  <2>7. OtherTypes'
    <3>1. Len(KFs_air') = l - 1
      BY <1>3, <2>1, <2>2, <2>5
    <3>2. at' \in 0..Len(KFs_air') /\ Len(KFs_air') <= capacity /\ capacity \in Nat
      BY <1>1, <1>3, <1>4, <3>1 DEF OtherTypes
    <3> QED
      BY <1>1, <1>2, <3>2 DEF OtherTypes
  <2>8. CleanBehind'
    <3>1. ASSUME NEW m \in DOMAIN k2, m > i - 1 PROVE ~(k2[m].idle > DeleteTime)
      <4>1. m \in 1..l /\ m + 1 \in 1..l /\ i \in 1..l
        BY <1>3, <1>4, <2>1, <2>5
      <4>2. ~(m < i) /\ m + 1 > i
        BY <3>1, <4>1
      <4>3. k2[m] = ks[m + 1]
        BY <2>5, <4>2
      <4> QED
        BY <1>5, <2>1, <4>1, <4>2, <4>3
    <3> QED
      BY <1>2, <2>1, <2>2, <3>1 DEF CleanBehind, Expired
  <2> QED
    BY <1>6, <2>6, <2>7, <2>8, AirParts, PTL
<1>8. CASE ~Expired(at) /\ UNCHANGED <<KFs_air, cache>>
  <2>1. IsVector(KFs_air, born)' /\ IsCache(cache)' /\ CacheRemembers'
    BY <1>1, <1>2, <1>8 DEF IsVector, IsCache, CacheRemembers, Remembers
  <2>2. OtherTypes'
    <3>1. at' \in 0..Len(KFs_air)
      BY <1>3, <1>4
    <3> QED
      BY <1>1, <1>2, <1>8, <3>1 DEF OtherTypes
  <2>3. CleanBehind'
    <3>1. ASSUME NEW m \in 1..l, m > at - 1 PROVE ~(KFs_air[m].idle > DeleteTime)
      <4>1. m > at \/ m = at
        BY <1>4, <3>1
      <4> QED
        BY <1>5, <1>8, <4>1 DEF Expired
    <3> QED
      BY <1>2, <1>3, <1>8, <3>1 DEF CleanBehind, Expired
  <2> QED
    BY <1>6, <2>1, <2>2, <2>3, AirParts, PTL
<1> QED
  BY <1>7, <1>8 DEF EraseStep

\* At the front everything has been passed.
LEMMA FinishKeeps == AirInv /\ OtherFinish => AirInv'
<1> SUFFICES ASSUME AirInv, OtherFinish PROVE AirInv'
  OBVIOUS
<1>1. /\ IsVector(KFs_air, born) /\ IsCache(cache) /\ OtherTypes
      /\ CleanBehind /\ ShownIsBorn /\ CacheRemembers
  BY AirParts
<1>2. /\ UNCHANGED <<KFs_air, born, block, capacity, gap, at>>
      /\ phase = "erasing" /\ at = 0 /\ phase' = "out"
      /\ AppendAirLocations(KFs_air, block, cache)
  BY DEF OtherFinish
<1>3. IsVector(KFs_air, born)' /\ IsCache(cache)' /\ OtherTypes' /\ ShownIsBorn' /\ CacheRemembers'
  BY <1>1, <1>2, PublishKeeps
<1>4. NoGhostDrone' /\ CleanBehind'
  <2>1. \A i \in DOMAIN KFs_air : i > 0
    BY <1>1 DEF IsVector
  <2> QED
    BY <1>1, <1>2, <2>1 DEF CleanBehind, NoGhostDrone, Expired
<1> QED
  BY <1>3, <1>4, AirParts, PTL

\* pcdCb publishes and changes no track.
LEMMA PcdKeeps == AirInv /\ PcdCb => AirInv'
<1> SUFFICES ASSUME AirInv, PcdCb PROVE AirInv'
  OBVIOUS
<1>1. /\ IsVector(KFs_air, born) /\ IsCache(cache) /\ OtherTypes
      /\ NoGhostDrone /\ ShownIsBorn /\ CacheRemembers
  BY AirParts
<1>2. /\ UNCHANGED <<KFs_air, born, block, capacity, gap, phase, at>> /\ phase = "out"
      /\ phase' \in {"out", "predicted", "matched", "erasing"}
      /\ AppendAirLocations(KFs_air, block, cache)
  BY DEF PcdCb
<1>3. IsVector(KFs_air, born)' /\ IsCache(cache)' /\ OtherTypes' /\ ShownIsBorn' /\ CacheRemembers'
  BY <1>1, <1>2, PublishKeeps
<1>4. NoGhostDrone' /\ CleanBehind'
  BY <1>1, <1>2 DEF NoGhostDrone, CleanBehind, Expired
<1> QED
  BY <1>3, <1>4, AirParts, PTL
-----------------------------------------------------------------------------
(* Theorems                                                                *)

\* The inductive invariant of the drone tracks.
THEOREM AirInvariance == Spec => []AirInv
<1>1. AirInv /\ [Next]_vars => AirInv'
  <2> SUFFICES ASSUME AirInv, [Next]_vars PROVE AirInv'
    OBVIOUS
  <2>1. CASE Tick
    BY <2>1, TickKeeps
  <2>2. CASE OtherPredict
    BY <2>2, PredictKeeps
  <2>3. ASSUME NEW pt \in Field, OtherCreate(pt) PROVE AirInv'
    BY <2>3, CreateKeeps
  <2>4. ASSUME NEW pt \in Field, NEW i \in Birth, OtherUpdate(pt, i) PROVE AirInv'
    BY <2>4, UpdateKeeps
  <2>5. CASE OtherErase
    BY <2>5, EraseBegins
  <2>6. CASE EraseStep
    BY <2>6, EraseStepKeeps
  <2>7. CASE OtherFinish
    BY <2>7, FinishKeeps
  <2>8. CASE PcdCb
    BY <2>8, PcdKeeps
  <2>9. CASE UNCHANGED vars
    BY <2>9 DEF vars, AirInv, TypeOK, FewTracks, NoGhostDrone, CleanBehind, Expired,
                ShownIsBorn, CacheRemembers, Remembers
  <2> QED
    BY <2>1, <2>2, <2>3, <2>4, <2>5, <2>6, <2>7, <2>8, <2>9 DEF Next
<1> QED
  BY <1>1, AirInit, PTL DEF Spec

\* The vector stays in the order of the births and within its capacity, and
\* the keys of the cache are addresses the vector can have.
THEOREM AirTypes == Spec => []TypeOK
<1>1. AirInv => TypeOK
  BY DEF AirInv
<1> QED
  BY <1>1, AirInvariance, PTL

\* When otherCb has returned no drone is left that expired, whichever
\* neighbours in the vector expired with it.
THEOREM NoDroneOutlives == Spec => []NoGhostDrone
<1>1. AirInv => NoGhostDrone
  BY DEF AirInv
<1> QED
  BY <1>1, AirInvariance, PTL

\* A drone published again from the slot it was last published from, inside
\* the dead zone, keeps its side.
THEOREM SlotsKeepTheirSide == Spec => SameSlotSameSide
<1>1. AirInv /\ [Next]_vars
        => \A i \in DOMAIN KFs_air' :
             LET drone == KFs_air'[i]
                 k     == drone.id
             IN k \in DOMAIN shown \cap DOMAIN shown' /\ drone.pos \in DeadZone
                  /\ shown'[k].slot = shown[k].slot
                  => shown'[k].side = shown[k].side
  <2> SUFFICES ASSUME AirInv, [Next]_vars,
                      NEW i \in DOMAIN KFs_air', NEW k, k = KFs_air'[i].id,
                      k \in DOMAIN shown, k \in DOMAIN shown',
                      KFs_air'[i].pos \in DeadZone, shown'[k].slot = shown[k].slot
               PROVE  shown'[k].side = shown[k].side
    OBVIOUS
  <2>1. ASSUME KFs_air' = KFs_air, AppendAirLocations(KFs_air, block, cache)
        PROVE  shown'[k].side = shown[k].side
    <3>1. PICK n, b, ks, c, sh : n = born /\ b = block /\ ks = KFs_air /\ c = cache /\ sh = shown
      OBVIOUS
    <3>2. PICK sh3 : sh3 = shown'
      OBVIOUS
    <3>3. sh3 = ShownAfter(ks, b, c, sh)
      BY <2>1, <3>1, <3>2 DEF AppendAirLocations
    <3>4. /\ n \in 0..MaxBirths /\ b \in Block
          /\ \A h \in DOMAIN sh : sh[h] \in [side : Side, slot : Slot]
          /\ \A h \in DOMAIN sh : h \in Int /\ h <= n
          /\ IsVector(ks, n) /\ IsCache(c) /\ Remembers(ks, c, sh)
      BY <3>1, AirParts DEF OtherTypes, ShownIsBorn, CacheRemembers
    <3>5. \A h \in DOMAIN ks :
            /\ ks[h].id \in DOMAIN sh /\ ks[h].id \in DOMAIN sh3
            /\ sh3[ks[h].id].slot = sh[ks[h].id].slot
            /\ ks[h].pos \in DeadZone
            => sh3[ks[h].id].side = sh[ks[h].id].side
      BY <3>3, <3>4, AppendKeeps
    <3> QED
      BY <2>1, <3>1, <3>2, <3>5
  <2>2. CASE OtherFinish
    BY <2>1, <2>2 DEF OtherFinish
  <2>3. CASE PcdCb
    BY <2>1, <2>3 DEF PcdCb
  <2>4. CASE shown' = shown
    BY <2>4
  <2> QED
    BY <2>2, <2>3, <2>4 DEF Next, Tick, OtherPredict, OtherCreate, OtherUpdate,
                            OtherErase, EraseStep, vars
<1> QED
  BY <1>1, AirInvariance, PTL DEF Spec, SameSlotSameSide
=============================================================================
