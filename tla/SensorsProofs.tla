--------------------------- MODULE SensorsProofs ---------------------------
(***************************************************************************)
(* Proofs about the points (LidarNode over LivoxDriver), about the images  *)
(* (HikCamera), and about Sensors, of which each path is one component.    *)
(*                                                                         *)
(* For any ring whose indices wrap after whole rounds of it, the unlocked  *)
(* ring is a queue, and frames reach target_pointcloud in the order of     *)
(* capture.  For any number of incarnations of the camera and of images,   *)
(* what the detect node processes is never older than the index it found,  *)
(* and never of two incarnations.                                          *)
(***************************************************************************)
EXTENDS Sensors, LivoxConnectProofs, LivoxCommandsProofs
-----------------------------------------------------------------------------
(* The driver and the lidar node                                           *)

\* How many indices w is ahead of r.
Ahead(w, r) == (w + IndexMod - r) % IndexMod

\* The slot x places behind slot 0.
InRing(x) == IF x < RingSize THEN x ELSE x - RingSize

\* The frames in the ring, the oldest first.
RingCount == Ahead(wr_idx, rd_idx)
RingFrames == [k \in 1..RingCount |-> slot[InRing((rd_idx % RingSize) + (k - 1))]]

\* The newest packet the writer has taken.
Taken == arrived - Len(packets)

Ascending(s) == \A i, j \in 1..Len(s) : i < j => s[i] < s[j]

Within(low, s, high) == \A i \in 1..Len(s) : low < s[i] /\ s[i] <= high

\* The packets that wait are the last that arrived.
PacketsAreNewest ==
  Len(packets) <= arrived /\ \A i \in 1..Len(packets) : packets[i] = Taken + i

\* Both indices count the same slots.
IndicesAgree == wr_idx % RingSize = InRing((rd_idx % RingSize) + RingCount)

\* The frames in the ring are newer than what is published, and in order.
RingInOrder == published <= Taken /\ Ascending(RingFrames) /\ Within(published, RingFrames, Taken)

\* What the reader has copied is the oldest frame of the ring or, when it is
\* taken out, older than those left.
ReaderInOrder ==
  /\ reader.at = "pop" => RingCount > 0 /\ reader.frame = RingFrames[1]
  /\ reader.at = "publish" =>
       /\ reader.frame > published /\ reader.frame <= Taken
       /\ Within(reader.frame, RingFrames, Taken)

\* The frame of the writer is newer than all of them.
WriterInOrder ==
  /\ writer.at \in {"store", "bump"} =>
       /\ writer.frame > published /\ writer.frame <= Taken
       /\ reader.at = "publish" => writer.frame > reader.frame
       /\ Within(0, RingFrames, writer.frame - 1)
  /\ writer.at = "bump" => RingCount < RingSize /\ slot[wr_idx % RingSize] = writer.frame

\* The topic holds, in order, published frames that the node has not handled.
TopicInOrder == handled <= published /\ Ascending(topic) /\ Within(handled, topic, published)

\* What the node keeps, it has handled.
NodeInOrder ==
  /\ targets = accumulated
  /\ Newest(accumulated) <= handled
  /\ Newest(pcd_queue) <= handled
  /\ sent <= handled

LidarInv ==
  /\ LidarTypeOK /\ PacketsAreNewest /\ IndicesAgree /\ RingInOrder
  /\ ReaderInOrder /\ WriterInOrder /\ TopicInOrder /\ NodeInOrder
-----------------------------------------------------------------------------
-----------------------------------------------------------------------------
(* Remainders.  The provers know a % m only as what is left of m * q.      *)

LEMMA Quotient ==
  ASSUME NEW m \in Nat, m > 0, NEW a \in Nat
  PROVE  \E q \in Nat, r \in 0..(m - 1) : a = (m * q) + r /\ a % m = r
<1>1. PICK q \in Int : q = a \div m
  OBVIOUS
<1>2. PICK r \in 0..(m - 1) : r = a % m
  OBVIOUS
<1>3. a = (m * q) + r
  BY <1>1, <1>2
<1>4. q \in Nat
  BY ONLY q \in Int, m \in Nat, m > 0, r \in 0..(m - 1), a \in Nat, <1>3
<1> QED
  BY <1>2, <1>3, <1>4

LEMMA Remainder ==
  ASSUME NEW m \in Nat, m > 0, NEW q \in Nat, NEW r \in 0..(m - 1), NEW a \in Nat, a = (m * q) + r
  PROVE  a % m = r
  OBVIOUS

LEMMA NoRemainder ==
  ASSUME NEW m \in Nat, m > 0, NEW q \in Nat, NEW a \in Nat, a = m * q
  PROVE  a % m = 0
<1>1. a = (m * q) + 0 /\ 0 \in 0..(m - 1)
  OBVIOUS
<1> QED
  BY <1>1

LEMMA NextRemainder ==
  ASSUME NEW m \in Nat, m > 0, NEW a \in Nat
  PROVE  /\ a % m \in 0..(m - 1)
         /\ (a + 1) % m = IF a % m = m - 1 THEN 0 ELSE (a % m) + 1
<1>1. PICK q \in Nat, r \in 0..(m - 1) : a = (m * q) + r /\ a % m = r
  BY Quotient
<1>a. a % m = r /\ r \in 0..(m - 1)
  BY <1>1
<1>2. CASE r = m - 1
  <2>1. PICK p \in Nat : p = q + 1
    OBVIOUS
  <2>2. a + 1 = m * p
    BY <1>1, <1>2, <2>1
  <2>3. (a + 1) % m = 0
    <3>1. PICK b \in Nat : b = a + 1
      OBVIOUS
    <3>2. b = m * p
      BY <2>2, <3>1
    <3>3. b % m = 0
      BY ONLY <3>2, p \in Nat, m \in Nat, m > 0, b \in Nat, NoRemainder
    <3> QED
      BY <3>1, <3>3
  <2> QED
    BY <1>a, <1>2, <2>3
<1>3. CASE r # m - 1
  <2>1. a + 1 = (m * q) + (r + 1)
    BY <1>1
  <2>2. (a + 1) % m = r + 1
    BY <1>3, <2>1, Remainder
  <2> QED
    BY <1>a, <1>3, <2>2
<1> QED
  BY <1>2, <1>3

LEMMA SmallRemainder ==
  ASSUME NEW m \in Nat, m > 0, NEW a \in 0..(2 * m - 1)
  PROVE  a % m = IF a < m THEN a ELSE a - m
<1>1. CASE a < m
  BY <1>1, Remainder, a = (m * 0) + a
<1>2. CASE a >= m
  BY <1>2, Remainder, a = (m * 1) + (a - m)
<1> QED
  BY <1>1, <1>2

\* The ring is smaller than the range of its indices, which ends with a round
\* of the ring.
LEMMA RingSizes ==
  /\ RingSize \in Nat /\ RingSize > 0
  /\ IndexMod \in Nat /\ IndexMod > RingSize
  /\ (IndexMod - 1) % RingSize = RingSize - 1
<1>1. PICK k \in 2..IndexMod : IndexMod = k * RingSize
  BY RingAssumption
<1>2. RingSize \in Nat /\ RingSize > 0 /\ IndexMod \in Nat /\ k \in Nat /\ k >= 2
  BY RingAssumption
<1>3. IndexMod > RingSize
  BY <1>1, <1>2
<1>4. IndexMod - 1 = (RingSize * (k - 1)) + (RingSize - 1)
  BY <1>1, <1>2
<1> QED
  BY <1>2, <1>3, <1>4, Remainder

LEMMA NextSlot ==
  ASSUME NEW x \in 0..(IndexMod - 1)
  PROVE  /\ (x + 1) % IndexMod \in 0..(IndexMod - 1)
         /\ x % RingSize \in 0..(RingSize - 1)
         /\ ((x + 1) % IndexMod) % RingSize = InRing((x % RingSize) + 1)
<1>1. (x + 1) % IndexMod = IF x = IndexMod - 1 THEN 0 ELSE x + 1
  BY RingSizes, SmallRemainder
<1>2. /\ x % RingSize \in 0..(RingSize - 1)
      /\ (x + 1) % RingSize = IF x % RingSize = RingSize - 1 THEN 0 ELSE (x % RingSize) + 1
  <2>1. x \in Nat /\ RingSize \in Nat /\ RingSize > 0
    BY RingSizes
  <2> QED
    BY <2>1, NextRemainder
<1>3. 0 % RingSize = 0
  BY RingSizes, SmallRemainder
<1> QED
  BY <1>1, <1>2, <1>3, RingSizes DEF InRing

LEMMA AheadIs ==
  ASSUME NEW w \in 0..(IndexMod - 1), NEW r \in 0..(IndexMod - 1)
  PROVE  Ahead(w, r) = IF w >= r THEN w - r ELSE (w + IndexMod) - r
<1>1. w + IndexMod - r \in 0..(2 * IndexMod - 1)
  BY RingSizes
<1> QED
  BY <1>1, RingSizes, SmallRemainder DEF Ahead

LEMMA WriterMoves ==
  ASSUME NEW w \in 0..(IndexMod - 1), NEW r \in 0..(IndexMod - 1), Ahead(w, r) < RingSize
  PROVE  Ahead((w + 1) % IndexMod, r) = Ahead(w, r) + 1
<1>1. (w + 1) % IndexMod = IF w = IndexMod - 1 THEN 0 ELSE w + 1
  BY RingSizes, SmallRemainder
<1>2. PICK next \in 0..(IndexMod - 1) : next = (w + 1) % IndexMod
  BY <1>1, RingSizes
<1>3. next = IF w = IndexMod - 1 THEN 0 ELSE w + 1
  BY <1>1, <1>2
<1>4. Ahead(next, r) = Ahead(w, r) + 1
  <2>1. /\ Ahead(w, r) = IF w >= r THEN w - r ELSE (w + IndexMod) - r
        /\ Ahead(next, r) = IF next >= r THEN next - r ELSE (next + IndexMod) - r
    BY AheadIs
  <2> QED
    BY <1>3, <2>1, RingSizes
<1> QED
  BY <1>2, <1>4

LEMMA ReaderMoves ==
  ASSUME NEW w \in 0..(IndexMod - 1), NEW r \in 0..(IndexMod - 1), Ahead(w, r) > 0
  PROVE  Ahead(w, (r + 1) % IndexMod) = Ahead(w, r) - 1
<1>1. (r + 1) % IndexMod = IF r = IndexMod - 1 THEN 0 ELSE r + 1
  BY RingSizes, SmallRemainder
<1>2. PICK next \in 0..(IndexMod - 1) : next = (r + 1) % IndexMod
  BY <1>1, RingSizes
<1>3. next = IF r = IndexMod - 1 THEN 0 ELSE r + 1
  BY <1>1, <1>2
<1>4. Ahead(w, next) = Ahead(w, r) - 1
  <2>1. /\ Ahead(w, r) = IF w >= r THEN w - r ELSE (w + IndexMod) - r
        /\ Ahead(w, next) = IF w >= next THEN w - next ELSE (w + IndexMod) - next
    BY AheadIs
  <2> QED
    BY <1>3, <2>1, RingSizes
<1> QED
  BY <1>2, <1>4

\* A frame stored and its index moved: it joins the others behind the last.
LEMMA KeepsOneMore ==
  ASSUME NEW w \in 0..(IndexMod - 1), NEW r \in 0..(IndexMod - 1), Ahead(w, r) < RingSize,
         w % RingSize = InRing((r % RingSize) + Ahead(w, r)),
         NEW next, next = (w + 1) % IndexMod
  PROVE  /\ Ahead(next, r) = Ahead(w, r) + 1
         /\ next % RingSize = InRing((r % RingSize) + Ahead(next, r))
<1>1. Ahead(next, r) = Ahead(w, r) + 1 /\ Ahead(w, r) \in Nat
  BY WriterMoves, AheadIs, RingSizes
<1>2. /\ next % RingSize = InRing((w % RingSize) + 1)
      /\ r % RingSize \in 0..(RingSize - 1)
  BY NextSlot
<1> QED
  BY <1>1, <1>2, RingSizes DEF InRing

\* The index of the reader moved: the first is gone.
LEMMA KeepsOneLess ==
  ASSUME NEW w \in 0..(IndexMod - 1), NEW r \in 0..(IndexMod - 1),
         Ahead(w, r) > 0, Ahead(w, r) <= RingSize,
         w % RingSize = InRing((r % RingSize) + Ahead(w, r)),
         NEW next, next = (r + 1) % IndexMod
  PROVE  /\ Ahead(w, next) = Ahead(w, r) - 1
         /\ w % RingSize = InRing((next % RingSize) + Ahead(w, next))
         /\ \A k \in 0..(Ahead(w, next) - 1) :
              InRing((next % RingSize) + k) = InRing((r % RingSize) + (k + 1))
<1>1. Ahead(w, next) = Ahead(w, r) - 1 /\ Ahead(w, r) \in Nat
  <2>1. Ahead(w, (r + 1) % IndexMod) = Ahead(w, r) - 1
    BY ReaderMoves
  <2>2. Ahead(w, r) \in Nat
    BY AheadIs, RingSizes
  <2> QED
    BY <2>1, <2>2
<1>2. /\ next % RingSize = InRing((r % RingSize) + 1)
      /\ r % RingSize \in 0..(RingSize - 1)
  BY NextSlot
<1> QED
  BY <1>1, <1>2, RingSizes DEF InRing

\* The slots of the frames in the ring are slots, and the free one is another.
LEMMA OtherSlots ==
  ASSUME NEW a \in 0..(RingSize - 1), NEW h \in 0..RingSize
  PROVE  /\ \A k \in 0..h : InRing(a + k) \in 0..(RingSize - 1)
         /\ h < RingSize => \A k \in 0..(h - 1) : InRing(a + k) # InRing(a + h)
  BY RingSizes DEF InRing

LEMMA TailIs ==
  ASSUME NEW s \in Seq(Nat), Len(s) > 0
  PROVE  Tail(s) = [i \in 1..(Len(s) - 1) |-> s[i + 1]]
<1>1. /\ Tail(s) \in Seq(Nat) /\ Len(Tail(s)) = Len(s) - 1
      /\ \A i \in 1..(Len(s) - 1) : Tail(s)[i] = s[i + 1]
  OBVIOUS
<1>2. PICK t : t = [i \in 1..(Len(s) - 1) |-> s[i + 1]]
  OBVIOUS
<1>3. t \in Seq(Nat) /\ Len(t) = Len(s) - 1 /\ \A i \in 1..(Len(s) - 1) : t[i] = s[i + 1]
  BY <1>2
<1> QED
  BY <1>1, <1>2, <1>3, SeqEqual

LEMMA SortedTail ==
  ASSUME NEW s \in Seq(Nat), s # <<>>, NEW low \in Nat, NEW high \in Nat,
         Ascending(s), Within(low, s, high)
  PROVE  /\ Tail(s) \in Seq(Nat) /\ Len(Tail(s)) = Len(s) - 1
         /\ s[1] \in Nat /\ low < s[1] /\ s[1] <= high
         /\ Ascending(Tail(s)) /\ Within(s[1], Tail(s), high) /\ Within(low, Tail(s), high)
<1>1. /\ Tail(s) \in Seq(Nat) /\ Len(Tail(s)) = Len(s) - 1 /\ Len(s) \in Nat /\ Len(s) >= 1
      /\ \A i \in 1..Len(Tail(s)) : Tail(s)[i] = s[i + 1]
  OBVIOUS
<1>2. \A i \in 1..Len(s) : s[i] \in Nat
  OBVIOUS
<1>3. s[1] \in Nat /\ low < s[1] /\ s[1] <= high
  BY <1>1, <1>2 DEF Within
<1>4. Ascending(Tail(s))
  BY <1>1 DEF Ascending
<1>5. Within(s[1], Tail(s), high)
  BY <1>1 DEF Ascending, Within
<1>6. Within(low, Tail(s), high)
  BY <1>1 DEF Within
<1> QED
  BY <1>1, <1>3, <1>4, <1>5, <1>6

LEMMA SortedAppend ==
  ASSUME NEW s \in Seq(Nat), NEW n \in Nat, NEW low \in Nat, NEW high \in Nat,
         Ascending(s), Within(low, s, high), high < n, low < n
  PROVE  /\ Append(s, n) \in Seq(Nat) /\ Len(Append(s, n)) = Len(s) + 1
         /\ Ascending(Append(s, n)) /\ Within(low, Append(s, n), n)
<1>1. /\ Append(s, n) \in Seq(Nat) /\ Len(Append(s, n)) = Len(s) + 1 /\ Len(s) \in Nat
      /\ \A i \in 1..Len(s) : Append(s, n)[i] = s[i]
      /\ Append(s, n)[Len(s) + 1] = n
  OBVIOUS
<1>2. \A i \in 1..Len(s) : s[i] \in Nat
  OBVIOUS
<1>3. Ascending(Append(s, n))
  BY <1>1, <1>2 DEF Ascending, Within
<1>4. Within(low, Append(s, n), n)
  BY <1>1, <1>2 DEF Within
<1> QED
  BY <1>1, <1>3, <1>4

-----------------------------------------------------------------------------
\* The invariant in the types of the variables.
LEMMA RingTypes ==
  ASSUME LidarTypeOK
  PROVE  /\ arrived \in Nat /\ published \in Nat /\ published <= arrived /\ handled \in Nat
         /\ wr_idx \in 0..(IndexMod - 1) /\ rd_idx \in 0..(IndexMod - 1)
         /\ RingCount \in 0..RingSize
         /\ slot \in [0..(RingSize - 1) -> Nat]
         /\ rd_idx % RingSize \in 0..(RingSize - 1)
         /\ wr_idx % RingSize \in 0..(RingSize - 1)
         /\ RingFrames \in Seq(Nat) /\ Len(RingFrames) = RingCount
         /\ \A k \in 1..RingCount : RingFrames[k] = slot[InRing((rd_idx % RingSize) + (k - 1))]
<1>1. /\ arrived \in Nat /\ published \in Nat /\ published <= arrived /\ handled \in Nat
      /\ wr_idx \in 0..(IndexMod - 1) /\ rd_idx \in 0..(IndexMod - 1)
      /\ slot \in [0..(RingSize - 1) -> Nat]
      /\ RingCount <= RingSize
  BY DriverLimits DEF LidarTypeOK, DriverTypeOK, RingCount, Ahead
<1>2. RingCount \in Nat
  <2>1. PICK w \in 0..(IndexMod - 1), r \in 0..(IndexMod - 1) : w = wr_idx /\ r = rd_idx
    BY <1>1
  <2>2. Ahead(w, r) \in Nat
    BY AheadIs, RingSizes
  <2> QED
    BY <2>1, <2>2 DEF RingCount
<1>3. /\ rd_idx % RingSize \in 0..(RingSize - 1)
      /\ wr_idx % RingSize \in 0..(RingSize - 1)
  BY <1>1, NextSlot
<1>4. \A k \in 1..RingCount : InRing((rd_idx % RingSize) + (k - 1)) \in 0..(RingSize - 1)
  BY <1>1, <1>2, <1>3, RingSizes DEF InRing
<1>5. \A k \in 1..RingCount : slot[InRing((rd_idx % RingSize) + (k - 1))] \in Nat
  BY <1>1, <1>4
<1>6. RingFrames \in Seq(Nat) /\ Len(RingFrames) = RingCount
  BY <1>2, <1>5 DEF RingFrames
<1>7. \A k \in 1..RingCount : RingFrames[k] = slot[InRing((rd_idx % RingSize) + (k - 1))]
  BY DEF RingFrames
<1> QED
  BY <1>1, <1>2, <1>3, <1>6, <1>7, RingSizes

LEMMA RingStays ==
  ASSUME LidarInv, UNCHANGED ringVars
  PROVE  RingCount' = RingCount /\ RingFrames' = RingFrames /\ IndicesAgree'
  BY DEF LidarInv, ringVars, RingCount, Ahead, RingFrames, InRing, IndicesAgree

\* QueuePushAny stores behind the frames of the ring, if it has room there.
LEMMA StoreKeeps ==
  ASSUME LidarInv, StoreFrame, ~QueueIsFull
  PROVE  /\ RingCount' = RingCount /\ RingFrames' = RingFrames /\ IndicesAgree' /\ RingCount < RingSize
         /\ slot'[wr_idx % RingSize] = writer.frame
<1>1. LidarTypeOK /\ IndicesAgree
  BY DEF LidarInv
<1>2. /\ slot' = [slot EXCEPT ![wr_idx % RingSize] = writer.frame]
      /\ wr_idx' = wr_idx /\ rd_idx' = rd_idx
      /\ slot \in [0..(RingSize - 1) -> Nat]
  BY <1>1, RingTypes DEF StoreFrame
<1>3. RingCount < RingSize
  BY <1>1, RingTypes, RingSizes DEF QueueIsFull, RingCount, Ahead
<1>4. RingCount' = RingCount /\ IndicesAgree'
  BY <1>1, <1>2 DEF RingCount, Ahead, IndicesAgree, InRing
<1>5. ASSUME NEW k \in 1..RingCount
      PROVE  slot'[InRing((rd_idx % RingSize) + (k - 1))] = slot[InRing((rd_idx % RingSize) + (k - 1))]
  <2>1. PICK a \in 0..(RingSize - 1), h \in 0..RingSize : a = rd_idx % RingSize /\ h = RingCount
    BY <1>1, RingTypes
  <2>2. /\ InRing(a + (k - 1)) \in 0..(RingSize - 1)
        /\ InRing(a + (k - 1)) # InRing(a + h)
    <3>1. PICK i \in 0..(h - 1) : i = k - 1
      BY <1>3, <2>1
    <3>2. i \in 0..h /\ h < RingSize
      BY <1>3, <2>1, <3>1
    <3>3. InRing(a + i) \in 0..(RingSize - 1) /\ InRing(a + i) # InRing(a + h)
      BY <3>1, <3>2, OtherSlots
    <3> QED
      BY <3>1, <3>3
  <2>3. wr_idx % RingSize = InRing(a + h)
    BY <1>1, <2>1 DEF IndicesAgree
  <2> QED
    BY <1>2, <2>1, <2>2, <2>3
<1>6. RingFrames' = [k \in 1..RingCount |-> slot'[InRing((rd_idx % RingSize) + (k - 1))]]
  BY <1>2, <1>4 DEF RingFrames, InRing
<1>7. RingFrames' = RingFrames
  BY <1>5, <1>6 DEF RingFrames
<1>8. slot'[wr_idx % RingSize] = writer.frame
  BY <1>1, <1>2, RingTypes
<1> QED
  BY <1>3, <1>4, <1>7, <1>8

\* wr_idx joins the frame stored to them.
LEMMA BumpAppends ==
  ASSUME LidarInv, BumpWriteIndex
  PROVE  RingCount' = RingCount + 1 /\ RingFrames' = Append(RingFrames, writer.frame) /\ IndicesAgree'
<1>1. LidarTypeOK /\ IndicesAgree
  BY DEF LidarInv
<1>2. /\ wr_idx' = (wr_idx + 1) % IndexMod
      /\ slot' = slot /\ rd_idx' = rd_idx
  BY DEF BumpWriteIndex
<1>3. RingCount < RingSize /\ slot[wr_idx % RingSize] = writer.frame
  BY DEF BumpWriteIndex, LidarInv, WriterInOrder
<1>4. RingCount' = RingCount + 1 /\ IndicesAgree'
  <2>1. PICK w \in 0..(IndexMod - 1), r \in 0..(IndexMod - 1) : w = wr_idx /\ r = rd_idx
    BY <1>1, RingTypes
  <2>2. PICK next : next = (w + 1) % IndexMod
    OBVIOUS
  <2>3. /\ Ahead(next, r) = Ahead(w, r) + 1
        /\ next % RingSize = InRing((r % RingSize) + Ahead(next, r))
    BY <1>1, <1>3, <2>1, <2>2, KeepsOneMore DEF RingCount, IndicesAgree
  <2>4. wr_idx' = next /\ rd_idx' = r
    BY <1>2, <2>1, <2>2
  <2> QED
    BY <2>1, <2>3, <2>4 DEF RingCount, Ahead, IndicesAgree, InRing
<1>5. /\ RingFrames \in Seq(Nat) /\ Len(RingFrames) = RingCount /\ RingCount \in Nat
      /\ \A k \in 1..RingCount : RingFrames[k] = slot[InRing((rd_idx % RingSize) + (k - 1))]
  BY <1>1, RingTypes
<1>6. RingFrames' = [k \in 1..(RingCount + 1) |-> slot[InRing((rd_idx % RingSize) + (k - 1))]]
  BY <1>2, <1>4 DEF RingFrames, InRing
<1>7. slot[InRing((rd_idx % RingSize) + ((RingCount + 1) - 1))] = writer.frame
  BY <1>1, <1>3, <1>5 DEF IndicesAgree
<1>8. RingFrames' = Append(RingFrames, writer.frame)
  BY <1>5, <1>6, <1>7
<1> QED
  BY <1>4, <1>8

\* rd_idx takes the oldest of them out.
LEMMA PopTakes ==
  ASSUME LidarInv, QueuePopUpdate
  PROVE  RingCount > 0 /\ RingCount' = RingCount - 1 /\ RingFrames' = Tail(RingFrames) /\ IndicesAgree'
<1>1. LidarTypeOK /\ IndicesAgree
  BY DEF LidarInv
<1>2. /\ rd_idx' = (rd_idx + 1) % IndexMod
      /\ slot' = slot /\ wr_idx' = wr_idx
  BY DEF QueuePopUpdate
<1>3. RingCount > 0
  BY DEF QueuePopUpdate, LidarInv, ReaderInOrder
<1>4. PICK w \in 0..(IndexMod - 1), r \in 0..(IndexMod - 1) : w = wr_idx /\ r = rd_idx
  BY <1>1, RingTypes
<1>5. PICK next : next = (r + 1) % IndexMod
  OBVIOUS
<1>6. /\ Ahead(w, next) = Ahead(w, r) - 1
      /\ w % RingSize = InRing((next % RingSize) + Ahead(w, next))
      /\ \A k \in 0..(Ahead(w, next) - 1) :
           InRing((next % RingSize) + k) = InRing((r % RingSize) + (k + 1))
  <2>1. Ahead(w, r) <= RingSize
    BY <1>1, <1>4, RingTypes DEF RingCount
  <2> QED
    BY <1>1, <1>3, <1>4, <1>5, <2>1, KeepsOneLess DEF RingCount, IndicesAgree
<1>7. rd_idx' = next /\ wr_idx' = w
  BY <1>2, <1>4, <1>5
<1>8. RingCount' = RingCount - 1 /\ IndicesAgree'
  BY <1>4, <1>6, <1>7 DEF RingCount, Ahead, IndicesAgree, InRing
<1>9. /\ RingFrames \in Seq(Nat) /\ Len(RingFrames) = RingCount /\ RingCount \in Nat
      /\ \A k \in 1..RingCount : RingFrames[k] = slot[InRing((r % RingSize) + (k - 1))]
  BY <1>1, <1>4, RingTypes
<1>10. RingFrames' = [k \in 1..(RingCount - 1) |-> slot[InRing((next % RingSize) + (k - 1))]]
  BY <1>2, <1>7, <1>8 DEF RingFrames, InRing
<1>11. RingFrames' = Tail(RingFrames)
  <2>1. ASSUME NEW k \in 1..(RingCount - 1)
        PROVE  slot[InRing((next % RingSize) + (k - 1))] = RingFrames[k + 1]
    <3>1. InRing((next % RingSize) + (k - 1)) = InRing((r % RingSize) + ((k - 1) + 1))
      BY <1>4, <1>6, <1>9 DEF RingCount
    <3>2. (k - 1) + 1 = (k + 1) - 1 /\ k + 1 \in 1..RingCount
      BY <1>9
    <3> QED
      BY <1>9, <3>1, <3>2
  <2>2. Tail(RingFrames) = [k \in 1..(RingCount - 1) |-> RingFrames[k + 1]]
    BY <1>3, <1>9, TailIs
  <2> QED
    BY <1>10, <2>1, <2>2
<1> QED
  BY <1>3, <1>8, <1>11
-----------------------------------------------------------------------------
\* The initial state satisfies the invariant.
LEMMA LidarInitInv == LidarInit => LidarInv
<1> SUFFICES ASSUME LidarInit PROVE LidarInv
  OBVIOUS
<1> USE DEF LidarInit, DriverInit, NodeInit, At
<1>1. RingCount = 0
  <2>1. PICK w \in 0..(IndexMod - 1), r \in 0..(IndexMod - 1) : w = 0 /\ r = 0
    BY RingSizes
  <2>2. Ahead(w, r) = 0
    BY <2>1, AheadIs, RingSizes
  <2> QED
    BY <2>1, <2>2 DEF RingCount
<1>2. RingFrames = <<>>
  BY <1>1 DEF RingFrames
<1>3. LidarTypeOK
  <2>1. {wr_idx, rd_idx} \subseteq 0..(IndexMod - 1) /\ (wr_idx + IndexMod - rd_idx) % IndexMod <= RingSize
    BY <1>1, RingSizes DEF RingCount, Ahead
  <2>2. slot \in [0..(RingSize - 1) -> 0..arrived]
    OBVIOUS
  <2>3. writer \in [at : WriterPlace, frame : 0..arrived] /\ reader \in [at : ReaderPlace, frame : 0..arrived]
    BY DEF WriterPlace, ReaderPlace
  <2>4. DriverTypeOK
    BY <2>1, <2>2, <2>3, DriverLimits DEF DriverTypeOK
  <2>5. QueueMax \in Nat /\ AccumulateTime \in Nat
    BY NodeAssumption
  <2>6. /\ pcd_queue \in Seq(Packet) /\ Len(pcd_queue) = 0
        /\ accumulated \in Seq(Packet) /\ Len(accumulated) = 0
        /\ targets \in Seq(Packet) /\ Len(targets) = 0
    OBVIOUS
  <2>7. handled \in 0..published /\ sent \in 0..published
    <3>1. handled = 0 /\ sent = 0 /\ published = 0 /\ 0 \in 0..0
      OBVIOUS
    <3> QED
      BY ONLY <3>1
  <2>8. pose \in {"none", "given", "config", "sent"} /\ scans \in 0..2
    OBVIOUS
  <2> QED
    BY ONLY <2>4, <2>5, <2>6, <2>7, <2>8 DEF LidarTypeOK
<1>4. IndicesAgree
  <2>1. 0 % RingSize = 0
    BY RingSizes, SmallRemainder
  <2> QED
    BY <1>1, <2>1, RingSizes DEF IndicesAgree, InRing
<1>5. PacketsAreNewest /\ RingInOrder /\ TopicInOrder /\ NodeInOrder
  BY <1>2 DEF PacketsAreNewest, RingInOrder, TopicInOrder, NodeInOrder, Taken, Ascending, Within, Newest
<1>6. ReaderInOrder /\ WriterInOrder
  BY DEF ReaderInOrder, WriterInOrder
<1> QED
  BY <1>3, <1>4, <1>5, <1>6 DEF LidarInv

\* A packet arrives: what was taken stays what it is.
LEMMA ArrivalKeeps ==
  ASSUME LidarInv, OnLivoxLidarPointCloudCallback, UNCHANGED nodeVars
  PROVE  LidarInv'
<1> USE DEF OnLivoxLidarPointCloudCallback, nodeVars, ringVars
<1>1. LidarTypeOK /\ PacketsAreNewest
  BY DEF LidarInv
<1>2. /\ RingCount' = RingCount /\ RingFrames' = RingFrames /\ IndicesAgree' /\ RingFrames \in Seq(Nat)
      /\ arrived \in Nat /\ arrived' \in Packet /\ packets \in Seq(Packet)
  BY <1>1, RingStays, RingTypes, DriverLimits DEF LidarTypeOK, DriverTypeOK, Packet
<1>3. packets' \in Seq(Packet) /\ Len(packets') = Len(packets) + 1
  BY <1>2
<1>4. Taken' = Taken /\ Taken \in Nat
  BY <1>1, <1>2, <1>3 DEF Taken, PacketsAreNewest
<1>5. LidarTypeOK'
  <2>1. arrived' \in 0..MaxPackets /\ 0..arrived \subseteq 0..arrived'
    BY <1>2 DEF Packet
  <2>2. slot' \in [0..(RingSize - 1) -> 0..arrived']
    <3>1. slot \in [0..(RingSize - 1) -> 0..arrived] /\ slot' = slot
      BY <1>1 DEF LidarTypeOK, DriverTypeOK
    <3> QED
      BY <2>1, <3>1
  <2>3. writer' \in [at : WriterPlace, frame : 0..arrived'] /\ reader' \in [at : ReaderPlace, frame : 0..arrived']
    BY <1>1, <2>1 DEF LidarTypeOK, DriverTypeOK
  <2>4. DriverTypeOK'
    BY <1>1, <1>2, <1>3, <2>1, <2>2, <2>3 DEF LidarTypeOK, DriverTypeOK
  <2> QED
    BY <1>1, <1>2, <2>4 DEF LidarTypeOK
<1>6. PacketsAreNewest'
  <2>1. Len(packets) \in Nat /\ arrived' = Taken + (Len(packets) + 1)
    BY <1>2 DEF Taken
  <2>2. \A i \in 1..(Len(packets) + 1) : packets'[i] = Taken + i
    BY <1>1, <1>2, <2>1 DEF PacketsAreNewest
  <2> QED
    BY <1>1, <1>2, <1>3, <1>4, <2>2 DEF PacketsAreNewest
<1>7. RingInOrder' /\ ReaderInOrder' /\ WriterInOrder'
  <2>1. RingInOrder'
    BY <1>2, <1>4 DEF LidarInv, RingInOrder, Ascending, Within
  <2>2. ReaderInOrder'
    BY <1>2, <1>4 DEF LidarInv, ReaderInOrder, Within
  <2>3. WriterInOrder'
    BY <1>2, <1>4 DEF LidarInv, WriterInOrder, Within
  <2> QED
    BY <2>1, <2>2, <2>3
<1>8. TopicInOrder' /\ NodeInOrder'
  BY DEF LidarInv, TopicInOrder, NodeInOrder, Ascending, Within, Newest
<1> QED
  BY <1>2, <1>5, <1>6, <1>7, <1>8 DEF LidarInv

\* The writer takes a packet; the frame it may complete is newer than the ring.
LEMMA TakingKeeps ==
  ASSUME LidarInv, RawDataProcess, UNCHANGED nodeVars
  PROVE  LidarInv'
<1> USE DEF RawDataProcess, nodeVars, ringVars
<1>1. LidarTypeOK /\ PacketsAreNewest
  BY DEF LidarInv
<1>2. /\ RingCount' = RingCount /\ RingFrames' = RingFrames /\ IndicesAgree' /\ RingFrames \in Seq(Nat)
      /\ arrived \in Nat /\ packets \in Seq(Packet) /\ packets # <<>> /\ published \in Nat
  BY <1>1, RingStays, RingTypes DEF LidarTypeOK, DriverTypeOK
<1>3. /\ packets' \in Seq(Packet) /\ Len(packets') = Len(packets) - 1 /\ Len(packets) \in Nat
      /\ Len(packets) >= 1 /\ \A i \in 1..Len(packets') : packets'[i] = packets[i + 1]
  BY <1>2
<1>4. Taken' = Taken + 1 /\ Taken \in Nat /\ Taken + 1 <= arrived
  BY <1>1, <1>2, <1>3 DEF Taken, PacketsAreNewest
<1>5. Head(packets) = Taken + 1
  BY <1>1, <1>2, <1>3 DEF PacketsAreNewest
<1>6. LidarTypeOK'
  <2>1. Head(packets) \in 0..arrived
    BY <1>2, <1>4, <1>5
  <2>2. points' \in 0..arrived /\ writer' \in [at : WriterPlace, frame : 0..arrived]
    BY <1>1, <2>1 DEF LidarTypeOK, DriverTypeOK, At, WriterPlace
  <2>3. DriverTypeOK'
    BY <1>1, <1>3, <2>2 DEF LidarTypeOK, DriverTypeOK
  <2> QED
    BY <1>1, <2>3 DEF LidarTypeOK
<1>7. PacketsAreNewest'
  <2>1. \A i \in 1..(Len(packets) - 1) : packets[i + 1] = Taken + (i + 1)
    BY <1>1, <1>3 DEF PacketsAreNewest
  <2> QED
    BY <1>1, <1>2, <1>3, <1>4, <2>1 DEF PacketsAreNewest
<1>8. Within(published, RingFrames, Taken) /\ published <= Taken /\ \A i \in 1..Len(RingFrames) : RingFrames[i] \in Nat
  BY <1>2 DEF LidarInv, RingInOrder
<1>9. RingInOrder'
  BY <1>2, <1>4, <1>8 DEF LidarInv, RingInOrder, Ascending, Within
<1>10. reader \in [at : ReaderPlace, frame : 0..arrived]
  BY <1>1 DEF LidarTypeOK, DriverTypeOK
<1>11. ReaderInOrder'
  BY <1>2, <1>4, <1>8, <1>10 DEF LidarInv, ReaderInOrder, Within
<1>12. WriterInOrder'
  <2>1. CASE UNCHANGED writer
    BY <1>2, <1>4, <2>1 DEF LidarInv, WriterInOrder
  <2>2. CASE writer' = At("store", Head(packets))
    <3>1. writer'.at = "store" /\ writer'.frame = Taken + 1
      BY <1>5, <2>2 DEF At
    <3>2. Within(0, RingFrames, Taken)
      BY <1>2, <1>8 DEF Within
    <3>3. reader.at = "publish" => Taken + 1 > reader.frame
      BY <1>4, <1>10 DEF LidarInv, ReaderInOrder
    <3> QED
      BY <1>2, <1>4, <1>8, <3>1, <3>2, <3>3 DEF WriterInOrder, Within
  <2> QED
    BY <2>1, <2>2
<1>13. TopicInOrder' /\ NodeInOrder'
  BY DEF LidarInv, TopicInOrder, NodeInOrder, Ascending, Within, Newest
<1> QED
  BY <1>2, <1>6, <1>7, <1>9, <1>11, <1>12, <1>13 DEF LidarInv

\* The frame is stored, or dropped.
LEMMA StoringKeeps ==
  ASSUME LidarInv, StoreFrame, UNCHANGED nodeVars
  PROVE  LidarInv'
<1> USE DEF nodeVars
<1>1. LidarTypeOK
  BY DEF LidarInv
<1>2. /\ UNCHANGED <<arrived, packets, points, wr_idx, rd_idx, count, connected, reader, published,
                     topic, dtor>>
      /\ writer.at = "store" /\ writer \in [at : WriterPlace, frame : 0..arrived]
      /\ slot \in [0..(RingSize - 1) -> 0..arrived]
      /\ wr_idx % RingSize \in 0..(RingSize - 1)
  BY <1>1, RingTypes DEF StoreFrame, LidarTypeOK, DriverTypeOK
<1>3. /\ RingCount' = RingCount /\ RingFrames' = RingFrames /\ IndicesAgree'
      /\ slot' \in [0..(RingSize - 1) -> 0..arrived]
      /\ writer' \in [at : WriterPlace, frame : 0..arrived] /\ writer'.frame = writer.frame
      /\ writer'.at = "dropped" \/ (writer'.at = "bump" /\ RingCount < RingSize
                                      /\ slot'[wr_idx % RingSize] = writer.frame)
  <2>1. CASE QueueIsFull
    <3>1. UNCHANGED ringVars
      BY <1>2, <2>1 DEF StoreFrame, ringVars
    <3> QED
      BY <1>2, <2>1, <3>1, RingStays DEF StoreFrame, WriterPlace, ringVars
  <2>2. CASE ~QueueIsFull
    <3>1. /\ RingCount' = RingCount /\ RingFrames' = RingFrames /\ IndicesAgree' /\ RingCount < RingSize
          /\ slot'[wr_idx % RingSize] = writer.frame
      BY <2>2, StoreKeeps
    <3> QED
      BY <1>2, <2>2, <3>1 DEF StoreFrame, WriterPlace
  <2> QED
    BY <2>1, <2>2
<1>4. LidarTypeOK'
  <2>1. DriverTypeOK'
    BY <1>1, <1>2, <1>3 DEF LidarTypeOK, DriverTypeOK
  <2> QED
    BY <1>1, <1>2, <2>1 DEF LidarTypeOK
<1>5. Taken' = Taken
  BY <1>2 DEF Taken
<1>6. PacketsAreNewest'
  BY <1>2 DEF LidarInv, PacketsAreNewest, Taken
<1>7. RingInOrder'
  BY <1>2, <1>3, <1>5 DEF LidarInv, RingInOrder, Ascending, Within
<1>8. ReaderInOrder'
  BY <1>2, <1>3, <1>5 DEF LidarInv, ReaderInOrder, Within
<1>9. WriterInOrder'
  BY <1>2, <1>3, <1>5 DEF LidarInv, WriterInOrder, Within
<1>10. TopicInOrder' /\ NodeInOrder'
  BY <1>2 DEF LidarInv, TopicInOrder, NodeInOrder, Ascending, Within, Newest
<1> QED
  BY <1>3, <1>4, <1>6, <1>7, <1>8, <1>9, <1>10 DEF LidarInv

\* It joins the frames in the ring.
LEMMA BumpingKeeps ==
  ASSUME LidarInv, BumpWriteIndex, UNCHANGED nodeVars
  PROVE  LidarInv'
<1> USE DEF nodeVars
<1>1. LidarTypeOK
  BY DEF LidarInv
<1>2. /\ UNCHANGED <<arrived, packets, points, slot, rd_idx, count, connected, reader, published,
                     topic, dtor>>
      /\ writer.at = "bump" /\ writer \in [at : WriterPlace, frame : 0..arrived]
      /\ writer' \in [at : WriterPlace, frame : 0..arrived] /\ writer'.at = "pushed"
      /\ wr_idx' = (wr_idx + 1) % IndexMod
  BY <1>1 DEF BumpWriteIndex, LidarTypeOK, DriverTypeOK, WriterPlace
<1>3. /\ RingCount' = RingCount + 1 /\ RingFrames' = Append(RingFrames, writer.frame) /\ IndicesAgree'
      /\ RingCount < RingSize
      /\ writer.frame > published /\ writer.frame <= Taken
      /\ reader.at = "publish" => writer.frame > reader.frame
      /\ Within(0, RingFrames, writer.frame - 1)
  BY <1>2, BumpAppends DEF LidarInv, WriterInOrder
<1>4. /\ RingFrames \in Seq(Nat) /\ Len(RingFrames) = RingCount /\ RingCount \in 0..RingSize /\ published \in Nat
      /\ arrived \in Nat
      /\ wr_idx \in 0..(IndexMod - 1) /\ rd_idx \in 0..(IndexMod - 1)
      /\ writer.frame \in Nat /\ writer.frame - 1 \in Nat
      /\ reader \in [at : ReaderPlace, frame : 0..arrived]
      /\ Taken \in Int
  <2>1. /\ RingFrames \in Seq(Nat) /\ Len(RingFrames) = RingCount /\ RingCount \in 0..RingSize /\ published \in Nat
        /\ arrived \in Nat
        /\ wr_idx \in 0..(IndexMod - 1) /\ rd_idx \in 0..(IndexMod - 1)
    BY <1>1, RingTypes
  <2>2. /\ reader \in [at : ReaderPlace, frame : 0..arrived] /\ packets \in Seq(Packet)
        /\ writer.frame \in 0..arrived
    BY <1>1, <1>2 DEF LidarTypeOK, DriverTypeOK
  <2>3. Len(packets) \in Nat
    BY <2>2
  <2> QED
    BY <1>3, <2>1, <2>2, <2>3 DEF Taken
<1>5. LidarTypeOK'
  <2>1. wr_idx' \in 0..(IndexMod - 1)
    BY <1>2, <1>4, NextSlot
  <2>2. RingCount' <= RingSize
    BY <1>3, <1>4, RingSizes
  <2>3. DriverTypeOK'
    BY <1>1, <1>2, <2>1, <2>2 DEF LidarTypeOK, DriverTypeOK, RingCount, Ahead
  <2> QED
    BY <1>1, <1>2, <2>3 DEF LidarTypeOK
<1>6. Taken' = Taken
  BY <1>2 DEF Taken
<1>7. PacketsAreNewest'
  BY <1>2 DEF LidarInv, PacketsAreNewest, Taken
<1>8. PICK s \in Seq(Nat), n \in Nat, h \in Nat : s = RingFrames /\ n = writer.frame /\ h = n - 1
  BY <1>4
<1>9. /\ Append(s, n) \in Seq(Nat) /\ Len(Append(s, n)) = Len(s) + 1 /\ Len(s) \in Nat
      /\ \A i \in 1..Len(s) : Append(s, n)[i] = s[i] /\ s[i] \in Nat
      /\ Append(s, n)[Len(s) + 1] = n
  OBVIOUS
<1>10. RingFrames' = Append(s, n)
  BY <1>3, <1>8
<1>11. RingInOrder'
  <2>1. Ascending(s) /\ Within(0, s, n - 1) /\ Within(published, s, Taken) /\ published <= Taken
    BY <1>3, <1>8 DEF LidarInv, RingInOrder
  <2>2. PICK p \in Nat : p = published
    BY <1>4
  <2>3. Within(p, s, h) /\ h < n /\ p < n
    BY <1>3, <1>8, <1>9, <2>1, <2>2 DEF Within
  <2>4. Ascending(Append(s, n)) /\ Within(p, Append(s, n), n)
    BY <2>1, <2>3, SortedAppend
  <2>5. Within(published, Append(s, n), Taken)
    BY <1>3, <1>4, <1>8, <2>2, <2>4, <1>9 DEF Within
  <2> QED
    BY <1>2, <1>6, <1>10, <2>1, <2>4, <2>5 DEF RingInOrder, Ascending, Within
<1>12. ReaderInOrder'
  <2>1. CASE reader.at = "pop"
    <3>1. RingCount > 0 /\ reader.frame = RingFrames[1]
      BY <2>1 DEF LidarInv, ReaderInOrder
    <3>2. Append(s, n)[1] = s[1]
      BY <1>4, <1>8, <1>9, <3>1
    <3> QED
      BY <1>2, <1>3, <1>4, <1>8, <1>10, <2>1, <3>1, <3>2 DEF ReaderInOrder
  <2>2. CASE reader.at = "publish"
    <3>1. /\ reader.frame > published /\ reader.frame <= Taken
          /\ Within(reader.frame, s, Taken) /\ reader.frame < n /\ n <= Taken
      BY <1>3, <1>8, <2>2 DEF LidarInv, ReaderInOrder
    <3>2. PICK p \in Nat : p = reader.frame
      BY <1>4
    <3>3. Within(p, s, h) /\ Ascending(s) /\ h < n /\ p < n
      BY <1>3, <1>8, <1>9, <3>1, <3>2 DEF Within, LidarInv, RingInOrder
    <3>4. Within(p, Append(s, n), n)
      BY <3>3, SortedAppend
    <3>5. Within(reader.frame, Append(s, n), Taken)
      <4>1. PICK u \in Seq(Nat), high \in Int : u = Append(s, n) /\ high = Taken
        BY <1>4, <1>9
      <4>2. Within(p, u, n) /\ n <= high
        BY <3>1, <3>4, <4>1
      <4>3. Within(p, u, high)
        BY ONLY <4>2, p \in Nat, n \in Nat, high \in Int, u \in Seq(Nat) DEF Within
      <4> QED
        BY <3>2, <4>1, <4>3
    <3> QED
      BY <1>2, <1>6, <1>10, <2>2, <3>1, <3>5 DEF ReaderInOrder, Within
  <2> QED
    BY <1>2, <2>1, <2>2 DEF ReaderInOrder
<1>13. WriterInOrder'
  BY <1>2 DEF WriterInOrder
<1>14. TopicInOrder' /\ NodeInOrder'
  BY <1>2 DEF LidarInv, TopicInOrder, NodeInOrder, Ascending, Within, Newest
<1> QED
  BY <1>3, <1>5, <1>7, <1>11, <1>12, <1>13, <1>14 DEF LidarInv

\* The ring alone, and the frames of the writer and the reader where they are.
LEMMA RestKeeps ==
  ASSUME LidarInv, DriverTypeOK', UNCHANGED nodeVars,
         UNCHANGED <<arrived, packets, slot, wr_idx, rd_idx, published, topic>>,
         ReaderInOrder', WriterInOrder'
  PROVE  LidarInv'
<1>1. LidarTypeOK
  BY DEF LidarInv
<1>2. LidarTypeOK'
  BY <1>1 DEF LidarTypeOK, nodeVars
<1>3. RingFrames' = RingFrames /\ IndicesAgree'
  BY RingStays DEF ringVars
<1>4. PacketsAreNewest' /\ Taken' = Taken
  BY DEF LidarInv, PacketsAreNewest, Taken
<1>5. RingInOrder'
  BY <1>3, <1>4 DEF LidarInv, RingInOrder, Ascending, Within
<1>6. TopicInOrder' /\ NodeInOrder'
  BY DEF LidarInv, TopicInOrder, NodeInOrder, Ascending, Within, Newest, nodeVars
<1> QED
  BY <1>2, <1>3, <1>4, <1>5, <1>6 DEF LidarInv

\* The steps that only move a thread, count or say where the node is.
LEMMA MovingKeeps ==
  ASSUME LidarInv, UNCHANGED nodeVars,
         \/ SignalReader \/ Distribute \/ Wait \/ Poll \/ PollingLidarPointCloudData
         \/ PollThreadEnds \/ Sampling \/ Destructor
  PROVE  LidarInv'
<1> USE DEF LidarInv, ringVars
<1>1. LidarTypeOK /\ DriverTypeOK /\ RingFrames' = RingFrames /\ RingCount' = RingCount /\ Taken' = Taken
  BY RingStays DEF LidarTypeOK, Taken, SignalReader, Distribute, Wait, Poll,
     PollingLidarPointCloudData, PollThreadEnds, Sampling, Destructor
<1>2. UNCHANGED <<arrived, packets, points, slot, wr_idx, rd_idx, published, topic>>
  BY DEF SignalReader, Distribute, Wait, Poll, PollingLidarPointCloudData, PollThreadEnds,
     Sampling, Destructor
<1>3. writer' \in [at : WriterPlace, frame : 0..arrived] /\ reader' \in [at : ReaderPlace, frame : 0..arrived]
  BY <1>1, DriverLimits DEF DriverTypeOK, SignalReader, Distribute, Wait, Poll,
     PollingLidarPointCloudData, PollThreadEnds, Sampling, Destructor, At, WriterPlace, ReaderPlace
<1>4. count' \in 0..1
  BY <1>1 DEF DriverTypeOK, SignalReader, Distribute, Wait, Poll, PollingLidarPointCloudData,
     PollThreadEnds, Sampling, Destructor
<1>5. connected' \in BOOLEAN
  BY <1>1 DEF DriverTypeOK, SignalReader, Distribute, Wait, Poll, PollingLidarPointCloudData,
     PollThreadEnds, Sampling, Destructor
<1>6. dtor' \in {"no", "exit", "future", "joined"}
  BY <1>1 DEF DriverTypeOK, SignalReader, Distribute, Wait, Poll, PollingLidarPointCloudData,
     PollThreadEnds, Sampling, Destructor
<1>7. DriverTypeOK'
  BY <1>1, <1>2, <1>3, <1>4, <1>5, <1>6 DEF DriverTypeOK
<1>8. reader' = reader \/ reader'.at \notin {"pop", "publish"}
  BY DEF SignalReader, Distribute, Wait, Poll, PollingLidarPointCloudData,
     PollThreadEnds, Sampling, Destructor, At
<1>9. writer' = writer \/ writer'.at = "idle"
  BY DEF SignalReader, Distribute, Wait, Poll, PollingLidarPointCloudData,
     PollThreadEnds, Sampling, Destructor, At
<1>10. ReaderInOrder'
  BY <1>1, <1>2, <1>8 DEF ReaderInOrder, Within
<1>11. WriterInOrder'
  BY <1>1, <1>2, <1>8, <1>9 DEF WriterInOrder, Within
<1> QED
  BY <1>2, <1>7, <1>10, <1>11, RestKeeps

\* The reader copies the oldest frame.
LEMMA DrainKeeps ==
  ASSUME LidarInv, Drain, UNCHANGED nodeVars
  PROVE  LidarInv'
<1> USE DEF ringVars
<1>1. LidarTypeOK /\ DriverTypeOK /\ RingFrames' = RingFrames /\ RingCount' = RingCount /\ Taken' = Taken
  BY RingStays DEF LidarInv, LidarTypeOK, Taken, Drain
<1>2. UNCHANGED <<arrived, packets, points, writer, slot, wr_idx, rd_idx, count, connected,
                  published, topic, dtor>>
  BY DEF Drain
<1>3. CASE QueueIsEmpty
  <2>1. reader' = At("ring", 0)
    BY <1>3 DEF Drain
  <2>2. reader' \in [at : ReaderPlace, frame : 0..arrived] /\ reader'.at = "ring"
    BY <1>1, <2>1 DEF DriverTypeOK, At, ReaderPlace
  <2>3. DriverTypeOK'
    BY <1>1, <1>2, <2>2 DEF DriverTypeOK
  <2>4. ReaderInOrder' /\ WriterInOrder'
    BY <1>1, <1>2, <2>2 DEF LidarInv, ReaderInOrder, WriterInOrder, Within
  <2> QED
    BY <1>2, <2>3, <2>4, RestKeeps
<1>4. CASE ~QueueIsEmpty
  <2>1. reader' = At("pop", slot[rd_idx % RingSize])
    BY <1>4 DEF Drain
  <2>2. rd_idx % RingSize \in 0..(RingSize - 1) /\ RingCount \in Nat /\ RingCount > 0
    <3>1. PICK w \in 0..(IndexMod - 1), r \in 0..(IndexMod - 1) : w = wr_idx /\ r = rd_idx
      BY <1>1, RingTypes
    <3>2. Ahead(w, r) \in Nat /\ Ahead(w, r) > 0
      BY <1>4, <3>1, AheadIs, RingSizes DEF QueueIsEmpty
    <3> QED
      BY <1>1, <3>1, <3>2, RingTypes DEF RingCount
  <2>3. reader' \in [at : ReaderPlace, frame : 0..arrived] /\ reader'.at = "pop"
    BY <1>1, <2>1, <2>2 DEF DriverTypeOK, At, ReaderPlace
  <2>4. reader'.frame = RingFrames[1]
    <3>1. RingFrames[1] = slot[InRing((rd_idx % RingSize) + (1 - 1))]
      BY <1>1, <2>2, RingTypes
    <3>2. InRing((rd_idx % RingSize) + (1 - 1)) = rd_idx % RingSize
      BY <2>2, RingSizes DEF InRing
    <3> QED
      BY <2>1, <3>1, <3>2 DEF At
  <2>5. DriverTypeOK'
    BY <1>1, <1>2, <2>3 DEF DriverTypeOK
  <2>6. ReaderInOrder'
    BY <1>1, <2>2, <2>3, <2>4 DEF ReaderInOrder
  <2>7. WriterInOrder'
    BY <1>1, <1>2, <2>3 DEF LidarInv, WriterInOrder, Within
  <2> QED
    BY <1>2, <2>5, <2>6, <2>7, RestKeeps
<1> QED
  BY <1>3, <1>4

\* The reader takes the frame it copied out of the ring.
LEMMA PoppingKeeps ==
  ASSUME LidarInv, QueuePopUpdate, UNCHANGED nodeVars
  PROVE  LidarInv'
<1> USE DEF nodeVars
<1>1. LidarTypeOK /\ DriverTypeOK
  BY DEF LidarInv, LidarTypeOK
<1>2. /\ UNCHANGED <<arrived, packets, points, writer, slot, wr_idx, count, connected, published,
                     topic, dtor>>
      /\ reader' = [reader EXCEPT !.at = "publish"] /\ reader.at = "pop"
      /\ rd_idx' = (rd_idx + 1) % IndexMod
  BY DEF QueuePopUpdate
<1>3. /\ reader' \in [at : ReaderPlace, frame : 0..arrived]
      /\ reader'.at = "publish" /\ reader'.frame = reader.frame
      /\ reader.frame = RingFrames[1] /\ reader.frame \in Nat
  BY <1>1, <1>2 DEF DriverTypeOK, ReaderPlace, LidarInv, ReaderInOrder
<1>4. RingCount > 0 /\ RingCount' = RingCount - 1 /\ RingFrames' = Tail(RingFrames) /\ IndicesAgree'
  BY PopTakes
<1>5. /\ RingFrames \in Seq(Nat) /\ Len(RingFrames) = RingCount /\ RingCount \in 0..RingSize
      /\ rd_idx \in 0..(IndexMod - 1) /\ wr_idx \in 0..(IndexMod - 1)
      /\ published \in Nat /\ RingSize \in Nat
  BY <1>1, RingTypes, RingSizes
<1>6. LidarTypeOK'
  <2>1. rd_idx' \in 0..(IndexMod - 1)
    BY <1>2, <1>5, NextSlot
  <2>2. RingCount' <= RingSize
    BY <1>4, <1>5
  <2>3. DriverTypeOK'
    BY <1>1, <1>2, <1>3, <2>1, <2>2 DEF DriverTypeOK, RingCount, Ahead
  <2> QED
    BY <1>1, <1>2, <2>3 DEF LidarTypeOK
<1>7. Taken' = Taken /\ PacketsAreNewest'
  BY <1>2 DEF LidarInv, PacketsAreNewest, Taken
<1>8. PICK s \in Seq(Nat), p \in Nat, t \in Nat :
        s = RingFrames /\ p = published /\ t = Taken
  <2>1. Taken \in Nat
    BY <1>1 DEF LidarInv, PacketsAreNewest, Taken, DriverTypeOK
  <2> QED
    BY <1>5, <2>1
<1>9. /\ Tail(s) \in Seq(Nat) /\ Len(Tail(s)) = Len(s) - 1
      /\ s[1] \in Nat /\ p < s[1] /\ s[1] <= t
      /\ Ascending(Tail(s)) /\ Within(s[1], Tail(s), t) /\ Within(p, Tail(s), t)
  <2>1. Ascending(s) /\ Within(p, s, t) /\ s # <<>>
    BY <1>4, <1>5, <1>8 DEF LidarInv, RingInOrder
  <2> QED
    BY <2>1, SortedTail
<1>10. RingFrames' = Tail(s) /\ reader.frame = s[1]
  BY <1>3, <1>4, <1>8
<1>11. RingInOrder'
  BY <1>2, <1>7, <1>8, <1>9, <1>10 DEF LidarInv, RingInOrder, Ascending, Within
<1>12. ReaderInOrder'
  BY <1>2, <1>3, <1>7, <1>8, <1>9, <1>10 DEF ReaderInOrder, Within
<1>13. WriterInOrder'
  <2>1. ASSUME writer.at \in {"store", "bump"}
        PROVE  /\ writer.frame > published /\ writer.frame <= Taken /\ writer.frame > s[1]
               /\ Within(0, Tail(s), writer.frame - 1)
    <3>1. /\ writer.frame > published /\ writer.frame <= Taken
          /\ Within(0, s, writer.frame - 1) /\ writer.frame \in Nat
      BY <1>1, <1>8, <2>1 DEF LidarInv, WriterInOrder, DriverTypeOK
    <3>2. 1 \in 1..Len(s) /\ \A i \in 1..Len(Tail(s)) : Tail(s)[i] = s[i + 1] /\ i + 1 \in 1..Len(s)
      BY <1>4, <1>5, <1>8
    <3> QED
      BY <3>1, <3>2, <1>9 DEF Within
  <2>2. writer.at = "bump" => RingCount' < RingSize /\ slot[wr_idx % RingSize] = writer.frame
    BY <1>4, <1>5 DEF LidarInv, WriterInOrder
  <2> QED
    BY <1>2, <1>3, <1>7, <1>10, <2>1, <2>2 DEF WriterInOrder, Within
<1>14. TopicInOrder' /\ NodeInOrder'
  BY <1>2 DEF LidarInv, TopicInOrder, NodeInOrder, Ascending, Within, Newest
<1> QED
  BY <1>4, <1>6, <1>7, <1>11, <1>12, <1>13, <1>14 DEF LidarInv

\* The topic, when a newer frame is added to it and the oldest may be dropped.
LEMMA TopicSorted ==
  ASSUME NEW s \in Seq(Packet), Len(s) <= Depth, NEW n \in Packet, NEW low \in Nat, NEW high \in Nat,
         Ascending(s), Within(low, s, high), high < n, low < n
  PROVE  /\ KeepLast(Append(s, n)) \in Seq(Packet) /\ Len(KeepLast(Append(s, n))) <= Depth
         /\ Ascending(KeepLast(Append(s, n))) /\ Within(low, KeepLast(Append(s, n)), n)
<1>1. s \in Seq(Nat) /\ n \in Nat /\ Depth \in Nat /\ Depth > 0
  BY DriverLimits DEF Packet
<1>2. PICK t : t = Append(s, n)
  OBVIOUS
<1>3. t \in Seq(Packet) /\ t \in Seq(Nat) /\ Len(t) = Len(s) + 1 /\ Ascending(t) /\ Within(low, t, n)
  BY <1>1, <1>2, SortedAppend
<1>4. t # <<>> /\ Len(s) \in Nat
  BY <1>3
<1>5. /\ Tail(t) \in Seq(Packet) /\ Len(Tail(t)) = Len(t) - 1
      /\ Ascending(Tail(t)) /\ Within(low, Tail(t), n)
  BY <1>1, <1>3, <1>4, SortedTail
<1>6. KeepLast(t) = IF Len(t) > Depth THEN Tail(t) ELSE t
  BY DEF KeepLast
<1>7. KeepLast(t) \in Seq(Packet) /\ Len(KeepLast(t)) <= Depth
  BY <1>1, <1>3, <1>4, <1>5, <1>6
<1>8. Ascending(KeepLast(t)) /\ Within(low, KeepLast(t), n)
  BY <1>3, <1>5, <1>6
<1> QED
  BY <1>2, <1>7, <1>8

LEMMA PublishingKeeps ==
  ASSUME LidarInv, PublishPointcloud2, UNCHANGED nodeVars
  PROVE  LidarInv' /\ published' \in (published + 1)..arrived
<1> USE DEF nodeVars
<1>1. LidarTypeOK /\ DriverTypeOK
  BY DEF LidarInv, LidarTypeOK
<1>2. /\ UNCHANGED <<arrived, packets, points, writer, ringVars, count, connected, dtor>>
      /\ UNCHANGED <<slot, wr_idx, rd_idx>>
      /\ reader.at = "publish" /\ reader'.at = "drain"
      /\ reader' \in [at : ReaderPlace, frame : 0..arrived]
      /\ published' = reader.frame /\ topic' = KeepLast(Append(topic, reader.frame))
  BY <1>1 DEF PublishPointcloud2, At, ReaderPlace, ringVars, DriverTypeOK
<1>3. /\ RingFrames' = RingFrames /\ RingCount' = RingCount /\ IndicesAgree'
      /\ Taken' = Taken /\ PacketsAreNewest' /\ Taken \in Nat /\ Taken <= arrived
  BY <1>1, <1>2, RingStays DEF LidarInv, PacketsAreNewest, Taken, DriverTypeOK
<1>4. /\ reader.frame > published /\ reader.frame <= Taken
      /\ Within(reader.frame, RingFrames, Taken)
      /\ reader.frame \in Nat /\ published \in Nat /\ arrived \in Nat /\ handled \in Nat
      /\ arrived <= MaxPackets /\ MaxPackets \in Nat
  BY <1>1, <1>2, RingTypes, DriverLimits DEF LidarInv, ReaderInOrder, DriverTypeOK
<1>5. /\ published' \in (published + 1)..arrived
      /\ reader.frame \in Packet
  BY <1>2, <1>3, <1>4 DEF Packet
<1>6. /\ topic' \in Seq(Packet) /\ Len(topic') <= Depth
      /\ Ascending(topic') /\ Within(handled, topic', reader.frame)
  <2>1. PICK s \in Seq(Packet), n \in Packet, low \in Nat, high \in Nat :
          s = topic /\ n = reader.frame /\ low = handled /\ high = published
    BY <1>1, <1>4, <1>5 DEF DriverTypeOK
  <2>2. Len(s) <= Depth /\ Ascending(s) /\ Within(low, s, high) /\ high < n /\ low < n
    BY <1>1, <1>4, <2>1 DEF DriverTypeOK, LidarInv, TopicInOrder
  <2>3. /\ KeepLast(Append(s, n)) \in Seq(Packet) /\ Len(KeepLast(Append(s, n))) <= Depth
        /\ Ascending(KeepLast(Append(s, n))) /\ Within(low, KeepLast(Append(s, n)), n)
    BY <2>2, TopicSorted
  <2> QED
    BY <1>2, <2>1, <2>3
<1>7. LidarTypeOK'
  <2>1. DriverTypeOK'
    BY <1>1, <1>2, <1>5, <1>6, <1>4 DEF DriverTypeOK
  <2>2. handled \in 0..published' /\ sent \in 0..published'
    BY <1>1, <1>4, <1>5 DEF LidarTypeOK
  <2> QED
    BY <1>1, <1>2, <2>1, <2>2 DEF LidarTypeOK
<1>8. RingInOrder'
  BY <1>2, <1>3, <1>4 DEF LidarInv, RingInOrder, Ascending, Within
<1>9. ReaderInOrder'
  BY <1>2 DEF ReaderInOrder
<1>10. WriterInOrder'
  BY <1>2, <1>3, <1>4 DEF LidarInv, WriterInOrder, Within
<1>11. TopicInOrder'
  <2>1. handled <= reader.frame
    BY <1>4 DEF LidarInv, TopicInOrder
  <2> QED
    BY <1>2, <1>6, <2>1 DEF TopicInOrder, Ascending, Within
<1>12. NodeInOrder'
  BY DEF LidarInv, NodeInOrder, Newest
<1> QED
  BY <1>3, <1>5, <1>7, <1>8, <1>9, <1>10, <1>11, <1>12 DEF LidarInv
-----------------------------------------------------------------------------
(* The node                                                                *)

LEMMA PushIs ==
  ASSUME NEW s \in Seq(Packet), NEW max \in Nat, max > 0, Len(s) <= max, NEW n \in Packet
  PROVE  /\ Push(s, n, max) \in Seq(Packet) /\ Len(Push(s, n, max)) <= max
         /\ Push(s, n, max) # <<>> /\ Newest(Push(s, n, max)) = n
<1>1. /\ Append(s, n) \in Seq(Packet) /\ Len(Append(s, n)) = Len(s) + 1 /\ Len(s) \in Nat
      /\ Append(s, n)[Len(s) + 1] = n
  OBVIOUS
<1>2. ASSUME Len(s) >= max
      PROVE  LET t == Append(Tail(s), n)
             IN  t \in Seq(Packet) /\ Len(t) = Len(s) /\ t[Len(s)] = n
  <2>1. Tail(s) \in Seq(Packet) /\ Len(Tail(s)) = Len(s) - 1
    BY <1>1, <1>2
  <2> QED
    BY <1>1, <2>1
<1> QED
  BY <1>1, <1>2 DEF Push, Newest

LEMMA PacketsAreNumbers ==
  ASSUME NEW s \in Seq(Packet)
  PROVE  s \in Seq(Nat) /\ Newest(s) \in Nat
<1>1. \A i \in 1..Len(s) : s[i] \in Nat
  <2>1. Packet \subseteq Nat
    BY DEF Packet
  <2>2. \A i \in 1..Len(s) : s[i] \in Packet
    OBVIOUS
  <2> QED
    BY <2>1, <2>2
<1>2. Len(s) \in Nat /\ (s # <<>> => Len(s) \in 1..Len(s))
  OBVIOUS
<1> QED
  BY <1>1, <1>2 DEF Newest

LEMMA CallbackKeeps ==
  ASSUME LidarInv, PointCloudCallback
  PROVE  LidarInv' /\ (Newest(targets)' = Newest(targets)
                         \/ Newest(targets)' \in (Newest(targets) + 1)..published)
<1>1. LidarTypeOK /\ DriverTypeOK
  BY DEF LidarInv, LidarTypeOK
<1>2. /\ UNCHANGED <<arrived, packets, points, writer, ringVars, count, connected, reader, published,
                     dtor, sent, pose, scans>>
      /\ UNCHANGED <<slot, wr_idx, rd_idx>>
      /\ topic # <<>> /\ topic' = Tail(topic)
  BY DEF PointCloudCallback, ringVars
<1>3. PICK n : n = Head(topic)
  OBVIOUS
<1>4. /\ handled' = n /\ Keeps(n)
      /\ accumulated' = accumulated \/ accumulated' = Push(accumulated, n, AccumulateTime)
      /\ targets' = IF tf /\ accumulated' # <<>> THEN accumulated' ELSE targets
      /\ accumulated' # accumulated => tf
  BY <1>3 DEF PointCloudCallback
<1>5. /\ n \in Packet /\ handled < n /\ n <= published /\ handled \in Nat /\ published \in Nat
      /\ topic' \in Seq(Packet) /\ Len(topic') <= Depth
      /\ Ascending(topic') /\ Within(n, topic', published)
  <2>1. PICK s \in Seq(Packet), low \in Nat, high \in Nat :
          s = topic /\ low = handled /\ high = published
    BY <1>1, RingTypes DEF DriverTypeOK
  <2>2. /\ s \in Seq(Nat) /\ s # <<>> /\ Ascending(s) /\ Within(low, s, high) /\ Len(s) <= Depth
    BY <1>1, <1>2, <2>1, PacketsAreNumbers DEF LidarInv, TopicInOrder, DriverTypeOK
  <2>3. /\ Len(Tail(s)) = Len(s) - 1 /\ s[1] \in Nat /\ low < s[1] /\ s[1] <= high
        /\ Ascending(Tail(s)) /\ Within(s[1], Tail(s), high)
    BY <2>2, SortedTail
  <2>4. s[1] \in Packet /\ Head(s) = s[1] /\ Tail(s) \in Seq(Packet) /\ Len(s) \in Nat
    BY <2>2
  <2>5. Len(Tail(s)) <= Depth
    BY <2>2, <2>3, <2>4, DriverLimits
  <2> QED
    BY <1>2, <1>3, <2>1, <2>3, <2>4, <2>5
<1>6. /\ pcd_queue' \in Seq(Packet) /\ Len(pcd_queue') <= QueueMax
      /\ Newest(pcd_queue') = Newest(pcd_queue) \/ Newest(pcd_queue') = n
  <2>1. pcd_queue \in Seq(Packet) /\ Len(pcd_queue) <= QueueMax /\ QueueMax \in Nat /\ QueueMax > 0
    BY <1>1, NodeAssumption DEF LidarTypeOK
  <2>2. PICK s \in Seq(Packet) : s = pcd_queue
    BY <2>1
  <2>3. /\ Push(s, n, QueueMax) \in Seq(Packet) /\ Len(Push(s, n, QueueMax)) <= QueueMax
        /\ Newest(Push(s, n, QueueMax)) = n
    BY <1>5, <2>1, <2>2, PushIs
  <2> QED
    BY <1>4, <2>1, <2>2, <2>3 DEF Keeps
<1>7. /\ accumulated' \in Seq(Packet) /\ Len(accumulated') <= AccumulateTime
      /\ \/ accumulated' = accumulated
         \/ accumulated' # <<>> /\ Newest(accumulated') = n
  <2>1. /\ accumulated \in Seq(Packet) /\ Len(accumulated) <= AccumulateTime
        /\ AccumulateTime \in Nat /\ AccumulateTime > 0
    BY <1>1, NodeAssumption DEF LidarTypeOK
  <2>2. PICK s \in Seq(Packet) : s = accumulated
    BY <2>1
  <2>3. /\ Push(s, n, AccumulateTime) \in Seq(Packet)
        /\ Len(Push(s, n, AccumulateTime)) <= AccumulateTime
        /\ Push(s, n, AccumulateTime) # <<>> /\ Newest(Push(s, n, AccumulateTime)) = n
    BY <1>5, <2>1, <2>2, PushIs
  <2> QED
    BY <1>4, <2>1, <2>2, <2>3
<1>8. targets = accumulated /\ Newest(accumulated) <= handled /\ Newest(pcd_queue) <= handled /\ sent <= handled
  BY DEF LidarInv, NodeInOrder
<1>9. targets' = accumulated'
  BY <1>4, <1>7, <1>8
<1>10. Newest(accumulated) \in Nat /\ Newest(pcd_queue) \in Nat
  <2>1. PICK s \in Seq(Packet), t \in Seq(Packet) : s = accumulated /\ t = pcd_queue
    BY <1>1 DEF LidarTypeOK
  <2>2. Newest(s) \in Nat /\ Newest(t) \in Nat
    BY PacketsAreNumbers
  <2> QED
    BY <2>1, <2>2
<1>11. NodeInOrder'
  <2>1. Newest(accumulated') <= n /\ Newest(pcd_queue') <= n /\ sent <= n
    <3>1. Newest(accumulated') = Newest(accumulated) \/ Newest(accumulated') = n
      BY <1>7
    <3>2. n \in Nat /\ sent \in Nat
      BY <1>1, <1>5 DEF Packet, LidarTypeOK
    <3> QED
      BY <1>5, <1>6, <1>8, <1>10, <3>1, <3>2
  <2> QED
    BY <1>2, <1>4, <1>9, <2>1 DEF NodeInOrder, Newest
<1>12. LidarTypeOK'
  <2>1. DriverTypeOK'
    BY <1>1, <1>2, <1>5 DEF DriverTypeOK
  <2>2. handled' \in 0..published
    BY <1>4, <1>5 DEF Packet
  <2> QED
    BY <1>1, <1>2, <1>6, <1>7, <1>9, <2>1, <2>2 DEF LidarTypeOK
<1>13. /\ RingFrames' = RingFrames /\ RingCount' = RingCount /\ IndicesAgree' /\ Taken' = Taken /\ PacketsAreNewest'
  BY <1>2, RingStays DEF LidarInv, PacketsAreNewest, Taken
<1>14. RingInOrder'
  BY <1>2, <1>13 DEF LidarInv, RingInOrder, Ascending, Within
<1>15. ReaderInOrder' /\ WriterInOrder'
  BY <1>2, <1>13 DEF LidarInv, ReaderInOrder, WriterInOrder, Within
<1>16. TopicInOrder'
  BY <1>2, <1>4, <1>5 DEF TopicInOrder, Ascending, Within
<1>17. Newest(targets') = Newest(targets) \/ Newest(targets') \in (Newest(targets) + 1)..published
  BY <1>5, <1>7, <1>8, <1>9, <1>10 DEF Packet
<1> QED
  BY <1>11, <1>12, <1>13, <1>14, <1>15, <1>16, <1>17 DEF LidarInv, Newest

LEMMA SendingKeeps ==
  ASSUME LidarInv, PublishRaw \/ RegistrationStep
  PROVE  LidarInv' /\ targets' = targets
<1>1. LidarTypeOK /\ DriverTypeOK
  BY DEF LidarInv, LidarTypeOK
<1>2. UNCHANGED <<arrived, packets, points, writer, ringVars, count, connected, reader, published,
                  dtor, topic, handled, pcd_queue, accumulated, targets, slot, wr_idx, rd_idx>>
  BY DEF PublishRaw, RegistrationStep, driverVars, ringVars
<1>3. sent' = sent \/ sent' = Newest(pcd_queue)
  BY DEF PublishRaw, RegistrationStep
<1>4. pose' \in {"none", "given", "config", "sent"} /\ scans' \in 0..2
  <2>1. CASE PublishRaw
    BY <1>1, <2>1 DEF PublishRaw, LidarTypeOK
  <2>2. CASE RegistrationStep
    BY <1>1, <2>2 DEF RegistrationStep, TakeConfigPose, InitialPoseCb, CountScan, QuatroAligns,
       QuatroFails, TimerCb, FirstTransform, LidarTypeOK
  <2> QED
    BY <2>1, <2>2
<1>5. Newest(pcd_queue) \in Nat /\ Newest(pcd_queue) <= handled /\ handled \in Nat /\ published \in Nat
  <2>1. PICK s \in Seq(Packet) : s = pcd_queue
    BY <1>1 DEF LidarTypeOK
  <2>2. Newest(s) \in Nat
    BY PacketsAreNumbers
  <2> QED
    BY <1>1, <2>1, <2>2, RingTypes DEF LidarInv, NodeInOrder
<1>6. sent' \in 0..published /\ sent' <= handled
  BY <1>1, <1>3, <1>5 DEF LidarTypeOK, LidarInv, NodeInOrder
<1>7. LidarTypeOK'
  <2>1. DriverTypeOK'
    BY <1>1, <1>2 DEF DriverTypeOK
  <2> QED
    BY <1>1, <1>2, <1>4, <1>6, <2>1 DEF LidarTypeOK
<1>8. /\ RingFrames' = RingFrames /\ RingCount' = RingCount /\ IndicesAgree' /\ Taken' = Taken /\ PacketsAreNewest'
  BY <1>2, RingStays DEF LidarInv, PacketsAreNewest, Taken
<1>9. RingInOrder'
  BY <1>2, <1>8 DEF LidarInv, RingInOrder, Ascending, Within
<1>10. ReaderInOrder' /\ WriterInOrder'
  BY <1>2, <1>8 DEF LidarInv, ReaderInOrder, WriterInOrder, Within
<1>11. TopicInOrder' /\ NodeInOrder'
  BY <1>2, <1>6 DEF LidarInv, TopicInOrder, NodeInOrder, Ascending, Within, Newest
<1> QED
  BY <1>2, <1>7, <1>8, <1>9, <1>10, <1>11 DEF LidarInv
-----------------------------------------------------------------------------
LEMMA LidarNextInv == LidarInv /\ [LidarNext]_lidarVars => LidarInv'
<1> SUFFICES ASSUME LidarInv, [LidarNext]_lidarVars PROVE LidarInv'
  OBVIOUS
<1>1. CASE DriverNext /\ UNCHANGED nodeVars
  BY <1>1, ArrivalKeeps, TakingKeeps, StoringKeeps, BumpingKeeps, MovingKeeps, DrainKeeps,
     PoppingKeeps, PublishingKeeps DEF DriverNext, WriterStep, ReaderStep
<1>2. CASE PointCloudCallback
  BY <1>2, CallbackKeeps
<1>3. CASE PublishRaw \/ RegistrationStep
  BY <1>3, SendingKeeps
<1>4. CASE UNCHANGED lidarVars
  <2>1. UNCHANGED driverVars /\ UNCHANGED nodeVars
    BY <1>4 DEF lidarVars
  <2>2. DriverTypeOK'
    BY <2>1 DEF driverVars, ringVars, LidarInv, LidarTypeOK, DriverTypeOK
  <2>3. UNCHANGED <<arrived, packets, slot, wr_idx, rd_idx, published, topic, reader, writer>>
    BY <2>1 DEF driverVars, ringVars
  <2>4. RingFrames' = RingFrames /\ RingCount' = RingCount /\ Taken' = Taken
    BY <2>3, RingStays DEF ringVars, Taken
  <2>5. ReaderInOrder' /\ WriterInOrder'
    BY <2>3, <2>4 DEF LidarInv, ReaderInOrder, WriterInOrder, Within
  <2> QED
    BY <2>1, <2>2, <2>3, <2>5, RestKeeps
<1> QED
  BY <1>1, <1>2, <1>3, <1>4 DEF LidarNext

\* The invariant holds in every reachable state, for any ring whose indices wrap
\* after whole rounds of it.
THEOREM LidarInvariance == LidarSpec => []LidarInv
  BY LidarInitInv, LidarNextInv, PTL DEF LidarSpec

\* Type correctness of the driver and the node: the unlocked ring never holds
\* more than it has slots, and its indices stay in their 32 bits.
THEOREM LidarTypes == LidarSpec => []LidarTypeOK
<1>1. LidarInv => LidarTypeOK
  BY DEF LidarInv
<1> QED
  BY <1>1, LidarInvariance, PTL

\* From the packets to target_pointcloud, frames are skipped and never repeated
\* or reordered (QueuePushAny and QueuePopUpdate without a lock, the topic, the
\* callback of DynamicCloudNode): the driver and the node implement LatestFrame.
THEOREM CloudsComeInOrder == LidarSpec => CloudsInOrder
<1>1. LidarInit => Clouds!Init
  BY DEF LidarInit, DriverInit, NodeInit, Clouds!Init, Newest
<1>2. LidarInv /\ [LidarNext]_lidarVars => [Clouds!Next]_(Clouds!vars)
  <2> SUFFICES ASSUME LidarInv, [LidarNext]_lidarVars PROVE [Clouds!Next]_(Clouds!vars)
    OBVIOUS
  <2>1. CASE OnLivoxLidarPointCloudCallback /\ UNCHANGED nodeVars
    BY <2>1 DEF OnLivoxLidarPointCloudCallback, nodeVars, Newest, Clouds!Next, Clouds!Capture
  <2>2. CASE PublishPointcloud2 /\ UNCHANGED nodeVars
    <3>1. published' \in (published + 1)..arrived
      BY <2>2, PublishingKeeps
    <3>2. arrived' = arrived /\ Newest(targets)' = Newest(targets)
      BY <2>2 DEF PublishPointcloud2, nodeVars, Newest
    <3> QED
      BY <3>1, <3>2 DEF Clouds!Next, Clouds!Publish
  <2>3. CASE PointCloudCallback
    <3>1. Newest(targets)' = Newest(targets) \/ Newest(targets)' \in (Newest(targets) + 1)..published
      BY <2>3, CallbackKeeps
    <3>2. arrived' = arrived /\ published' = published
      BY <2>3 DEF PointCloudCallback
    <3> QED
      BY <3>1, <3>2 DEF Clouds!Next, Clouds!Show, Clouds!vars
  <2>4. CASE \/ PublishRaw \/ RegistrationStep \/ UNCHANGED lidarVars
             \/ /\ WriterStep \/ Sampling \/ Destructor \/ (ReaderStep /\ ~PublishPointcloud2)
                /\ UNCHANGED nodeVars
    <3>1. arrived' = arrived /\ published' = published /\ targets' = targets
      BY <2>4 DEF PublishRaw, RegistrationStep, lidarVars, nodeVars, driverVars, WriterStep, RawDataProcess,
         StoreFrame, BumpWriteIndex, SignalReader, Sampling, Destructor, ReaderStep, Distribute, Wait,
         Poll, PollingLidarPointCloudData, Drain, QueuePopUpdate, PollThreadEnds
    <3> QED
      BY <3>1 DEF Newest, Clouds!vars
  <2> QED
    BY <2>1, <2>2, <2>3, <2>4 DEF LidarNext, DriverNext
<1> QED
  BY <1>1, <1>2, LidarInvariance, PTL DEF LidarSpec, CloudsInOrder, Clouds!Spec
-----------------------------------------------------------------------------
(* The camera and the detect node                                          *)

\* A camera that has its segment open has the one of its own incarnation, and
\* between the unlink and the creation there is none.
OwnSegment ==
  /\ name <= starts
  /\ camera \in CameraPlace \ {"off"} => starts > 0
  /\ camera = "create" => name = 0
  /\ camera \in {"truncate", "header", "row1", "row2", "index"} => name = starts

\* No segment exists before its incarnation, and none has an index before its
\* header is written.
Fresh ==
  \A c \in Camera :
    c > starts \/ (c = starts /\ camera \in {"unlink", "create", "truncate", "header"})
      => seg[c].index = 0

\* The rows of a segment are of its incarnation and not older than its index;
\* while an image is written, the rows written are newer.
RowsAhead ==
  /\ \A c \in Camera, r \in Row :
       /\ seg[c].rows[r].cam \in {0, c}
       /\ seg[c].rows[r].number >= seg[c].index
  /\ camera \in {"row2", "index"} => seg[name].rows[1].number > seg[name].index
  /\ camera = "index" => seg[name].rows[2].number > seg[name].index

\* What the detect node copied is of the segment it maps.
OfMapped ==
  /\ mapped <= starts
  /\ client \in {"width", "loop", "copy1", "copy2", "push"} => mapped > 0
  /\ \A r \in Row : copy[r].cam \in {0, mapped} /\ image.rows[r].cam \in {0, mapped}
  /\ client \in {"new", "width", "remap"} =>
       \A r \in Row : copy[r].cam = 0 /\ image.rows[r].cam = 0

\* The index remembered is one the segment has reached, and the rows copied so
\* far are not older.
CopyAhead ==
  /\ client \in {"copy1", "copy2", "push"} => last <= seg[mapped].index
  /\ client \in {"copy2", "push"} => copy[1].number >= last
  /\ client = "push" => copy[2].number >= last

HikInv ==
  HikTypeOK /\ OwnSegment /\ Fresh /\ RowsAhead /\ OfMapped /\ CopyAhead /\ ImageNotOlderThanIndex
-----------------------------------------------------------------------------
\* The initial state satisfies the invariant.
LEMMA HikInitInv == HikInit => HikInv
  BY HikAssumption DEF HikInit, HikInv, HikTypeOK, OwnSegment, Fresh, RowsAhead, OfMapped,
     CopyAhead, ImageNotOlderThanIndex, CameraPlace, ClientPlace, Row, Camera, Segment, Pixels,
     Blank0, NoIndex

\* Steps of the camera node that do not write keep the invariant.
LEMMA CameraKeeps ==
  ASSUME HikInv,
         StartCamera \/ StopCamera \/ KillCamera \/ Unlink \/ Create
  PROVE  HikInv'
<1>1. CASE StartCamera
  BY <1>1, HikAssumption DEF StartCamera, CameraGoes, HikInv, HikTypeOK, OwnSegment, Fresh, RowsAhead,
     OfMapped, CopyAhead, ImageNotOlderThanIndex, CameraPlace, Camera
<1>2. CASE StopCamera
  BY <1>2, HikAssumption DEF StopCamera, CameraGoes, HikInv, HikTypeOK, OwnSegment, Fresh, RowsAhead,
     OfMapped, CopyAhead, ImageNotOlderThanIndex, CameraPlace, Camera
<1>3. CASE KillCamera
  BY <1>3, HikAssumption DEF KillCamera, HikInv, HikTypeOK, OwnSegment, Fresh, RowsAhead,
     OfMapped, CopyAhead, ImageNotOlderThanIndex, CameraPlace, Camera
<1>4. CASE Unlink
  BY <1>4, HikAssumption DEF Unlink, CameraGoes, HikInv, HikTypeOK, OwnSegment, Fresh, RowsAhead,
     OfMapped, CopyAhead, ImageNotOlderThanIndex, CameraPlace, Camera
<1>5. CASE Create
  BY <1>5, HikAssumption DEF Create, CameraGoes, HikInv, HikTypeOK, OwnSegment, Fresh, RowsAhead,
     OfMapped, CopyAhead, ImageNotOlderThanIndex, CameraPlace, Camera
<1> QED
  BY <1>1, <1>2, <1>3, <1>4, <1>5

\* The segment the camera writes has its own entry in seg.
LEMMA WritesOwn ==
  ASSUME HikInv, camera \in {"truncate", "header", "row1", "row2", "index"}
  PROVE  name \in Camera /\ name = starts /\ seg[name] \in Segment
  BY HikAssumption DEF HikInv, HikTypeOK, OwnSegment, CameraPlace, Camera

\* What is left of the invariant when only the segment of the camera changes.
LEMMA WriterFrame ==
  ASSUME HikInv, name \in Camera, name = starts,
         camera' \in CameraPlace \ {"off", "create"},
         UNCHANGED <<starts, name, client, mapped, last, copy, image>>,
         seg' \in [Camera -> Segment],
         \A c \in Camera \ {name} : seg'[c] = seg[c],
         seg'[name].index >= seg[name].index
  PROVE  HikTypeOK' /\ OwnSegment' /\ OfMapped' /\ CopyAhead' /\ ImageNotOlderThanIndex'
<1> USE HikAssumption DEF HikInv
<1>1. HikTypeOK'
  BY DEF HikTypeOK
<1>2. OwnSegment'
  BY DEF HikTypeOK, OwnSegment, Camera
<1>3. OfMapped' /\ ImageNotOlderThanIndex'
  BY DEF OfMapped, ImageNotOlderThanIndex
<1>4. CopyAhead'
  <2>1. client \in {"copy1", "copy2", "push"} => mapped \in Camera
    BY DEF OfMapped, HikTypeOK, Camera
  <2>2. \A c \in Camera : seg'[c].index \in Int /\ seg[c].index \in Int /\ seg'[c].index >= seg[c].index
    BY DEF HikTypeOK, Segment
  <2>3. last \in Int
    BY DEF HikTypeOK, NoIndex
  <2> QED
    BY <2>1, <2>2, <2>3 DEF CopyAhead
<1> QED
  BY <1>1, <1>2, <1>3, <1>4

\* So do the steps that write.
LEMMA WriterKeeps ==
  ASSUME HikInv, Truncate \/ InitHeader \/ WriteImage
  PROVE  HikInv'
<1> USE HikAssumption
<1> DEFINE own == seg[name]
<1>1. /\ name \in Camera /\ name = starts
      /\ own \in Segment /\ seg \in [Camera -> Segment]
      /\ own.index \in 0..MaxImages /\ own.rows \in [Row -> Pixels]
  BY WritesOwn DEF Truncate, InitHeader, WriteImage, WriteRow, BumpIndex, CameraGoes, HikInv, HikTypeOK,
     Segment
<1>2. CASE Truncate
  <2>1. seg' = [seg EXCEPT ![name] = [own EXCEPT !.sized = TRUE]]
    BY <1>2 DEF Truncate
  <2>2. [own EXCEPT !.sized = TRUE] \in Segment
    BY <1>1 DEF Segment
  <2>3. seg' \in [Camera -> Segment] /\ seg'[name].index = own.index /\ seg'[name].rows = own.rows
    BY <2>1, <2>2, <1>1 DEF Segment
  <2>4. \A c \in Camera \ {name} : seg'[c] = seg[c]
    BY <2>1, <1>1
  <2>5. Fresh' /\ RowsAhead'
    BY <1>1, <1>2, <2>3, <2>4 DEF Truncate, CameraGoes, HikInv, HikTypeOK, Fresh, RowsAhead
  <2> QED
    BY <1>1, <1>2, <2>3, <2>4, <2>5, WriterFrame DEF Truncate, CameraGoes, HikInv, CameraPlace
<1>3. CASE InitHeader
  <2>1. seg' = [seg EXCEPT ![name] = [own EXCEPT !.width = TRUE, !.index = 0]]
    BY <1>1, <1>3 DEF InitHeader, Segment
  <2>2. [own EXCEPT !.width = TRUE, !.index = 0] \in Segment
    <3>1. 0 \in 0..MaxImages
      BY <1>1
    <3>2. [own EXCEPT !.width = TRUE] \in Segment
      BY <1>1 DEF Segment
    <3> DEFINE wide == [own EXCEPT !.width = TRUE]
    <3> HIDE DEF wide
    <3>3. [wide EXCEPT !.index = 0] \in Segment
      BY <3>1, <3>2 DEF Segment, wide
    <3> QED
      BY <3>3 DEF wide
  <2>3. seg' \in [Camera -> Segment] /\ seg'[name].index = 0 /\ seg'[name].rows = own.rows
    BY <2>1, <2>2, <1>1 DEF Segment
  <2>4. \A c \in Camera \ {name} : seg'[c] = seg[c]
    BY <2>1, <1>1
  <2>5. own.index = 0
    BY <1>1, <1>3 DEF InitHeader, CameraGoes, HikInv, Fresh
  <2>6. Fresh' /\ RowsAhead'
    BY <1>1, <1>3, <2>3, <2>4, <2>5 DEF InitHeader, CameraGoes, HikInv, HikTypeOK, Fresh, RowsAhead
  <2> QED
    BY <1>1, <1>3, <2>3, <2>4, <2>5, <2>6, WriterFrame DEF InitHeader, CameraGoes, HikInv, CameraPlace
<1>4. ASSUME NEW r \in Row, NEW to \in {"row2", "index"}, WriteRow(r, to), to = (IF r = 1 THEN "row2" ELSE "index")
      PROVE  HikInv'
  <2>1. Current \in Pixels /\ Current.cam = name /\ Current.number = own.index + 1
    BY <1>1, <1>4 DEF WriteRow, Current, Pixels, HikInv, HikTypeOK, Camera
  <2>2. seg' = [seg EXCEPT ![name] = [own EXCEPT !.rows = [own.rows EXCEPT ![r] = Current]]]
    BY <1>4 DEF WriteRow
  <2>3. [own.rows EXCEPT ![r] = Current] \in [Row -> Pixels]
    BY <1>1, <1>4, <2>1
  <2>4. [own EXCEPT !.rows = [own.rows EXCEPT ![r] = Current]] \in Segment
    BY <1>1, <2>3 DEF Segment
  <2>5. /\ seg' \in [Camera -> Segment] /\ seg'[name].index = own.index
        /\ seg'[name].rows = [own.rows EXCEPT ![r] = Current]
    BY <2>2, <2>4, <1>1 DEF Segment
  <2>6. /\ seg'[name].rows[r] = Current
        /\ \A s \in Row \ {r} : seg'[name].rows[s] = own.rows[s]
    BY <1>1, <1>4, <2>5
  <2>7. \A c \in Camera \ {name} : seg'[c] = seg[c]
    BY <2>2, <1>1
  <2>8. Fresh'
    BY <1>1, <1>4, <2>5, <2>7 DEF WriteRow, CameraGoes, HikInv, Fresh, Row
  <2>9. RowsAhead'
    BY <1>1, <1>4, <2>1, <2>5, <2>6, <2>7 DEF WriteRow, CameraGoes, HikInv, RowsAhead, Row
  <2> QED
    BY <1>1, <1>4, <2>5, <2>7, <2>8, <2>9, WriterFrame
    DEF WriteRow, CameraGoes, HikInv, CameraPlace, Row
<1>5. CASE BumpIndex
  <2>1. seg' = [seg EXCEPT ![name] = [own EXCEPT !.index = own.index + 1]]
    BY <1>5 DEF BumpIndex
  <2>2. \A s \in Row : own.rows[s].number >= own.index + 1
    BY <1>1, <1>5 DEF BumpIndex, CameraGoes, HikInv, RowsAhead, Row, Pixels
  <2>3. own.index + 1 \in 0..MaxImages
    BY <1>1, <2>2 DEF Row, Pixels
  <2>4. [own EXCEPT !.index = own.index + 1] \in Segment
    BY <1>1, <2>3 DEF Segment
  <2>5. seg' \in [Camera -> Segment] /\ seg'[name].index = own.index + 1 /\ seg'[name].rows = own.rows
    BY <2>1, <2>4, <1>1 DEF Segment
  <2>6. \A c \in Camera \ {name} : seg'[c] = seg[c]
    BY <2>1, <1>1
  <2>7. /\ camera = "index" /\ camera' = "row1" /\ UNCHANGED <<starts, name>>
        /\ Fresh /\ RowsAhead
    BY <1>5 DEF BumpIndex, CameraGoes, HikInv
  <2>8. Fresh'
    BY <1>1, <2>6, <2>7 DEF Fresh, Camera
  <2>9. RowsAhead'
    <3>1. ASSUME NEW c \in Camera, NEW r \in Row
          PROVE  seg'[c].rows[r].cam \in {0, c} /\ seg'[c].rows[r].number >= seg'[c].index
      <4>1. CASE c = name
        BY <4>1, <2>2, <2>5, <2>7 DEF RowsAhead
      <4>2. CASE c # name
        BY <4>2, <2>6, <2>7 DEF RowsAhead
      <4> QED
        BY <4>1, <4>2
    <3> QED
      BY <3>1, <2>7 DEF RowsAhead
  <2> QED
    BY <1>1, <1>5, <2>5, <2>6, <2>8, <2>9, WriterFrame DEF BumpIndex, CameraGoes, HikInv, CameraPlace
<1> QED
  BY <1>2, <1>3, <1>4, <1>5 DEF WriteImage, Row

\* So do those of the detect node.
LEMMA ReaderKeeps ==
  ASSUME HikInv, ReaderOfImages
  PROVE  HikInv'
<1> USE HikAssumption
<1>1. CASE OpenHeader \/ OpenImage
  BY <1>1 DEF OpenHeader, OpenImage, ClientGoes, HikInv, HikTypeOK, OwnSegment, Fresh, RowsAhead,
     OfMapped, CopyAhead, ImageNotOlderThanIndex, ClientPlace, Camera, Row
<1>2. CASE ReadWidth
  BY <1>2 DEF ReadWidth, ClientGoes, HikInv, HikTypeOK, OwnSegment, Fresh, RowsAhead,
     OfMapped, CopyAhead, ImageNotOlderThanIndex, ClientPlace, Camera, Row
<1>3. CASE HikWorker
  BY <1>3 DEF HikWorker, HikInv, HikTypeOK, OwnSegment, Fresh, RowsAhead,
     OfMapped, CopyAhead, ImageNotOlderThanIndex, ClientPlace, Camera, Row, Segment, NoIndex
<1>4. ASSUME NEW r \in Row, NEW to \in {"copy2", "push"}, CopyRow(r, to), to = (IF r = 1 THEN "copy2" ELSE "push")
      PROVE  HikInv'
  <2>1. /\ mapped \in Camera
        /\ seg[mapped].rows[r] \in Pixels
        /\ seg[mapped].index \in Int
    <3>1. mapped \in Camera
      BY <1>4 DEF CopyRow, ClientGoes, HikInv, HikTypeOK, OfMapped, Camera
    <3>2. seg[mapped] \in Segment
      BY <3>1 DEF HikInv, HikTypeOK
    <3> QED
      BY <3>1, <3>2 DEF Segment
  <2>2. /\ copy' \in [Row -> Pixels]
        /\ copy'[r] = seg[mapped].rows[r]
        /\ \A s \in Row \ {r} : copy'[s] = copy[s]
    BY <1>4, <2>1 DEF CopyRow, HikInv, HikTypeOK
  <2>3. copy'[r].cam \in {0, mapped} /\ copy'[r].number \in Int /\ copy'[r].number >= seg[mapped].index
    BY <1>4, <2>1, <2>2 DEF HikInv, RowsAhead, Pixels
  <2>4. last \in Int /\ last <= seg[mapped].index
    BY <1>4 DEF CopyRow, ClientGoes, HikInv, HikTypeOK, CopyAhead, NoIndex
  <2>5. copy'[r].number >= last
    BY <2>1, <2>3, <2>4
  <2>6. HikTypeOK' /\ OwnSegment' /\ Fresh' /\ RowsAhead' /\ ImageNotOlderThanIndex'
    BY <1>4, <2>2 DEF CopyRow, ClientGoes, HikInv, HikTypeOK, OwnSegment, Fresh, RowsAhead,
       ImageNotOlderThanIndex, ClientPlace
  <2>7. OfMapped'
    BY <1>4, <2>2, <2>3 DEF CopyRow, ClientGoes, HikInv, OfMapped, Row
  <2>8. CopyAhead'
    BY <1>4, <2>2, <2>4, <2>5 DEF CopyRow, ClientGoes, HikInv, CopyAhead, Row
  <2> QED
    BY <2>6, <2>7, <2>8 DEF HikInv
<1>5. CASE PushImage
  BY <1>5 DEF PushImage, ClientGoes, HikInv, HikTypeOK, OwnSegment, Fresh, RowsAhead,
     OfMapped, CopyAhead, ImageNotOlderThanIndex, ClientPlace, Camera, Row, NoIndex
<1> QED
  BY <1>1, <1>2, <1>3, <1>4, <1>5 DEF ReaderOfImages, Row

LEMMA HikNextInv == HikInv /\ [HikNext]_hikVars => HikInv'
<1> SUFFICES ASSUME HikInv, [HikNext]_hikVars PROVE HikInv'
  OBVIOUS
<1>1. CASE HikNext
  BY <1>1, CameraKeeps, WriterKeeps, ReaderKeeps DEF HikNext, WriterOfImages
<1>2. CASE UNCHANGED hikVars
  BY <1>2 DEF hikVars, HikInv, HikTypeOK, OwnSegment, Fresh, RowsAhead, OfMapped, CopyAhead,
     ImageNotOlderThanIndex
<1> QED
  BY <1>1, <1>2
-----------------------------------------------------------------------------
\* The invariant holds in every reachable state.
THEOREM HikInvariance == HikSpec => []HikInv
  BY HikInitInv, HikNextInv, PTL DEF HikSpec

\* Type correctness of the shared memory and of both processes.
THEOREM HikTypes == HikSpec => []HikTypeOK
<1>1. HikInv => HikTypeOK
  BY DEF HikInv
<1> QED
  BY <1>1, HikInvariance, PTL

\* The rows of a processed image are not older than the index that announced it
\* (write_shared_memory and hik_worker).
THEOREM ImageIsNotOlder == HikSpec => []ImageNotOlderThanIndex
<1>1. HikInv => ImageNotOlderThanIndex
  BY DEF HikInv
<1> QED
  BY <1>1, HikInvariance, PTL

\* A detect node never sees images of two incarnations of the camera
\* (shm_unlink in setup_shared_memory).
THEOREM OneCamera == HikSpec => []ImagesOfOneCamera
<1>1. HikInv => ImagesOfOneCamera
  BY DEF HikInv, OfMapped, ImagesOfOneCamera
<1> QED
  BY <1>1, HikInvariance, PTL

\* Both facts about an image that hik_worker pushed.
THEOREM ImagesStaySound == HikSpec => []ImageIsSound
  BY ImageIsNotOlder, OneCamera, PTL DEF ImageIsSound
-----------------------------------------------------------------------------
(* The sensor side: a behaviour of Sensors is one of every component       *)

LEMMA SensorsStart ==
  SensorsInit => /\ ConnectInit /\ LidarInit /\ HikInit /\ CommandInit
                 /\ UpgradeInit /\ LoggerInit /\ StartInit
  BY DEF SensorsInit

LEMMA SensorsSteps ==
  [SensorsNext]_sensorVars =>
    /\ [ConnectNext]_connectVars /\ [LidarNext]_lidarVars /\ [HikNext]_hikVars
    /\ [CommandNext]_commandVars /\ [UpgradeNext]_upgradeVars
    /\ [LoggerNext]_loggerVars /\ [StartNext]_startVars
  BY DEF SensorsNext, sensorVars

\* Whatever path the system takes, each component behaves as it would alone.
THEOREM PathsAreComponents ==
  SensorsSpec => /\ ConnectSpec /\ LidarSpec /\ HikSpec /\ CommandSpec
                 /\ UpgradeSpec /\ LoggerSpec /\ StartSpec
  BY SensorsStart, SensorsSteps, PTL
  DEF SensorsSpec, ConnectSpec, LidarSpec, HikSpec, CommandSpec, UpgradeSpec, LoggerSpec, StartSpec

\* The types of every path, in the system that has them all.
THEOREM SensorsKeepTypes == SensorsSpec => []SensorsTypeOK
  BY PathsAreComponents, ConnectTypes, LidarTypes, HikTypes, CommandTypes, UpgradeTypes,
     LoggerTypes, StartKeepsItsTypes, PTL DEF SensorsTypeOK

\* What the components keep alone, the sensor side keeps: the bits of a lidar's
\* options, the images and the clouds, the outcome of an upgrade, the logs and
\* the starts are what their modules promise.
THEOREM SensorsAreSafe ==
  SensorsSpec => /\ []BitsAreTrue /\ []ImageIsSound /\ []OutcomeIsFinal
                 /\ []LogsAreKept /\ []StartIsSound /\ CloudsInOrder
  BY PathsAreComponents, BitsStayTrue, ImagesStaySound, OutcomeStaysFinal, FilesAreKept,
     StartsAreSound, CloudsComeInOrder, PTL
=============================================================================
