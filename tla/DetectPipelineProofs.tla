------------------------ MODULE DetectPipelineProofs ------------------------
(***************************************************************************)
(* Proofs about DetectPipeline: it implements LatestFrame, and no thread   *)
(* outlives the node.                                                      *)
(***************************************************************************)
EXTENDS DetectPipeline, TLAPS

Increasing(s) == \A i, j \in DOMAIN s : i < j => s[i] < s[j]

\* All of s lies above lo and not above hi.
Within(s, lo, hi) == \A i \in DOMAIN s : lo < s[i] /\ s[i] <= hi

\* Every element of s is smaller than n.
Below(s, n) == \A i \in DOMAIN s : s[i] < n

\* The newest frame the process thread took from its queue.
Taken == IF pc["process"] = "work" THEN hand["process"] ELSE published

\* The camera end: captured >= decode_queue_ > the decoder's hand >
\* process_queue_ > the frame that was taken.
Upstream ==
  LET dq == queue["decode"]
      pq == queue["process"]
  IN /\ Increasing(dq) /\ Within(dq, Taken, captured)
     /\ Increasing(pq) /\ Within(pq, Taken, captured)
     /\ \A j \in DOMAIN dq : Below(pq, dq[j])
     /\ pc["decode"] = "work" =>
          /\ Taken < hand["decode"] /\ hand["decode"] <= captured
          /\ Below(pq, hand["decode"])
          /\ \A j \in DOMAIN dq : hand["decode"] < dq[j]
     /\ mode # "rosbag" => dq = <<>> /\ pc["decode"] # "work"
     /\ Taken <= captured
     /\ pc["process"] = "work" => published < hand["process"]

\* The screen end: published >= display_queue_ > the display's hand > shown.
Downstream ==
  LET sq == queue["display"]
  IN /\ Increasing(sq) /\ Within(sq, shown, published)
     /\ shown <= published
     /\ pc["display"] = "work" =>
          /\ shown < hand["display"] /\ hand["display"] <= published
          /\ \A i \in DOMAIN sq : hand["display"] < sq[i]
     /\ pc["process"] = "enqueue" =>
          /\ hand["process"] = published
          /\ shown < published
          /\ Below(sq, published)
          /\ pc["display"] = "work" => hand["display"] < published

\* The threads behind the destructor are through.
Joined == \A k \in DOMAIN StopOrder : k < dtor.at => pc[StopOrder[k]] = "exited"

\* hik_worker runs in hik mode only.
Started == mode # "hik" => pc["hik"] = "exited"

IInv == TypeOK /\ Upstream /\ Downstream
-----------------------------------------------------------------------------
(* Sequences of frames *)

\* push_back: appending a frame newer than every other keeps the order, and the
\* bounds when the new frame is within them.
LEMMA AppendFacts ==
  ASSUME NEW s \in Seq(Frame), NEW n \in Frame, NEW lo \in Nat, NEW hi \in Nat, NEW top \in Nat,
         Increasing(s), Within(s, lo, hi), Below(s, n), lo < n, n <= top, hi <= top
  PROVE  /\ Append(s, n) \in Seq(Frame)
         /\ Increasing(Append(s, n))
         /\ Within(Append(s, n), lo, top)
<1> DEFINE t == Append(s, n)
<1>1. t \in Seq(Frame) /\ Len(t) = Len(s) + 1 /\ Len(s) \in Nat
  OBVIOUS
<1>2. DOMAIN s = 1..Len(s) /\ DOMAIN t = 1..(Len(s) + 1)
  BY <1>1
<1>3. \A i \in DOMAIN s : t[i] = s[i] /\ s[i] \in Nat
  BY CapAssumption DEF Frame
<1>4. t[Len(s) + 1] = n /\ n \in Nat
  BY CapAssumption DEF Frame
<1> HIDE DEF t
<1>5. Increasing(t)
  BY <1>1, <1>2, <1>3, <1>4 DEF Increasing, Below
<1>6. Within(t, lo, top)
  BY <1>1, <1>2, <1>3, <1>4 DEF Within
<1>7. QED
  BY <1>1, <1>5, <1>6 DEF t

\* pop_front: the first frame lies within the bounds and before the rest, which
\* keeps its order and has the first frame as its new lower bound.
LEMMA PopFacts ==
  ASSUME NEW s \in Seq(Frame), NEW lo \in Nat, NEW hi \in Nat,
         Increasing(s), Within(s, lo, hi), s # <<>>
  PROVE  /\ Tail(s) \in Seq(Frame)
         /\ Head(s) \in Frame /\ lo < Head(s) /\ Head(s) <= hi
         /\ Increasing(Tail(s))
         /\ Within(Tail(s), Head(s), hi)
         /\ \A i \in DOMAIN Tail(s) : i + 1 \in DOMAIN s /\ Tail(s)[i] = s[i + 1]
         /\ 1 \in DOMAIN s /\ Head(s) = s[1]
<1> DEFINE t == Tail(s)
<1>1. t \in Seq(Frame) /\ Len(t) = Len(s) - 1 /\ Len(s) \in Nat \ {0} /\ Head(s) = s[1]
  OBVIOUS
<1>2. DOMAIN s = 1..Len(s) /\ DOMAIN t = 1..(Len(s) - 1)
  BY <1>1
<1>3. \A i \in DOMAIN t : i + 1 \in DOMAIN s /\ t[i] = s[i + 1]
  BY <1>1, <1>2
<1>4. \A i \in DOMAIN s : s[i] \in Frame /\ s[i] \in Nat
  BY CapAssumption DEF Frame
<1>5. 1 \in DOMAIN s
  BY <1>1, <1>2
<1> HIDE DEF t
<1>6. Increasing(t)
  BY <1>1, <1>2, <1>3, <1>4 DEF Increasing
<1>7. Within(t, Head(s), hi)
  <2> SUFFICES ASSUME NEW i \in DOMAIN t PROVE s[1] < t[i] /\ t[i] <= hi
    BY <1>1 DEF Within
  <2>1. i + 1 \in DOMAIN s /\ 1 < i + 1 /\ t[i] = s[i + 1]
    BY <1>2, <1>3
  <2>2. s[1] < s[i + 1]
    BY <1>5, <2>1 DEF Increasing
  <2>3. s[i + 1] <= hi
    BY <2>1 DEF Within
  <2>4. QED
    BY <2>1, <2>2, <2>3
<1>8. Head(s) \in Frame /\ lo < Head(s) /\ Head(s) <= hi
  BY <1>1, <1>4, <1>5 DEF Within
<1>9. QED
  BY <1>1, <1>3, <1>5, <1>6, <1>7, <1>8 DEF t

\* A lower bound may be raised to anything below the sequence.
LEMMA WithinWider ==
  ASSUME NEW s \in Seq(Frame), NEW lo \in Nat, NEW hi \in Nat, NEW l \in Nat, NEW h \in Nat,
         Within(s, lo, hi), l <= lo, hi <= h
  PROVE  Within(s, l, h)
<1>1. \A i \in DOMAIN s : s[i] \in Nat
  BY CapAssumption DEF Frame
<1>2. QED
  BY <1>1 DEF Within
-----------------------------------------------------------------------------
(* The invariant *)

LEMMA InitInv == Init => IInv /\ Joined /\ Started
<1> SUFFICES ASSUME Init PROVE IInv /\ Joined /\ Started
  OBVIOUS
<1> USE CapAssumption
<1>1. TypeOK
  BY DEF Init, TypeOK, Thread, Reader, Place, Frame
<1>2. Upstream
  BY DEF Init, Upstream, Taken, Increasing, Within, Below, Thread, Reader
<1>3. Downstream
  BY DEF Init, Downstream, Increasing, Within, Below, Thread, Reader
<1>4. Joined
  BY DEF Init, Joined, StopOrder
<1>5. Started
  BY DEF Init, Started, Thread
<1>6. QED
  BY <1>1, <1>2, <1>3, <1>4, <1>5 DEF IInv
-----------------------------------------------------------------------------
(* Each step preserves the invariant *)

\* A step that takes no frame into or out of a queue or a hand.
LEMMA Quiet ==
  ASSUME IInv,
         UNCHANGED <<mode, captured, queue, hand, published, shown>>,
         pc' \in [Thread -> Place], ok' \in BOOLEAN, stop' \subseteq Thread,
         dtor' \in [at : 0..5, step : {"stop", "notify", "join"}],
         \A t \in Thread : pc'[t] \in {"work", "enqueue"} => pc'[t] = pc[t],
         pc["process"] = "work" => pc'["process"] = "work"
  PROVE  IInv'
<1>1. TypeOK'
  BY DEF IInv, TypeOK
<1>2. /\ pc'["decode"] = "work" => pc["decode"] = "work"
      /\ pc'["display"] = "work" => pc["display"] = "work"
      /\ pc'["process"] = "work" <=> pc["process"] = "work"
      /\ pc'["process"] = "enqueue" => pc["process"] = "enqueue"
  BY DEF Thread
<1>3. Taken' = Taken
  BY <1>2 DEF Taken
<1>4. Upstream'
  BY <1>2, <1>3 DEF IInv, Upstream, Within, Below, Increasing
<1>5. Downstream'
  BY <1>2 DEF IInv, Downstream, Within, Below, Increasing
<1>6. QED
  BY <1>1, <1>4, <1>5 DEF IInv

\* The types of what a step looks at.
LEMMA Types ==
  ASSUME IInv
  PROVE  /\ \A t \in Reader : queue[t] \in Seq(Frame) /\ hand[t] \in Nat
         /\ captured \in Nat /\ published \in Nat /\ shown \in Nat
         /\ Taken \in Nat
         /\ Frame \subseteq Nat
         /\ \A t \in Reader : \A i \in DOMAIN queue[t] : queue[t][i] \in Nat
<1> USE CapAssumption
<1>1. Frame \subseteq Nat
  BY DEF Frame
<1>2. /\ \A t \in Reader : queue[t] \in Seq(Frame) /\ hand[t] \in Nat
      /\ captured \in Nat /\ published \in Nat /\ shown \in Nat
  <2>1. captured \in 0..MaxFrames /\ published \in 0..captured /\ shown \in 0..published
    BY DEF IInv, TypeOK
  <2>2. captured \in Nat /\ published \in Nat
    BY <2>1
  <2>3. \A t \in Reader : queue[t] \in Seq(Frame) /\ hand[t] \in {0} \cup Frame
    BY DEF IInv, TypeOK
  <2>4. shown \in Nat
    BY <2>1, <2>2
  <2>5. ASSUME NEW t \in Reader PROVE hand[t] \in Nat
    <3>1. hand[t] = 0 \/ hand[t] \in Frame
      BY <2>3
    <3>2. 0 \in Nat
      OBVIOUS
    <3>3. QED
      BY <1>1, <3>1, <3>2, Zenon
  <2>6. QED
    BY <2>2, <2>3, <2>4, <2>5
<1>3. \A t \in Reader : \A i \in DOMAIN queue[t] : queue[t][i] \in Frame
  BY <1>2
<1>4. QED
  BY <1>1, <1>2, <1>3 DEF Taken, Reader, Thread

\* A frame reaches the process queue directly from the camera.
LEMMA PushProcess ==
  ASSUME IInv, Push("process"), mode # "rosbag",
         UNCHANGED <<mode, ok, hand, published, shown, stop, dtor>>,
         pc' \in [Thread -> Place],
         pc'["decode"] = pc["decode"], pc'["process"] = pc["process"],
         pc'["display"] = pc["display"]
  PROVE  IInv'
<1> USE CapAssumption
<1> DEFINE pq == queue["process"]
           n  == captured + 1
<1>1. /\ pq \in Seq(Frame) /\ n \in Frame /\ captured' = n /\ captured \in Nat
      /\ queue' = [queue EXCEPT !["process"] = Append(pq, n)]
      /\ queue \in [Reader -> Seq(Frame)]
      /\ queue'["process"] = Append(pq, n)
      /\ queue'["decode"] = queue["decode"] /\ queue'["display"] = queue["display"]
  BY DEF IInv, TypeOK, Push, Frame, Reader, Thread
<1>2. Taken \in Nat /\ Taken' = Taken /\ Taken <= captured
  BY DEF IInv, TypeOK, Upstream, Taken, Reader, Thread, Frame
<1>3. Increasing(pq) /\ Within(pq, Taken, captured)
  BY DEF IInv, Upstream
<1>4. Below(pq, n)
  BY <1>1, <1>3, Types DEF Within, Below, Reader, Thread
<1>5. n \in Nat /\ Taken < n /\ n <= n /\ captured <= n
  BY <1>1, <1>2
<1>6. /\ Append(pq, n) \in Seq(Frame)
      /\ Increasing(Append(pq, n)) /\ Within(Append(pq, n), Taken, n)
  <2> HIDE DEF pq, n
  <2> QED
    BY <1>1, <1>2, <1>3, <1>4, <1>5, AppendFacts
<1>7. TypeOK'
  BY <1>1, <1>6 DEF IInv, TypeOK, Reader, Thread, Frame
<1>8. queue["decode"] = <<>> /\ pc["decode"] # "work"
  BY DEF IInv, Upstream
<1>9. Upstream'
  <2>1. Increasing(<<>>) /\ Within(<<>>, Taken, n) /\ DOMAIN <<>> = {}
    BY DEF Increasing, Within
  <2>2. pc["process"] = "work" => published < hand["process"]
    BY DEF IInv, Upstream
  <2> HIDE DEF n, pq
  <2>3. /\ queue'["decode"] = <<>> /\ pc'["decode"] # "work"
        /\ queue'["process"] = Append(pq, n)
    BY <1>1, <1>8
  <2>4. /\ Increasing(queue["decode"])' /\ Within(queue["decode"], Taken, captured)'
        /\ Increasing(queue["process"])' /\ Within(queue["process"], Taken, captured)'
    BY <1>1, <1>2, <1>6, <2>1, <2>3
  <2>5. (Taken <= captured)' /\ (pc["process"] = "work" => published < hand["process"])'
    BY <1>1, <1>2, <1>5, <2>2
  <2>6. QED
    BY <2>1, <2>3, <2>4, <2>5 DEF Upstream
<1>10. Downstream'
  BY <1>1 DEF IInv, Downstream
<1>11. QED
  BY <1>7, <1>9, <1>10 DEF IInv

\* A compressed frame reaches the decode queue.
LEMMA PushDecode == ASSUME IInv, CompressedCallback PROVE IInv'
<1> USE CapAssumption
<1> DEFINE dq == queue["decode"]
           n  == captured + 1
<1>1. /\ dq \in Seq(Frame) /\ n \in Frame /\ captured' = n /\ captured \in Nat
      /\ queue' = [queue EXCEPT !["decode"] = Append(dq, n)]
      /\ queue \in [Reader -> Seq(Frame)]
      /\ queue'["decode"] = Append(dq, n)
      /\ queue'["process"] = queue["process"] /\ queue'["display"] = queue["display"]
      /\ mode = "rosbag" /\ mode' = mode /\ hand' = hand /\ published' = published
      /\ shown' = shown
  BY DEF IInv, TypeOK, CompressedCallback, Push, Frame, Reader, Thread
<1>2. /\ pc' \in [Thread -> Place]
      /\ pc'["process"] = pc["process"] /\ pc'["display"] = pc["display"]
      /\ pc'["decode"] = "work" => pc["decode"] = "work"
  BY DEF IInv, TypeOK, CompressedCallback, Notified, Thread, Place
<1>3. Taken \in Nat /\ Taken' = Taken /\ Taken <= captured
  BY <1>1, <1>2, Types DEF Taken, IInv, Upstream
<1>4. Increasing(dq) /\ Within(dq, Taken, captured)
  BY DEF IInv, Upstream
<1>5. Below(dq, n)
  BY <1>1, <1>4, Types DEF Within, Below, Reader, Thread
<1>6. n \in Nat /\ Taken < n /\ n <= n /\ captured <= n
  BY <1>1, <1>3
<1>7. /\ Append(dq, n) \in Seq(Frame)
      /\ Increasing(Append(dq, n)) /\ Within(Append(dq, n), Taken, n)
  <2> HIDE DEF dq, n
  <2> QED
    BY <1>1, <1>3, <1>4, <1>5, <1>6, AppendFacts
<1>8. /\ Increasing(queue["process"]) /\ Within(queue["process"], Taken, captured)
      /\ \A j \in DOMAIN dq : Below(queue["process"], dq[j])
      /\ pc["decode"] = "work" =>
           /\ Taken < hand["decode"] /\ hand["decode"] <= captured
           /\ Below(queue["process"], hand["decode"])
           /\ \A j \in DOMAIN dq : hand["decode"] < dq[j]
      /\ pc["process"] = "work" => published < hand["process"]
  BY DEF IInv, Upstream
<1>9. Below(queue["process"], n) /\ hand["decode"] \in Nat
  BY <1>1, <1>8, Types DEF Within, Below, Reader, Thread
<1>10. \A j \in DOMAIN Append(dq, n) :
         \/ j \in DOMAIN dq /\ Append(dq, n)[j] = dq[j]
         \/ Append(dq, n)[j] = n
  BY <1>1
<1>11. TypeOK'
  BY <1>1, <1>2, <1>7 DEF IInv, TypeOK, CompressedCallback, Reader, Thread, Frame
<1>12. Upstream'
  <2>1. Within(queue["process"], Taken, n)
    BY <1>1, <1>3, <1>6, <1>8, WithinWider DEF Reader, Thread
  <2>2. /\ Increasing(queue["decode"])' /\ Within(queue["decode"], Taken, captured)'
        /\ Increasing(queue["process"])' /\ Within(queue["process"], Taken, captured)'
    <3> HIDE DEF dq, n
    <3> QED
      BY <1>1, <1>3, <1>7, <1>8, <2>1
  <2>3. \A j \in DOMAIN Append(dq, n) : Below(queue["process"], Append(dq, n)[j])
    <3> HIDE DEF dq, n
    <3> QED
      BY <1>8, <1>9, <1>10
  <2>4. pc'["decode"] = "work" =>
          /\ Taken < hand["decode"] /\ hand["decode"] <= n
          /\ Below(queue["process"], hand["decode"])
          /\ \A j \in DOMAIN Append(dq, n) : hand["decode"] < Append(dq, n)[j]
    <3>1. pc'["decode"] = "work" => hand["decode"] <= n /\ hand["decode"] < n
      BY <1>1, <1>2, <1>8, <1>9
    <3> HIDE DEF dq, n
    <3> QED
      BY <1>2, <1>8, <1>10, <3>1
  <2>5. Taken' <= captured'
    BY <1>1, <1>3
  <2> HIDE DEF dq, n
  <2>6. QED
    BY <1>1, <1>2, <1>3, <1>8, <2>2, <2>3, <2>4, <2>5 DEF Upstream
<1>13. Downstream'
  BY <1>1, <1>2 DEF IInv, Downstream
<1>14. QED
  BY <1>11, <1>12, <1>13 DEF IInv

\* The decode worker takes the oldest compressed frame.
LEMMA PopDecode ==
  ASSUME IInv, Check("decode"), queue["decode"] # <<>>, pc'["decode"] = "work"
  PROVE  IInv'
<1> USE CapAssumption
<1> DEFINE dq == queue["decode"]
<1>1. dq \in Seq(Frame) /\ queue \in [Reader -> Seq(Frame)] /\ pc \in [Thread -> Place]
      /\ hand \in [Reader -> {0} \cup Frame]
  BY DEF IInv, TypeOK, Reader, Thread
<1>2. /\ pc["decode"] = "check"
      /\ hand' = [hand EXCEPT !["decode"] = Head(dq)]
      /\ queue' = [queue EXCEPT !["decode"] = Tail(dq)]
      /\ pc' = [pc EXCEPT !["decode"] = "work"]
      /\ UNCHANGED <<mode, ok, captured, published, shown, stop, dtor>>
  BY <1>1 DEF Check, Goto, Thread
<1>3. /\ queue'["decode"] = Tail(dq) /\ queue'["process"] = queue["process"]
      /\ queue'["display"] = queue["display"]
      /\ hand'["decode"] = Head(dq) /\ hand'["process"] = hand["process"]
      /\ hand'["display"] = hand["display"]
      /\ pc'["decode"] = "work" /\ pc'["process"] = pc["process"]
      /\ pc'["display"] = pc["display"]
      /\ captured' = captured /\ published' = published /\ shown' = shown /\ mode' = mode
  BY <1>1, <1>2 DEF Reader, Thread
<1>4. /\ Increasing(dq) /\ Within(dq, Taken, captured)
      /\ Increasing(queue["process"]) /\ Within(queue["process"], Taken, captured)
      /\ \A j \in DOMAIN dq : Below(queue["process"], dq[j])
      /\ mode # "rosbag" => dq = <<>>
      /\ Taken <= captured
      /\ pc["process"] = "work" => published < hand["process"]
  BY DEF IInv, Upstream
<1>5. Taken' = Taken
  BY <1>3 DEF Taken
<1>6. /\ Tail(dq) \in Seq(Frame)
      /\ Head(dq) \in Frame /\ Taken < Head(dq) /\ Head(dq) <= captured
      /\ Increasing(Tail(dq)) /\ Within(Tail(dq), Head(dq), captured)
      /\ \A i \in DOMAIN Tail(dq) : i + 1 \in DOMAIN dq /\ Tail(dq)[i] = dq[i + 1]
      /\ 1 \in DOMAIN dq /\ Head(dq) = dq[1]
  <2> HIDE DEF dq
  <2> QED
    BY <1>1, <1>4, Types, PopFacts DEF dq
<1> HIDE DEF dq
<1>7. TypeOK'
  BY <1>1, <1>2, <1>3, <1>6 DEF IInv, TypeOK, Reader, Thread, Place
<1>8. Upstream'
  <2>1. Within(Tail(dq), Taken, captured)
    <3>1. /\ Head(dq) \in Nat /\ Taken \in Nat /\ captured \in Nat
          /\ Taken <= Head(dq) /\ captured <= captured
      BY <1>6, Types
    <3>2. QED
      BY <1>6, <3>1, WithinWider
  <2>2. \A j \in DOMAIN Tail(dq) : Below(queue["process"], Tail(dq)[j])
    BY <1>4, <1>6
  <2>3. \A j \in DOMAIN Tail(dq) : Head(dq) < Tail(dq)[j]
    BY <1>6 DEF Within
  <2>4. Below(queue["process"], Head(dq))
    BY <1>4, <1>6
  <2>5. mode = "rosbag"
    BY <1>4 DEF dq
  <2>6. QED
    BY <1>3, <1>4, <1>5, <1>6, <2>1, <2>2, <2>3, <2>4, <2>5 DEF Upstream
<1>9. Downstream'
  BY <1>3 DEF IInv, Downstream
<1>10. QED
  BY <1>7, <1>8, <1>9 DEF IInv

\* The decoded frame goes on to the process queue.
LEMMA PushDecoded ==
  ASSUME IInv, Decode, queue' = [queue EXCEPT !["process"] = Append(@, hand["decode"])]
  PROVE  IInv'
<1> USE CapAssumption
<1> DEFINE pq == queue["process"]
           n  == hand["decode"]
<1>1. pq \in Seq(Frame) /\ queue \in [Reader -> Seq(Frame)] /\ pc \in [Thread -> Place]
      /\ n \in {0} \cup Frame
  BY DEF IInv, TypeOK, Reader, Thread
<1>2. /\ pc["decode"] = "work"
      /\ pc' = [pc EXCEPT !["decode"] = "top"]
      /\ UNCHANGED <<mode, ok, captured, hand, published, shown, stop, dtor>>
  BY DEF Decode, Goto
<1>3. /\ queue'["process"] = Append(pq, n) /\ queue'["decode"] = queue["decode"]
      /\ queue'["display"] = queue["display"]
      /\ pc'["decode"] = "top" /\ pc'["process"] = pc["process"]
      /\ pc'["display"] = pc["display"]
      /\ captured' = captured /\ published' = published /\ shown' = shown /\ mode' = mode
      /\ hand' = hand
  BY <1>1, <1>2 DEF Reader, Thread
<1>4. /\ Increasing(queue["decode"]) /\ Within(queue["decode"], Taken, captured)
      /\ Increasing(pq) /\ Within(pq, Taken, captured)
      /\ \A j \in DOMAIN queue["decode"] : Below(pq, queue["decode"][j])
      /\ Taken < n /\ n <= captured
      /\ Below(pq, n)
      /\ \A j \in DOMAIN queue["decode"] : n < queue["decode"][j]
      /\ mode = "rosbag"
      /\ Taken <= captured
      /\ pc["process"] = "work" => published < hand["process"]
  BY <1>2 DEF IInv, Upstream
<1>5. Taken' = Taken /\ Taken \in Nat /\ captured \in Nat /\ n \in Nat
  BY <1>3, Types DEF Taken, Reader, Thread
<1>6. n \in Frame
  BY <1>1, <1>4, <1>5
<1>7. /\ Append(pq, n) \in Seq(Frame)
      /\ Increasing(Append(pq, n)) /\ Within(Append(pq, n), Taken, captured)
  <2>1. captured <= captured
    BY <1>5
  <2> HIDE DEF pq, n
  <2> QED
    BY <1>1, <1>4, <1>5, <1>6, <2>1, AppendFacts
<1>8. \A i \in DOMAIN Append(pq, n) :
         \/ i \in DOMAIN pq /\ Append(pq, n)[i] = pq[i]
         \/ Append(pq, n)[i] = n
  BY <1>1
<1> HIDE DEF pq, n
<1>9. TypeOK'
  BY <1>1, <1>2, <1>3, <1>7 DEF IInv, TypeOK, Reader, Thread, Place, pq, n
<1>10. Upstream'
  <2>1. \A j \in DOMAIN queue["decode"] : Below(Append(pq, n), queue["decode"][j])
    BY <1>4, <1>8 DEF Below
  <2>2. QED
    BY <1>3, <1>4, <1>5, <1>7, <2>1 DEF Upstream
<1>11. Downstream'
  BY <1>3 DEF IInv, Downstream
<1>12. QED
  BY <1>9, <1>10, <1>11 DEF IInv

\* The process thread takes the newest frame and drops the backlog.
LEMMA TakeNewest ==
  ASSUME IInv, Take, queue["process"] # <<>>
  PROVE  IInv'
<1> USE CapAssumption
<1> DEFINE pq == queue["process"]
           n  == pq[Len(pq)]
<1>1. pq \in Seq(Frame) /\ queue \in [Reader -> Seq(Frame)] /\ pc \in [Thread -> Place]
      /\ hand \in [Reader -> {0} \cup Frame]
  BY DEF IInv, TypeOK, Reader, Thread
<1>2. /\ pc["process"] = "check"
      /\ hand' = [hand EXCEPT !["process"] = n]
      /\ queue' = [queue EXCEPT !["process"] = <<>>]
      /\ pc' = [pc EXCEPT !["process"] = "work"]
      /\ UNCHANGED <<mode, ok, captured, published, shown, stop, dtor>>
  BY DEF Take, Goto
<1>3. /\ queue'["process"] = <<>> /\ queue'["decode"] = queue["decode"]
      /\ queue'["display"] = queue["display"]
      /\ hand'["process"] = n /\ hand'["decode"] = hand["decode"]
      /\ hand'["display"] = hand["display"]
      /\ pc'["process"] = "work" /\ pc'["decode"] = pc["decode"]
      /\ pc'["display"] = pc["display"]
      /\ captured' = captured /\ published' = published /\ shown' = shown /\ mode' = mode
  BY <1>1, <1>2 DEF Reader, Thread
<1>4. /\ Increasing(queue["decode"]) /\ Within(queue["decode"], Taken, captured)
      /\ Within(pq, Taken, captured)
      /\ \A j \in DOMAIN queue["decode"] : Below(pq, queue["decode"][j])
      /\ pc["decode"] = "work" =>
           /\ hand["decode"] <= captured
           /\ Below(pq, hand["decode"])
           /\ \A j \in DOMAIN queue["decode"] : hand["decode"] < queue["decode"][j]
      /\ mode # "rosbag" => queue["decode"] = <<>> /\ pc["decode"] # "work"
  BY DEF IInv, Upstream
<1>5. Taken = published /\ Taken' = n
  BY <1>2, <1>3 DEF Taken
<1>6. Len(pq) \in DOMAIN pq /\ n \in Frame /\ n \in Nat
  <2>1. Len(pq) \in Nat \ {0} /\ DOMAIN pq = 1..Len(pq)
    BY <1>1
  <2>2. Len(pq) \in DOMAIN pq
    BY <2>1
  <2>3. n \in Frame
    BY <1>1, <2>2
  <2>4. QED
    BY <2>2, <2>3, Types
<1>7. published < n /\ n <= captured
  BY <1>4, <1>5, <1>6 DEF Within
<1> HIDE DEF pq, n
<1>8. \A j \in DOMAIN queue["decode"] : n < queue["decode"][j]
  BY <1>4, <1>6 DEF Below, pq, n
<1>9. pc["decode"] = "work" => n < hand["decode"]
  BY <1>4, <1>6 DEF Below, pq, n
<1>10. TypeOK'
  <2>1. <<>> \in Seq(Frame)
    OBVIOUS
  <2>2. QED
    BY <1>1, <1>2, <1>3, <1>6, <2>1 DEF IInv, TypeOK, Reader, Thread, Place
<1>11. Upstream'
  <2>1. Within(queue["decode"], n, captured)
    BY <1>4, <1>8 DEF Within
  <2>2. /\ Increasing(<<>>) /\ Within(<<>>, n, captured) /\ \A m : Below(<<>>, m)
    BY DEF Increasing, Within, Below
  <2>3. QED
    BY <1>3, <1>4, <1>5, <1>7, <1>9, <2>1, <2>2 DEF Upstream
<1>12. Downstream'
  BY <1>3 DEF IInv, Downstream
<1>13. QED
  BY <1>10, <1>11, <1>12 DEF IInv

\* The frame in the hand of the process thread is published.
LEMMA Publish == ASSUME IInv, ProcessFrame PROVE IInv'
<1> USE CapAssumption
<1>1. queue \in [Reader -> Seq(Frame)] /\ pc \in [Thread -> Place]
  BY DEF IInv, TypeOK
<1>2. /\ pc["process"] = "work" /\ published' = hand["process"]
      /\ pc' = [pc EXCEPT !["process"] = "enqueue"]
      /\ UNCHANGED <<mode, ok, captured, queue, hand, shown, stop, dtor>>
  BY DEF ProcessFrame, Goto
<1>3. /\ pc'["process"] = "enqueue" /\ pc'["decode"] = pc["decode"]
      /\ pc'["display"] = pc["display"]
  BY <1>1, <1>2 DEF Thread
<1>4. Taken = hand["process"] /\ Taken' = Taken
  BY <1>2, <1>3 DEF Taken
<1>5. published < hand["process"] /\ hand["process"] <= captured
  BY <1>2, <1>4 DEF IInv, Upstream
<1>6. /\ published \in Nat /\ shown \in Nat /\ hand["process"] \in Nat
      /\ hand["display"] \in Nat /\ captured \in Nat
      /\ \A i \in DOMAIN queue["display"] : queue["display"][i] \in Nat
  BY Types DEF Reader, Thread
<1>7. TypeOK'
  <2>1. published' \in 0..captured' /\ shown' \in 0..published'
    BY <1>2, <1>5, <1>6 DEF IInv, TypeOK
  <2>2. QED
    BY <1>2, <2>1 DEF IInv, TypeOK, Place
<1>8. Upstream'
  BY <1>2, <1>3, <1>4, <1>5 DEF IInv, Upstream
<1>9. Downstream'
  <2>1. /\ Increasing(queue["display"]) /\ Within(queue["display"], shown, published)
        /\ shown <= published
        /\ pc["display"] = "work" =>
             /\ shown < hand["display"] /\ hand["display"] <= published
             /\ \A i \in DOMAIN queue["display"] : hand["display"] < queue["display"][i]
    BY DEF IInv, Downstream
  <2>2. Within(queue["display"], shown, hand["process"])
    BY <1>5, <1>6, <2>1 DEF Within
  <2>3. Below(queue["display"], hand["process"])
    BY <1>5, <1>6, <2>1 DEF Within, Below
  <2>4. shown < hand["process"] /\ shown <= hand["process"]
    BY <1>5, <1>6, <2>1
  <2>5. pc["display"] = "work" =>
          hand["display"] <= hand["process"] /\ hand["display"] < hand["process"]
    BY <1>5, <1>6, <2>1
  <2>6. QED
    BY <1>2, <1>3, <2>1, <2>2, <2>3, <2>4, <2>5 DEF Downstream
<1>10. QED
  BY <1>7, <1>8, <1>9 DEF IInv

\* The published frame is queued for the display, unless the queue is full.
LEMMA Enqueue == ASSUME IInv, EnqueueDisplay PROVE IInv'
<1> USE CapAssumption
<1> DEFINE sq == queue["display"]
           n  == hand["process"]
<1>1. /\ sq \in Seq(Frame) /\ queue \in [Reader -> Seq(Frame)] /\ pc \in [Thread -> Place]
      /\ n \in {0} \cup Frame /\ Len(sq) <= DisplayCap
  BY DEF IInv, TypeOK, Reader, Thread
<1>2. /\ pc["process"] = "enqueue"
      /\ pc' = Notified([pc EXCEPT !["process"] = "top"], "display")
      /\ queue' = IF Len(sq) < DisplayCap
                  THEN [queue EXCEPT !["display"] = Append(sq, n)] ELSE queue
      /\ UNCHANGED <<mode, ok, captured, hand, published, shown, stop, dtor>>
  BY DEF EnqueueDisplay
<1>3. /\ pc' \in [Thread -> Place] /\ pc'["process"] = "top" /\ pc'["decode"] = pc["decode"]
      /\ pc'["display"] = "work" => pc["display"] = "work"
  BY <1>1, <1>2 DEF Notified, Thread, Place
<1>4. /\ Increasing(sq) /\ Within(sq, shown, published)
      /\ shown <= published
      /\ pc["display"] = "work" =>
           /\ shown < hand["display"] /\ hand["display"] <= published
           /\ \A i \in DOMAIN sq : hand["display"] < sq[i]
      /\ n = published /\ shown < published /\ Below(sq, published)
      /\ pc["display"] = "work" => hand["display"] < published
  BY <1>2 DEF IInv, Downstream
<1>5. published \in Nat /\ shown \in Nat /\ n \in Nat /\ published <= published
  BY Types DEF Reader, Thread
<1>6. n \in Frame
  BY <1>1, <1>4, <1>5
<1>7. /\ queue'["decode"] = queue["decode"] /\ queue'["process"] = queue["process"]
      /\ \/ queue'["display"] = sq
         \/ queue'["display"] = Append(sq, n) /\ Len(sq) < DisplayCap
  BY <1>1, <1>2 DEF Reader, Thread
<1>8. /\ Append(sq, n) \in Seq(Frame)
      /\ Increasing(Append(sq, n)) /\ Within(Append(sq, n), shown, published)
  <2> HIDE DEF sq, n
  <2> QED
    BY <1>1, <1>4, <1>5, <1>6, AppendFacts
<1>9. /\ Len(Append(sq, n)) = Len(sq) + 1 /\ Len(sq) \in Nat
      /\ \A i \in DOMAIN Append(sq, n) :
           \/ i \in DOMAIN sq /\ Append(sq, n)[i] = sq[i]
           \/ Append(sq, n)[i] = n
  BY <1>1
<1> HIDE DEF sq, n
<1>10. TypeOK'
  <2>1. queue' \in [Reader -> Seq(Frame)]
    BY <1>1, <1>2, <1>8 DEF Reader, Thread
  <2>2. Len(queue'["display"]) <= DisplayCap
    BY <1>1, <1>7, <1>9
  <2>3. QED
    BY <1>2, <1>3, <2>1, <2>2 DEF IInv, TypeOK
<1>11. Upstream'
  <2>1. Taken' = Taken
    BY <1>2, <1>3 DEF Taken
  <2>2. QED
    BY <1>2, <1>3, <1>7, <2>1 DEF IInv, Upstream
<1>12. Downstream'
  <2>1. Increasing(queue["display"])' /\ Within(queue["display"], shown, published)'
    BY <1>2, <1>4, <1>7, <1>8
  <2>2. pc["display"] = "work" =>
          \A i \in DOMAIN queue'["display"] : hand["display"] < queue'["display"][i]
    BY <1>4, <1>7, <1>9
  <2>3. QED
    BY <1>2, <1>3, <1>4, <2>1, <2>2 DEF Downstream
<1>13. QED
  BY <1>10, <1>11, <1>12 DEF IInv

\* The display thread takes the oldest task.
LEMMA PopDisplay ==
  ASSUME IInv, Check("display"), queue["display"] # <<>>, pc'["display"] = "work"
  PROVE  IInv'
<1> USE CapAssumption
<1> DEFINE sq == queue["display"]
<1>1. /\ sq \in Seq(Frame) /\ queue \in [Reader -> Seq(Frame)] /\ pc \in [Thread -> Place]
      /\ hand \in [Reader -> {0} \cup Frame] /\ Len(sq) <= DisplayCap
  BY DEF IInv, TypeOK, Reader, Thread
<1>2. /\ pc["display"] = "check"
      /\ hand' = [hand EXCEPT !["display"] = Head(sq)]
      /\ queue' = [queue EXCEPT !["display"] = Tail(sq)]
      /\ pc' = [pc EXCEPT !["display"] = "work"]
      /\ UNCHANGED <<mode, ok, captured, published, shown, stop, dtor>>
  BY <1>1 DEF Check, Goto, Thread
<1>3. /\ queue'["display"] = Tail(sq) /\ queue'["process"] = queue["process"]
      /\ queue'["decode"] = queue["decode"]
      /\ hand'["display"] = Head(sq) /\ hand'["process"] = hand["process"]
      /\ hand'["decode"] = hand["decode"]
      /\ pc'["display"] = "work" /\ pc'["process"] = pc["process"]
      /\ pc'["decode"] = pc["decode"]
      /\ captured' = captured /\ published' = published /\ shown' = shown /\ mode' = mode
  BY <1>1, <1>2 DEF Reader, Thread
<1>4. /\ Increasing(sq) /\ Within(sq, shown, published) /\ shown <= published
      /\ pc["process"] = "enqueue" =>
           hand["process"] = published /\ shown < published /\ Below(sq, published)
  BY DEF IInv, Downstream
<1>5. published \in Nat /\ shown \in Nat
  BY Types
<1> HIDE DEF sq
<1>6. /\ Tail(sq) \in Seq(Frame)
      /\ Head(sq) \in Frame /\ shown < Head(sq) /\ Head(sq) <= published
      /\ Increasing(Tail(sq)) /\ Within(Tail(sq), Head(sq), published)
      /\ \A i \in DOMAIN Tail(sq) : i + 1 \in DOMAIN sq /\ Tail(sq)[i] = sq[i + 1]
      /\ 1 \in DOMAIN sq /\ Head(sq) = sq[1]
  BY <1>1, <1>4, <1>5, PopFacts DEF sq
<1>7. Len(Tail(sq)) <= DisplayCap
  BY <1>1 DEF sq
<1>8. TypeOK'
  BY <1>1, <1>2, <1>3, <1>6, <1>7 DEF IInv, TypeOK, Reader, Thread, Place
<1>9. Upstream'
  <2>1. Taken' = Taken
    BY <1>3 DEF Taken
  <2>2. QED
    BY <1>3, <2>1 DEF IInv, Upstream
<1>10. Downstream'
  <2>1. Within(Tail(sq), shown, published)
    <3>1. /\ Head(sq) \in Nat /\ shown <= Head(sq) /\ published <= published
      BY <1>5, <1>6, Types
    <3>2. QED
      BY <1>5, <1>6, <3>1, WithinWider
  <2>2. \A i \in DOMAIN Tail(sq) : Head(sq) < Tail(sq)[i]
    BY <1>6 DEF Within
  <2>3. pc["process"] = "enqueue" => Below(Tail(sq), published) /\ Head(sq) < published
    BY <1>4, <1>6 DEF Below
  <2>4. QED
    BY <1>3, <1>4, <1>6, <2>1, <2>2, <2>3 DEF Downstream
<1>11. QED
  BY <1>8, <1>9, <1>10 DEF IInv

\* The frame in the hand of the display thread is shown.
LEMMA Show == ASSUME IInv, Display PROVE IInv'
<1> USE CapAssumption
<1>1. pc \in [Thread -> Place]
  BY DEF IInv, TypeOK
<1>2. /\ pc["display"] = "work" /\ shown' = hand["display"]
      /\ pc' = [pc EXCEPT !["display"] = "top"]
      /\ UNCHANGED <<mode, ok, captured, queue, hand, published, stop, dtor>>
  BY DEF Display, Goto
<1>3. /\ pc'["display"] = "top" /\ pc'["decode"] = pc["decode"]
      /\ pc'["process"] = pc["process"]
  BY <1>1, <1>2 DEF Thread
<1>4. /\ Increasing(queue["display"]) /\ Within(queue["display"], shown, published)
      /\ shown < hand["display"] /\ hand["display"] <= published
      /\ \A i \in DOMAIN queue["display"] : hand["display"] < queue["display"][i]
      /\ pc["process"] = "enqueue" =>
           /\ hand["process"] = published /\ Below(queue["display"], published)
           /\ hand["display"] < published
  BY <1>2 DEF IInv, Downstream
<1>5. hand["display"] \in Nat /\ published \in Nat
  BY Types DEF Reader, Thread
<1>6. TypeOK'
  <2>1. shown' \in 0..published'
    BY <1>2, <1>4, <1>5
  <2>2. QED
    BY <1>2, <2>1 DEF IInv, TypeOK, Place
<1>7. Upstream'
  <2>1. Taken' = Taken
    BY <1>2, <1>3 DEF Taken
  <2>2. QED
    BY <1>2, <1>3, <2>1 DEF IInv, Upstream
<1>8. Downstream'
  <2>1. Within(queue["display"], hand["display"], published)
    BY <1>4 DEF Within
  <2>2. QED
    BY <1>2, <1>3, <1>4, <2>1 DEF Downstream
<1>9. QED
  BY <1>6, <1>7, <1>8 DEF IInv

\* What Quiet asks of a step of thread t that only moves t.
LEMMA Move ==
  ASSUME IInv, NEW t \in Thread, NEW place \in Place \ {"work", "enqueue"},
         pc[t] = "work" => t # "process",
         Goto(t, place),
         UNCHANGED <<mode, ok, captured, queue, hand, published, shown, stop, dtor>>
  PROVE  IInv'
<1>1. pc \in [Thread -> Place] /\ ok \in BOOLEAN /\ stop \subseteq Thread
      /\ dtor \in [at : 0..5, step : {"stop", "notify", "join"}]
  BY DEF IInv, TypeOK
<1>2. /\ pc' \in [Thread -> Place] /\ pc'[t] = place
      /\ \A u \in Thread \ {t} : pc'[u] = pc[u]
  BY <1>1 DEF Goto
<1>3. \A u \in Thread : pc'[u] \in {"work", "enqueue"} => pc'[u] = pc[u]
  BY <1>2
<1>4. pc["process"] = "work" => pc'["process"] = "work"
  BY <1>2 DEF Thread
<1>5. QED
  BY <1>1, <1>2, <1>3, <1>4, Quiet

LEMMA TopInv == ASSUME IInv, NEW t \in Thread, Top(t) PROVE IInv'
<1>1. CASE Continue(t)
  BY <1>1, Move DEF Top, Place
<1>2. CASE ~Continue(t)
  BY <1>2, Move DEF Top, Place
<1>3. QED
  BY <1>1, <1>2

LEMMA CheckInv == ASSUME IInv, NEW t \in Sleeper, Check(t) PROVE IInv'
<1>1. t \in Thread /\ t # "process" /\ pc \in [Thread -> Place] /\ pc[t] = "check"
  BY DEF Sleeper, Thread, Check, IInv, TypeOK
<1>2. CASE Goto(t, "exited") /\ UNCHANGED <<queue, hand>>
  BY <1>1, <1>2, Move DEF Check, Place
<1>3. CASE Goto(t, "block") /\ UNCHANGED <<queue, hand>>
  BY <1>1, <1>3, Move DEF Check, Place
<1>4. CASE queue[t] # <<>> /\ Goto(t, "work")
  <2>1. pc'[t] = "work"
    BY <1>1, <1>4 DEF Goto
  <2>2. QED
    BY <1>4, <2>1, PopDecode, PopDisplay DEF Sleeper
<1>5. QED
  BY <1>2, <1>3, <1>4 DEF Check

LEMMA HikInv == ASSUME IInv, Started, HikRead PROVE IInv'
<1>1. pc \in [Thread -> Place] /\ pc["hik"] = "check"
  BY DEF IInv, TypeOK, HikRead
<1>2. CASE Push("process")
  <2>1. /\ pc' \in [Thread -> Place] /\ pc'["decode"] = pc["decode"]
        /\ pc'["process"] = pc["process"] /\ pc'["display"] = pc["display"]
    BY <1>1 DEF HikRead, Goto, Thread, Place
  <2>2. UNCHANGED <<mode, ok, hand, published, shown, stop, dtor>>
    BY DEF HikRead
  <2>3. mode # "rosbag"
    BY <1>1 DEF Started
  <2>4. QED
    BY <1>2, <2>1, <2>2, <2>3, PushProcess
<1>3. CASE UNCHANGED <<captured, queue>>
  BY <1>1, <1>3, Move DEF HikRead, Thread, Place
<1>4. QED
  BY <1>2, <1>3 DEF HikRead

LEMMA NextInv == IInv /\ Started /\ [Next]_vars => IInv'
<1> SUFFICES ASSUME IInv, Started, [Next]_vars PROVE IInv'
  OBVIOUS
<1> USE CapAssumption
<1>1. /\ pc \in [Thread -> Place] /\ ok \in BOOLEAN /\ stop \subseteq Thread
      /\ dtor \in [at : 0..5, step : {"stop", "notify", "join"}]
      /\ Thread = {"hik", "decode", "process", "display"}
      /\ Sleeper = {"decode", "display"}
  BY DEF IInv, TypeOK, Thread, Sleeper
<1>2. CASE CompressedCallback
  BY <1>2, PushDecode
<1>3. CASE ImageCallback
  <2>1. mode # "rosbag" /\ pc' = pc
    BY <1>3 DEF ImageCallback
  <2>2. QED
    BY <1>1, <1>3, <2>1, PushProcess DEF ImageCallback
<1>4. CASE HikStep
  BY <1>1, <1>4, TopInv, HikInv DEF HikStep
<1>5. CASE DecodeStep
  <2>1. CASE Top("decode")
    BY <1>1, <2>1, TopInv
  <2>2. CASE Check("decode")
    BY <1>1, <2>2, CheckInv
  <2>3. CASE Block("decode")
    BY <1>1, <2>3, Move DEF Block, Place
  <2>4. CASE Decode
    <3>1. CASE queue' = [queue EXCEPT !["process"] = Append(@, hand["decode"])]
      BY <2>4, <3>1, PushDecoded
    <3>2. CASE UNCHANGED queue
      BY <1>1, <2>4, <3>2, Move DEF Decode, Place
    <3>3. QED
      BY <2>4, <3>1, <3>2 DEF Decode
  <2>5. QED
    BY <1>5, <2>1, <2>2, <2>3, <2>4 DEF DecodeStep
<1>6. CASE ProcessStep
  <2>1. CASE Top("process")
    BY <1>1, <2>1, TopInv
  <2>2. CASE Take
    <3>1. CASE queue["process"] = <<>>
      BY <1>1, <2>2, <3>1, Move DEF Take, Place
    <3>2. CASE queue["process"] # <<>>
      BY <2>2, <3>2, TakeNewest
    <3>3. QED
      BY <3>1, <3>2
  <2>3. CASE ProcessFrame
    BY <2>3, Publish
  <2>4. CASE EnqueueDisplay
    BY <2>4, Enqueue
  <2>5. QED
    BY <1>6, <2>1, <2>2, <2>3, <2>4 DEF ProcessStep
<1>7. CASE DisplayStep
  <2>1. CASE Top("display")
    BY <1>1, <2>1, TopInv
  <2>2. CASE Check("display")
    BY <1>1, <2>2, CheckInv
  <2>3. CASE Block("display")
    BY <1>1, <2>3, Move DEF Block, Place
  <2>4. CASE Display
    BY <2>4, Show
  <2>5. QED
    BY <1>7, <2>1, <2>2, <2>3, <2>4 DEF DisplayStep
<1>8. ASSUME NEW t \in Sleeper, WakeSpuriously(t) PROVE IInv'
  BY <1>1, <1>8, Move DEF WakeSpuriously, Place
<1>9. CASE Signal \/ SpinReturns
  <2>1. ok' \in BOOLEAN /\ dtor' \in [at : 0..5, step : {"stop", "notify", "join"}]
    <3>1. CASE Signal
      BY <1>1, <3>1 DEF Signal
    <3>2. CASE SpinReturns
      BY <1>1, <3>2 DEF SpinReturns
    <3>3. QED
      BY <1>9, <3>1, <3>2
  <2>2. QED
    BY <1>1, <1>9, <2>1, Quiet DEF Signal, SpinReturns
<1>10. CASE DtorStop
  <2>1. /\ stop' \subseteq Thread
        /\ dtor' \in [at : 0..5, step : {"stop", "notify", "join"}]
    BY <1>1, <1>10 DEF DtorStop, Stopping, StopOrder
  <2>2. QED
    BY <1>1, <1>10, <2>1, Quiet DEF DtorStop
<1>11. CASE DtorNotify
  <2>1. dtor' \in [at : 0..5, step : {"stop", "notify", "join"}]
    BY <1>1, <1>11 DEF DtorNotify
  <2>2. /\ pc' \in [Thread -> Place]
        /\ \A t \in Thread : pc'[t] \in {"work", "enqueue"} => pc'[t] = pc[t]
        /\ \A t \in Thread : pc[t] = "work" => pc'[t] = "work"
    BY <1>1, <1>11 DEF DtorNotify, Notified, Place
  <2>3. QED
    BY <1>1, <1>11, <2>1, <2>2, Quiet DEF DtorNotify
<1>12. CASE DtorJoin
  <2>1. dtor' \in [at : 0..5, step : {"stop", "notify", "join"}]
    BY <1>1, <1>12 DEF DtorJoin, StopOrder
  <2>2. QED
    BY <1>1, <1>12, <2>1, Quiet DEF DtorJoin
<1>13. CASE UNCHANGED vars
  BY <1>1, <1>13, Quiet DEF vars
<1>14. QED
  BY <1>2, <1>3, <1>4, <1>5, <1>6, <1>7, <1>8, <1>9, <1>10, <1>11, <1>12, <1>13
  DEF Next, DtorStep
-----------------------------------------------------------------------------
(* The end of the threads *)

\* A thread that ended never runs again.
LEMMA ExitedStays ==
  ASSUME TypeOK, [Next]_vars, NEW t \in Thread, pc[t] = "exited"
  PROVE  pc'[t] = "exited"
<1>1. pc \in [Thread -> Place]
  BY DEF TypeOK
<1>2. CASE CompressedCallback
  BY <1>1, <1>2 DEF CompressedCallback, Notified
<1>3. CASE ImageCallback
  BY <1>3 DEF ImageCallback
<1>4. CASE HikStep
  BY <1>1, <1>4 DEF HikStep, Top, HikRead, Goto
<1>5. CASE DecodeStep
  BY <1>1, <1>5 DEF DecodeStep, Top, Check, Block, Decode, Goto
<1>6. CASE ProcessStep
  BY <1>1, <1>6 DEF ProcessStep, Top, Take, ProcessFrame, EnqueueDisplay, Notified, Goto
<1>7. CASE DisplayStep
  BY <1>1, <1>7 DEF DisplayStep, Top, Check, Block, Display, Goto
<1>8. CASE \E u \in Sleeper : WakeSpuriously(u)
  BY <1>1, <1>8 DEF WakeSpuriously, Goto
<1>9. CASE DtorStep
  BY <1>1, <1>9 DEF DtorStep, DtorStop, DtorNotify, DtorJoin, Notified
<1>10. CASE Signal \/ SpinReturns \/ UNCHANGED vars
  BY <1>10 DEF Signal, SpinReturns, vars
<1>11. QED
  BY <1>2, <1>3, <1>4, <1>5, <1>6, <1>7, <1>8, <1>9, <1>10 DEF Next

LEMMA StartedInv == TypeOK /\ Started /\ [Next]_vars => Started'
<1> SUFFICES ASSUME TypeOK, Started, [Next]_vars PROVE Started'
  OBVIOUS
<1>1. mode' = mode
  BY DEF Next, vars, CompressedCallback, ImageCallback, HikStep, DecodeStep, ProcessStep,
         DisplayStep, Top, HikRead, Check, Block, Decode, Take, ProcessFrame,
         EnqueueDisplay, Display, WakeSpuriously, Signal, SpinReturns, DtorStep, DtorStop,
         DtorNotify, DtorJoin
<1>2. "hik" \in Thread
  BY DEF Thread
<1>3. QED
  BY <1>1, <1>2, ExitedStays DEF Started

\* The destructor goes on to the next thread only when it has joined this one.
LEMMA DtorSteps ==
  ASSUME TypeOK, [Next]_vars
  PROVE  \/ dtor'.at = dtor.at
         \/ dtor.at = 0 /\ dtor'.at = 1
         \/ /\ dtor.at \in DOMAIN StopOrder /\ pc[StopOrder[dtor.at]] = "exited"
            /\ dtor'.at = dtor.at + 1
<1>1. dtor \in [at : 0..5, step : {"stop", "notify", "join"}]
  BY DEF TypeOK
<1>2. CASE SpinReturns
  BY <1>1, <1>2 DEF SpinReturns
<1>3. CASE DtorJoin
  BY <1>3 DEF DtorJoin, Stopping
<1>4. CASE DtorStop \/ DtorNotify
  BY <1>1, <1>4 DEF DtorStop, DtorNotify
<1>5. CASE ~SpinReturns /\ ~DtorStep
  <2>1. dtor' = dtor
    BY <1>5 DEF Next, vars, CompressedCallback, ImageCallback, HikStep, DecodeStep,
         ProcessStep, DisplayStep, Top, HikRead, Check, Block, Decode, Take,
         ProcessFrame, EnqueueDisplay, Display, WakeSpuriously, Signal
  <2>2. QED
    BY <2>1
<1>6. QED
  BY <1>2, <1>3, <1>4, <1>5 DEF DtorStep

LEMMA JoinedInv == TypeOK /\ Joined /\ [Next]_vars => Joined'
<1> SUFFICES ASSUME TypeOK, Joined, [Next]_vars,
                    NEW k \in DOMAIN StopOrder, k < dtor'.at
             PROVE  pc'[StopOrder[k]] = "exited"
  BY DEF Joined
<1>1. StopOrder[k] \in Thread /\ k \in 1..4 /\ DOMAIN StopOrder = 1..4
  BY DEF StopOrder, Thread
<1>2. dtor.at \in 0..5
  BY DEF TypeOK
<1>3. pc[StopOrder[k]] = "exited"
  <2>1. CASE dtor'.at = dtor.at
    BY <2>1 DEF Joined
  <2>2. CASE dtor.at = 0 /\ dtor'.at = 1
    BY <1>1, <2>2
  <2>3. CASE /\ dtor.at \in DOMAIN StopOrder /\ pc[StopOrder[dtor.at]] = "exited"
             /\ dtor'.at = dtor.at + 1
    <3>1. k < dtor.at \/ k = dtor.at
      BY <1>1, <1>2, <2>3
    <3>2. QED
      BY <2>3, <3>1 DEF Joined
  <2>4. QED
    BY <2>1, <2>2, <2>3, DtorSteps
<1>4. QED
  BY <1>1, <1>3, ExitedStays
-----------------------------------------------------------------------------
(* Theorems *)

LEMMA Invariant == Spec => [](IInv /\ Started /\ Joined)
<1>1. Init => IInv /\ Started /\ Joined
  BY InitInv
<1>2. IInv /\ Started /\ Joined /\ [Next]_vars => (IInv /\ Started /\ Joined)'
  BY NextInv, StartedInv, JoinedInv DEF IInv
<1>3. QED
  BY <1>1, <1>2, PTL DEF Spec

\* Type correctness: with any number of frames and any limit of display_queue_,
\* every variable keeps its type and the display queue its bound.
THEOREM TypeCorrect == Spec => []TypeOK
<1>1. IInv => TypeOK
  BY DEF IInv
<1>2. QED
  BY <1>1, Invariant, PTL

\* ~DetectorNode joins every thread it started: when it is through, none of
\* them runs, however the shutdown interleaves with the frames.
THEOREM ThreadsJoined == Spec => []NoThreadOutlivesNode
<1>1. IInv /\ Joined => NoThreadOutlivesNode
  <2> SUFFICES ASSUME IInv, Joined, dtor.at > Len(StopOrder), NEW t \in Thread
               PROVE  pc[t] = "exited"
    BY DEF NoThreadOutlivesNode
  <2>1. dtor.at \in 0..5 /\ Len(StopOrder) = 4 /\ DOMAIN StopOrder = 1..4
    BY DEF IInv, TypeOK, StopOrder
  <2>2. PICK k \in 1..4 : StopOrder[k] = t
    <3>1. /\ StopOrder[1] = "hik" /\ StopOrder[2] = "decode"
          /\ StopOrder[3] = "process" /\ StopOrder[4] = "display"
      BY DEF StopOrder
    <3>2. QED
      BY <3>1 DEF Thread
  <2>3. QED
    BY <2>1, <2>2 DEF Joined
<1>2. QED
  BY <1>1, Invariant, PTL

\* Every step of the threads publishes a newer frame, shows a newer published
\* frame, captures the next one, or is invisible to a reader of the topics.
LEMMA StepRefines ==
  IInv /\ [Next]_vars => [Latest!Next]_(Latest!vars)
<1> SUFFICES ASSUME IInv, [Next]_vars PROVE [Latest!Next]_(Latest!vars)
  OBVIOUS
<1> USE DEF Latest!Next, Latest!vars
<1>1. CASE UNCHANGED <<captured, published, shown>>
  BY <1>1
<1>2. CASE captured' = captured + 1 /\ UNCHANGED <<published, shown>>
  BY <1>2 DEF Latest!Capture
<1>3. CASE ProcessFrame
  <2>1. published' = hand["process"] /\ UNCHANGED <<captured, shown>>
    BY <1>3 DEF ProcessFrame
  <2>2. published < hand["process"] /\ hand["process"] <= captured
    BY <1>3 DEF ProcessFrame, IInv, Upstream, Taken
  <2>3. hand["process"] \in Nat /\ published \in Nat /\ captured \in Nat
    BY Types DEF Reader, Thread
  <2>4. hand["process"] \in (published + 1)..captured
    BY <2>2, <2>3
  <2>5. QED
    BY <2>1, <2>4 DEF Latest!Publish
<1>4. CASE Display
  <2>1. shown' = hand["display"] /\ UNCHANGED <<captured, published>>
    BY <1>4 DEF Display
  <2>2. shown < hand["display"] /\ hand["display"] <= published
    BY <1>4 DEF Display, IInv, Downstream
  <2>3. hand["display"] \in Nat /\ published \in Nat /\ shown \in Nat
    BY Types DEF Reader, Thread
  <2>4. hand["display"] \in (shown + 1)..published
    BY <2>2, <2>3
  <2>5. QED
    BY <2>1, <2>4 DEF Latest!Show
<1>5. CASE CompressedCallback \/ ImageCallback \/ HikRead
  BY <1>1, <1>2, <1>5 DEF CompressedCallback, ImageCallback, HikRead, Push
<1>6. CASE /\ ~ProcessFrame /\ ~Display
           /\ ~CompressedCallback /\ ~ImageCallback /\ ~HikRead
  <2>1. UNCHANGED <<captured, published, shown>>
    BY <1>6 DEF Next, vars, HikStep, DecodeStep, ProcessStep, DisplayStep, Top, Check,
         Block, Decode, Take, EnqueueDisplay, WakeSpuriously, Signal, SpinReturns, DtorStep,
         DtorStop, DtorNotify, DtorJoin
  <2>2. QED
    BY <1>1, <2>1
<1>7. QED
  BY <1>3, <1>4, <1>5, <1>6

\* The detect node implements LatestFrame: whatever the interleaving, the queue
\* lengths and the frames dropped, results are published and shown at most once
\* each and in the order of capture.
THEOREM ImplementsLatestFrame == Spec => LatestSpec
<1>1. Init => Latest!Init
  BY DEF Init, Latest!Init
<1>2. QED
  BY <1>1, StepRefines, Invariant, PTL DEF Spec, LatestSpec, Latest!Spec
=============================================================================
