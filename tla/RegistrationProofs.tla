------------------------- MODULE RegistrationProofs -------------------------
(***************************************************************************)
(* Proofs about Registration, for any set of parameters and poses.         *)
(***************************************************************************)
EXTENDS Registration, TLAPS

\* A guess the timers work with came with a scan, and the scan names its frame.
GuessHasFrame == mode.fixed /\ ~NeedQuatro(node) => node.frame = Lidar

\* What is in the member transform once Quatro has run.
QuatroLeavesResult ==
  mode.fixed /\ ~PreferConfig /\ node.quatroDone =>
    node.transform.by \in {"quatro", "gicp"}

IInv ==
  /\ TypeOK
  /\ FlagMatchesGuess
  /\ QuatroOnlyBootstraps
  /\ BootstrapNotStuck
  /\ TfIsLatest
  /\ GuessHasFrame
  /\ QuatroLeavesResult
  /\ FastTfWasComputed
-----------------------------------------------------------------------------
(* The helpers keep the type of the node *)

LEMMA ConstantTypes ==
  /\ 0 \in 0..MaxScans /\ 1 \in 0..MaxScans /\ 0 \in 0..3 /\ 0 \in 0..1
  /\ Identity \in Pose /\ ConfigPose \in Pose
  /\ EmptyTransform \in Transform
  /\ Lidar \in {NoFrame, Lidar}
  BY RegistrationAssumption DEF EmptyTransform, Transform

LEMMA ResetType == ASSUME NEW n \in Node PROVE Reset(n) \in Node
  BY ConstantTypes DEF Reset, Node

LEMMA AutoPoseType == ASSUME NEW n \in Node PROVE AutoPose(n) \in Node
  BY ConstantTypes DEF AutoPose, Node

LEMMA ReplacedType == ASSUME NEW n \in Node PROVE Replaced(n) \in Node
  BY ConstantTypes DEF Replaced, Node

LEMMA AccumulatedType ==
  ASSUME NEW n \in Node, n.counter <= 2 PROVE Accumulated(n) \in Node
<1>1. AtMost(n.scans + 1, MaxScans) \in 0..MaxScans /\ n.counter + 1 \in 0..3
  BY RegistrationAssumption DEF AtMost, Node
<1>2. QED
  BY <1>1 DEF Accumulated, Node, Lidar, NoFrame

LEMMA FromQuatroType ==
  ASSUME NEW n \in Node, NEW p \in Pose PROVE FromQuatro(n, p) \in Node
  BY DEF FromQuatro, Node, Transform, Lidar, NoFrame

LEMMA QuatroSuccessType ==
  ASSUME NEW n \in Node, NEW p \in Pose PROVE QuatroSuccess(n, p) \in Node
  BY FromQuatroType DEF QuatroSuccess, Node

LEMMA RelocalizedType ==
  ASSUME NEW n \in Node, NEW r \in Result PROVE Relocalized(n, r) \in Node
<1>1. r.pose \in Pose
  BY DEF Result
<1>2. Converged(n, r) \in Node
  BY <1>1 DEF Converged, GicpTransform, Node, Transform
<1>3. Failed(n) \in Node
  <2>1. Reset(n) \in Node
    BY ResetType
  <2>2. GicpTransform(n, n.guess, "guess") \in Transform
    BY DEF GicpTransform, Node, Transform
  <2>3. QED
    BY <2>1, <2>2 DEF Failed, Node
<1>4. QED
  BY <1>2, <1>3 DEF Relocalized
-----------------------------------------------------------------------------
(* Each step preserves the invariant *)

LEMMA InitInv == Init => IInv
<1> SUFFICES ASSUME Init PROVE IInv
  OBVIOUS
<1> USE RegistrationAssumption
<1>1. node \in Node
  BY ConstantTypes DEF Init, Node
<1>2. TypeOK
  BY <1>1, ConstantTypes DEF Init, TypeOK
<1>3. QED
  BY <1>2 DEF Init, IInv, FlagMatchesGuess, QuatroOnlyBootstraps, BootstrapNotStuck,
     TfIsLatest, GuessHasFrame, QuatroLeavesResult, FastTfWasComputed, NeedQuatro

LEMMA CloudInv == ASSUME IInv, CloudCb PROVE IInv'
<1> DEFINE n == AutoPose(node)
           bootstrap == mode.fixed /\ n.counter <= 2 /\ NeedQuatro(n)
<1>1. /\ n \in Node /\ node \in Node
      /\ n.first = node.first /\ n.quatroDone = node.quatroDone /\ n.pre = node.pre
      /\ n.counter = node.counter /\ n.transform = node.transform
      /\ n.usingConfig => mode.config /\ n.guess = ConfigPose
      /\ node.usingConfig => n.usingConfig
      /\ UNCHANGED <<mode, streak>>
  BY AutoPoseType DEF IInv, TypeOK, FlagMatchesGuess, AutoPose, CloudCb, Node
<1> HIDE DEF n
<1>2. CASE bootstrap /\ Bootstrap(n)
  <2> DEFINE m == Accumulated(n)
  <2>1. /\ m \in Node /\ m.first = n.first /\ m.usingConfig = n.usingConfig
        /\ m.guess = n.guess /\ m.quatroDone = n.quatroDone /\ m.frame = Lidar
        /\ m.transform = n.transform /\ ~m.quatroDone
    BY <1>1, <1>2, AccumulatedType DEF Accumulated, Node, NeedQuatro
  <2>2. ~node.first /\ NeedQuatro(node)
    BY <1>1, <1>2 DEF IInv, QuatroOnlyBootstraps, NeedQuatro
  <2> HIDE DEF m
  <2>3. CASE m.counter <= 2 /\ node' = m /\ UNCHANGED tf
    BY <1>1, <2>1, <2>2, <2>3 DEF IInv, TypeOK, FlagMatchesGuess, QuatroOnlyBootstraps,
       BootstrapNotStuck, TfIsLatest, GuessHasFrame, QuatroLeavesResult,
       FastTfWasComputed, PreferConfig
  <2>4. ASSUME NEW p \in Pose, node' = QuatroSuccess(m, p), Sent("quatro") PROVE IInv'
    <3>0. node' \in Node
      BY <2>1, <2>4, QuatroSuccessType
    <3>1. /\ node' \in Node /\ ~node'.usingConfig /\ node'.quatroDone
          /\ node'.frame = Lidar /\ node'.transform.by = "quatro" /\ ~node'.first
      BY <1>1, <2>1, <2>2, <2>4, <3>0 DEF QuatroSuccess, FromQuatro, Node
    <3>2. tf' = [via |-> "quatro", what |-> node'.transform] /\ node'.transform \in Transform
      BY <2>4, <3>1 DEF Sent, Node
    <3>3. QED
      BY <1>1, <3>1, <3>2 DEF IInv, TypeOK, FlagMatchesGuess, QuatroOnlyBootstraps,
         BootstrapNotStuck, TfIsLatest, GuessHasFrame, QuatroLeavesResult,
         FastTfWasComputed, PreferConfig, NeedQuatro
  <2>5. CASE node' = [m EXCEPT !.counter = 0] /\ UNCHANGED tf
    <3>1. /\ node' \in Node /\ node'.counter = 0 /\ node'.first = m.first
          /\ node'.usingConfig = m.usingConfig /\ node'.guess = m.guess
          /\ node'.quatroDone = m.quatroDone /\ node'.frame = Lidar
      BY <2>1, <2>5 DEF Node
    <3>2. QED
      BY <1>1, <2>1, <2>2, <2>5, <3>1 DEF IInv, TypeOK, FlagMatchesGuess,
         QuatroOnlyBootstraps, BootstrapNotStuck, TfIsLatest, GuessHasFrame,
         QuatroLeavesResult, FastTfWasComputed, PreferConfig
  <2>6. QED
    BY <1>2, <2>3, <2>4, <2>5 DEF Bootstrap, m
<1>3. CASE ~mode.fixed /\ EveryScan(n)
  <2>1. node' \in Node /\ node'.usingConfig = n.usingConfig /\ node'.guess = n.guess
    <3>1. /\ Replaced(n) \in Node /\ Replaced(n).usingConfig = n.usingConfig
          /\ Replaced(n).guess = n.guess
      BY <1>1, ReplacedType DEF Replaced, Node
    <3>2. ASSUME NEW p \in Pose, node' = FromQuatro(Replaced(n), p)
          PROVE  /\ node' \in Node /\ node'.usingConfig = n.usingConfig
                 /\ node'.guess = n.guess
      BY <3>1, <3>2, FromQuatroType DEF FromQuatro, Node
    <3>3. QED
      BY <1>3, <3>1, <3>2 DEF EveryScan
  <2>2. tf' \in [via : {"nobody", "quatro", "slow", "fast"}, what : Transform]
    BY <1>3, <2>1 DEF EveryScan, Sent, IInv, TypeOK, Node
  <2>3. QED
    BY <1>1, <1>3, <2>1, <2>2 DEF IInv, TypeOK, FlagMatchesGuess, QuatroOnlyBootstraps,
       BootstrapNotStuck, TfIsLatest, GuessHasFrame, QuatroLeavesResult,
       FastTfWasComputed
<1>4. CASE ~bootstrap /\ node' = Replaced(n) /\ UNCHANGED tf
  <2>1. /\ node' \in Node /\ node'.usingConfig = n.usingConfig /\ node'.guess = n.guess
        /\ node'.frame = Lidar /\ node'.counter = node.counter /\ node'.pre = node.pre
        /\ node'.first = node.first /\ node'.quatroDone = node.quatroDone
        /\ node'.transform = node.transform
    BY <1>1, <1>4, ReplacedType DEF Replaced, Node
  <2>2. NeedQuatro(node)' => NeedQuatro(node)
    BY <1>1, <2>1 DEF NeedQuatro, PreferConfig
  <2>3. QED
    BY <1>1, <1>4, <2>1, <2>2 DEF IInv, TypeOK, FlagMatchesGuess, QuatroOnlyBootstraps,
       BootstrapNotStuck, TfIsLatest, GuessHasFrame, QuatroLeavesResult,
       FastTfWasComputed, PreferConfig
<1>5. QED
  BY <1>2, <1>3, <1>4 DEF CloudCb, n

LEMMA PoseInv == ASSUME IInv, NEW p \in Pose, InitialPoseCb(p) PROVE IInv'
<1>1. /\ node' \in Node /\ node'.first = node.first /\ node'.pre = node.pre
      /\ node'.quatroDone = node.quatroDone /\ node'.counter = node.counter
      /\ node'.frame = node.frame /\ node'.transform = node.transform
      /\ UNCHANGED <<mode, tf, streak>>
  BY DEF InitialPoseCb, IInv, TypeOK, Node
<1>2. \/ node'.usingConfig = node.usingConfig /\ node'.guess = node.guess
      \/ ~node'.usingConfig /\ node'.quatroDone
  BY DEF InitialPoseCb, IInv, TypeOK, Node
<1>3. NeedQuatro(node)' <=> NeedQuatro(node)
  BY <1>1, <1>2 DEF NeedQuatro, PreferConfig
<1>4. QED
  BY <1>1, <1>2, <1>3 DEF IInv, TypeOK, FlagMatchesGuess, QuatroOnlyBootstraps,
     BootstrapNotStuck, TfIsLatest, GuessHasFrame, QuatroLeavesResult,
     FastTfWasComputed, PreferConfig

LEMMA TimerInv == ASSUME IInv, TimerCb PROVE IInv'
<1> DEFINE n == [node EXCEPT !.cov = TRUE]
<1>1. PICK r \in Result : node' = Relocalized(n, r)
  BY DEF TimerCb
<1>2. /\ n \in Node /\ n.first = node.first /\ n.pre = node.pre /\ n.guess = node.guess
      /\ n.quatroDone = node.quatroDone /\ n.usingConfig = node.usingConfig
      /\ n.counter = node.counter /\ n.frame = node.frame
      /\ n.transform = node.transform
  BY DEF IInv, TypeOK, Node
<1> HIDE DEF n
<1>3. node' \in Node
  BY <1>1, <1>2, RelocalizedType
<1>4. TypeOK'
  <2>1. streak' \in 0..2
    BY DEF TimerCb, AtMost, IInv, TypeOK
  <2>2. node'.transform \in Transform
    BY <1>3 DEF Node
  <2>3. QED
    BY <1>3, <2>1, <2>2 DEF TimerCb, Sent, IInv, TypeOK
<1>5. mode' = mode /\ tf'.via = "slow" /\ (mode.fixed => ~NeedQuatro(node))
  BY DEF TimerCb, Sent, TimersRun
<1>6. FastTfWasComputed'
  BY <1>5 DEF FastTfWasComputed
<1>7. CASE \/ ~n.gotPose /\ node' = n
           \/ node' = [n EXCEPT !.fails = 1]
  <2>1. /\ node'.first = node.first /\ node'.pre = node.pre /\ node'.guess = node.guess
        /\ node'.quatroDone = node.quatroDone /\ node'.usingConfig = node.usingConfig
        /\ node'.counter = node.counter /\ node'.frame = node.frame
        /\ node'.transform = node.transform
    BY <1>2, <1>7 DEF Node
  <2>2. QED
    BY <1>4, <1>5, <1>6, <2>1 DEF IInv, FlagMatchesGuess, QuatroOnlyBootstraps,
       BootstrapNotStuck, TfIsLatest, GuessHasFrame, QuatroLeavesResult, PreferConfig,
       NeedQuatro
<1>8. CASE node' = Converged(n, r)
  <2>1. /\ node'.guess = node.guess /\ node'.pre = r.pose
        /\ node'.quatroDone = node.quatroDone /\ node'.usingConfig = node.usingConfig
        /\ node'.counter = node.counter /\ node'.frame = node.frame
        /\ node'.transform = [child |-> node.frame, pose |-> r.pose, by |-> "gicp"]
    BY <1>2, <1>8 DEF Converged, GicpTransform, Node
  <2>2. mode.fixed => node.frame = Lidar
    BY <1>5 DEF IInv, GuessHasFrame
  <2>3. QED
    BY <1>4, <1>5, <1>6, <2>1, <2>2 DEF IInv, FlagMatchesGuess, QuatroOnlyBootstraps,
       BootstrapNotStuck, TfIsLatest, GuessHasFrame, QuatroLeavesResult, PreferConfig,
       NeedQuatro
<1>9. CASE \/ node' = [Reset(n) EXCEPT !.transform = GicpTransform(n, n.guess, "guess")]
           \/ node' = [Reset(n) EXCEPT !.fails = 0]
  <2>1. /\ Reset(n) \in Node /\ ~Reset(n).first /\ ~Reset(n).usingConfig
        /\ ~Reset(n).quatroDone /\ Reset(n).counter = 0
    BY <1>2, ResetType DEF Reset, Node
  <2>2. /\ ~node'.first /\ ~node'.usingConfig /\ ~node'.quatroDone /\ node'.counter = 0
    BY <1>9, <2>1 DEF Node
  <2>3. QED
    BY <1>4, <1>5, <1>6, <2>2 DEF IInv, FlagMatchesGuess, QuatroOnlyBootstraps,
       BootstrapNotStuck, TfIsLatest, GuessHasFrame, QuatroLeavesResult, NeedQuatro
<1>10. QED
  BY <1>1, <1>7, <1>8, <1>9 DEF Relocalized, Failed

LEMMA PubInv == ASSUME IInv, TimerPubTf PROVE IInv'
<1>1. /\ UNCHANGED <<mode, node, streak>>
      /\ tf' = [via |-> "fast", what |-> node.transform]
  BY DEF TimerPubTf, Sent
<1>2. TypeOK'
  BY <1>1 DEF IInv, TypeOK, Node
<1>3. FastTfWasComputed'
  <2>1. SUFFICES ASSUME mode.fixed, ~PreferConfig
                 PROVE  node.transform.by \in {"quatro", "gicp"}
    BY <1>1 DEF FastTfWasComputed, PreferConfig
  <2>2. node.quatroDone
    BY <2>1 DEF TimerPubTf, TimersRun, NeedQuatro
  <2>3. QED
    BY <2>1, <2>2 DEF IInv, QuatroLeavesResult
<1>4. QED
  BY <1>1, <1>2, <1>3 DEF IInv, FlagMatchesGuess, QuatroOnlyBootstraps,
     BootstrapNotStuck, TfIsLatest, GuessHasFrame, QuatroLeavesResult, NeedQuatro,
     PreferConfig

LEMMA NextInv == IInv /\ [Next]_vars => IInv'
<1> SUFFICES ASSUME IInv, [Next]_vars PROVE IInv'
  OBVIOUS
<1>1. CASE UNCHANGED vars
  BY <1>1 DEF vars, IInv, TypeOK, FlagMatchesGuess, QuatroOnlyBootstraps,
     BootstrapNotStuck, TfIsLatest, GuessHasFrame, QuatroLeavesResult,
     FastTfWasComputed, NeedQuatro, PreferConfig
<1>2. QED
  BY <1>1, CloudInv, PoseInv, TimerInv, PubInv DEF Next
-----------------------------------------------------------------------------
(* Theorems *)

LEMMA Invariant == Spec => []IInv
<1>1. QED
  BY InitInv, NextInv, PTL DEF Spec

\* Type correctness for every parameter set and every set of poses.
THEOREM TypeCorrect == Spec => []TypeOK
<1>1. IInv => TypeOK
  BY DEF IInv
<1>2. QED
  BY <1>1, Invariant, PTL

\* The flag of the configured guess never outlives the guess.
THEOREM FlagAlwaysMatches == Spec => []FlagMatchesGuess
<1>1. IInv => FlagMatchesGuess
  BY DEF IInv
<1>2. QED
  BY <1>1, Invariant, PTL

\* Quatro and a running registration exclude each other.
THEOREM QuatroBootstraps == Spec => []QuatroOnlyBootstraps
<1>1. IInv => QuatroOnlyBootstraps
  BY DEF IInv
<1>2. QED
  BY <1>1, Invariant, PTL

\* The bootstrap can always take another scan.
THEOREM BootstrapGoesOn == Spec => []BootstrapNotStuck
<1>1. IInv => BootstrapNotStuck
  BY DEF IInv
<1>2. QED
  BY <1>1, Invariant, PTL

\* The flags of registration_node.cpp agree in every reachable state.
THEOREM FlagsAlwaysAgree == Spec => []FlagsAgree
  BY FlagAlwaysMatches, QuatroBootstraps, BootstrapGoesOn, PTL DEF FlagsAgree

\* A registered node repeats its last result.
THEOREM RepeatsLatest == Spec => []TfIsLatest
<1>1. IInv => TfIsLatest
  BY DEF IInv
<1>2. QED
  BY <1>1, Invariant, PTL

\* Without a preferred configuration the fast timer repeats computed poses only.
THEOREM RepeatsComputed == Spec => []FastTfWasComputed
<1>1. IInv => FastTfWasComputed
  BY DEF IInv
<1>2. QED
  BY <1>1, Invariant, PTL

\* The first registration from the configuration stays within the jump limit of
\* the configured pose.
THEOREM FirstStaysNear == Spec => FirstNearConfig
<1> DEFINE Near == ~node.first /\ node'.first /\ node.usingConfig
                     => Jump(node'.pre, ConfigPose) <= MaxJump
<1>1. IInv /\ [Next]_vars => [Near]_vars
  <2> SUFFICES ASSUME IInv, [Next]_vars, ~node.first, node'.first, node.usingConfig
               PROVE  Jump(node'.pre, ConfigPose) <= MaxJump
    OBVIOUS
  <2>1. CASE CloudCb
    <3> DEFINE n == AutoPose(node)
               m == Accumulated(n)
    <3>1. n \in Node /\ ~n.first
      BY AutoPoseType DEF AutoPose, IInv, TypeOK, Node
    <3> HIDE DEF n
    <3>2. ~Replaced(n).first
      BY <3>1 DEF Replaced, Node
    <3>3. ASSUME NEW p \in Pose PROVE ~FromQuatro(Replaced(n), p).first
      BY <3>1 DEF Replaced, FromQuatro, Node
    <3>4. node' # Replaced(n) /\ \A p \in Pose : node' # FromQuatro(Replaced(n), p)
      BY <3>2, <3>3
    <3>5. n.counter <= 2 /\ Bootstrap(n)
      BY <2>1, <3>4 DEF CloudCb, EveryScan, n
    <3>6. m \in Node /\ ~m.first
      BY <3>1, <3>5, AccumulatedType DEF Accumulated, Node
    <3>7. \/ node' = m
          \/ \E p \in Pose : node' = QuatroSuccess(m, p)
          \/ node' = [m EXCEPT !.counter = 0]
      BY <3>5 DEF Bootstrap
    <3> HIDE DEF m
    <3>8. ASSUME NEW p \in Pose PROVE ~QuatroSuccess(m, p).first
      BY <3>6 DEF QuatroSuccess, FromQuatro, Node
    <3>9. ~[m EXCEPT !.counter = 0].first
      BY <3>6 DEF Node
    <3>10. QED
      BY <3>6, <3>7, <3>8, <3>9
  <2>2. ASSUME NEW p \in Pose, InitialPoseCb(p) PROVE node'.first = node.first
    BY <2>2 DEF InitialPoseCb, IInv, TypeOK, Node
  <2>3. CASE TimerCb
    <3> DEFINE n == [node EXCEPT !.cov = TRUE]
    <3>1. PICK r \in Result : node' = Relocalized(n, r)
      BY <2>3 DEF TimerCb
    <3>2. /\ n \in Node /\ ~n.first /\ n.usingConfig /\ n.guess = ConfigPose
      BY DEF IInv, TypeOK, FlagMatchesGuess, Node
    <3> HIDE DEF n
    <3>3. Reset(n) \in Node /\ ~Reset(n).first
      BY <3>2, ResetType DEF Reset, Node
    <3>4. ~Failed(n).first
      BY <3>2, <3>3 DEF Failed, Node
    <3>5. Accepted(n, r) /\ node' = Converged(n, r)
      BY <3>1, <3>2, <3>4 DEF Relocalized
    <3>6. node'.pre = r.pose
      BY <3>2, <3>5 DEF Converged, Node
    <3>7. QED
      BY <3>2, <3>5, <3>6 DEF Accepted
  <2>4. CASE TimerPubTf \/ UNCHANGED vars
    BY <2>4 DEF TimerPubTf, vars
  <2>5. QED
    BY <2>1, <2>2, <2>3, <2>4 DEF Next
<1>2. QED
  BY <1>1, Invariant, PTL DEF Spec, FirstNearConfig
=============================================================================
