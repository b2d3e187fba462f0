---------------------------- MODULE Registration ----------------------------
(***************************************************************************)
(* RelocaliztionNode (registration_node.cpp): the transform from the lidar *)
(* to the map.  A first guess comes from the configuration, from Quatro    *)
(* (global alignment of three scans) or from an operator; small_gicp then  *)
(* refines it every 2 s, and a 10 ms timer repeats it.                     *)
(*                                                                         *)
(* All callbacks are in one mutually exclusive group, so each is one step. *)
(* A pose is a number on a line; what an alignment yields is arbitrary.    *)
(***************************************************************************)
EXTENDS Integers

CONSTANTS
  Modes,       \* the parameter sets the node may be started with
  Pose,        \* poses on a line
  ConfigPose,  \* initial_pose_x and its fellows
  MaxJump,     \* first_registration_max_translation_jump_
  MaxScans     \* scans in source_cloud_ are counted up to this (a bound)

Mode == [fixed : BOOLEAN, quatro : BOOLEAN, config : BOOLEAN, prefer : BOOLEAN]

Identity == 0

ASSUME RegistrationAssumption ==
  /\ Modes \subseteq Mode
  /\ Pose \subseteq Int /\ Identity \in Pose /\ ConfigPose \in Pose
  /\ MaxJump \in Nat
  /\ MaxScans \in Nat /\ MaxScans > 3

VARIABLES
  mode,    \* the parameters
  node,    \* the members of the node
  tf,      \* the last transform broadcast, and who sent it
  streak   \* registrations that failed in a row until now (at most 2 counted)

vars == <<mode, node, tf, streak>>
-----------------------------------------------------------------------------
Lidar == "lidar"  \* the frame of the scans
NoFrame == ""

\* "by" is no field of the code: it tells where the pose comes from.
Transform ==
  [child : {NoFrame, Lidar}, pose : Pose, by : {"nobody", "quatro", "gicp", "guess"}]

EmptyTransform == [child |-> NoFrame, pose |-> Identity, by |-> "nobody"]

Node ==
  [gotPose     : BOOLEAN,             \* getInitialPose_
   first       : BOOLEAN,             \* doFirstRegistration_
   quatroDone  : BOOLEAN,             \* get_first_tf_from_quatro_
   usingConfig : BOOLEAN,             \* using_config_initial_guess_
   guess       : Pose,                \* initial_guess_
   pre         : Pose,                \* pre_result_
   counter     : 0..3,                \* accumulation_counter_
   fails       : 0..1,                \* fail_counter
   frame       : {NoFrame, Lidar},    \* source_cloud_->header.frame_id
   scans       : 0..MaxScans,         \* scans in source_cloud_
   cov         : BOOLEAN,             \* source_cloud_PointCovariance_ exists
   transform   : Transform]

AtMost(n, max) == IF n > max THEN max ELSE n

Init ==
  /\ mode \in Modes
  /\ node = [gotPose |-> FALSE, first |-> FALSE, quatroDone |-> FALSE,
             usingConfig |-> FALSE, guess |-> Identity, pre |-> Identity,
             counter |-> 0, fails |-> 0, frame |-> NoFrame, scans |-> 0,
             cov |-> FALSE, transform |-> EmptyTransform]
  /\ tf = [via |-> "nobody", what |-> EmptyTransform]
  /\ streak = 0

PreferConfig == mode.config /\ mode.prefer

\* Quatro has to run first: need_quatro_bootstrap, and the negation of what both
\* timers ask for.
NeedQuatro(n) == ~n.quatroDone /\ ~(PreferConfig /\ n.usingConfig)

\* The scans are counted on.
ResetKeepsCounter(n) ==
  [n EXCEPT !.pre = Identity, !.gotPose = FALSE, !.first = FALSE,
            !.quatroDone = FALSE, !.usingConfig = FALSE,
            !.scans = 0, !.transform = EmptyTransform]

\* Only the members are reset: the frame of the cleared cloud stays.
Reset(n) ==
  [n EXCEPT !.pre = Identity, !.gotPose = FALSE, !.first = FALSE,
            !.quatroDone = FALSE, !.usingConfig = FALSE, !.counter = 0,
            !.scans = 0, !.transform = EmptyTransform]
-----------------------------------------------------------------------------
(* Clouds *)

\* The pose of the configuration is taken when there is no other.
AutoPose(n) ==
  IF ~n.gotPose /\ mode.config
  THEN [n EXCEPT !.guess = ConfigPose, !.usingConfig = TRUE, !.gotPose = TRUE]
  ELSE n

Replaced(n) == [n EXCEPT !.frame = Lidar, !.scans = 1]

Accumulated(n) ==
  [n EXCEPT !.frame = Lidar, !.scans = AtMost(@ + 1, MaxScans), !.counter = @ + 1]

\* publishTransform: the member is set and sent at once.
FromQuatro(n, p) == [n EXCEPT !.transform = [child |-> Lidar, pose |-> p, by |-> "quatro"]]

\* The flag of the configured guess survives.
QuatroSuccessKeepsFlag(n, p) ==
  [FromQuatro(n, p) EXCEPT !.gotPose = TRUE, !.guess = p, !.quatroDone = TRUE]

QuatroSuccess(n, p) ==
  [FromQuatro(n, p) EXCEPT !.gotPose = TRUE, !.guess = p, !.usingConfig = FALSE,
                           !.quatroDone = TRUE]

Sent(via) == tf' = [via |-> via, what |-> node'.transform]

\* The first scans without a guess: Quatro aligns the third.  A failure starts
\* the count again, but not the cloud.
Bootstrap(n) ==
  LET m == Accumulated(n)
  IN \/ /\ m.counter <= 2
        /\ node' = m
        /\ UNCHANGED tf
     \/ /\ m.counter > 2
        /\ \E p \in Pose : node' = QuatroSuccess(m, p)
        /\ Sent("quatro")
     \/ /\ m.counter > 2
        /\ node' = [m EXCEPT !.counter = 0]
        /\ UNCHANGED tf

\* use_quatro without use_fixed: every scan is aligned by Quatro alone.
EveryScan(n) ==
  \/ /\ \E p \in Pose : node' = FromQuatro(Replaced(n), p)
     /\ Sent("quatro")
  \/ /\ node' = Replaced(n)
     /\ UNCHANGED tf

\* pointcloud_sub_callback; without a pose the scan is ignored.
CloudCb ==
  LET n == AutoPose(node)
      bootstrap == mode.fixed /\ n.counter <= 2 /\ NeedQuatro(n)
  IN /\ n.gotPose
     /\ \/ bootstrap /\ Bootstrap(n)
        \/ ~bootstrap /\ ~mode.fixed /\ mode.quatro /\ EveryScan(n)
        \/ /\ ~bootstrap /\ (mode.fixed \/ ~mode.quatro)
           /\ node' = Replaced(n)
           /\ UNCHANGED tf
     /\ UNCHANGED <<mode, streak>>

\* The pose of the operator is always taken.
InitialPoseCbAlways(p) ==
  /\ node' = [node EXCEPT !.guess = p, !.gotPose = TRUE, !.usingConfig = FALSE]
  /\ UNCHANGED <<mode, tf, streak>>

\* initial_pose_callback: the pose is taken only between Quatro and a reset;
\* otherwise it is dropped and just lets the scans in.
InitialPoseCb(p) ==
  /\ \/ /\ mode.fixed /\ node.quatroDone
        /\ node' = [node EXCEPT !.guess = p, !.gotPose = TRUE, !.usingConfig = FALSE]
     \/ /\ ~(mode.fixed /\ node.quatroDone)
        /\ node' = [node EXCEPT !.gotPose = TRUE]
  /\ UNCHANGED <<mode, tf, streak>>
-----------------------------------------------------------------------------
(* Timers *)

\* RegistrationResult.
Result == [converged : BOOLEAN, pose : Pose]

Jump(p, q) == IF p > q THEN p - q ELSE q - p

\* The first registration from the configured guess must stay near it.
Accepted(n, r) ==
  /\ r.converged
  /\ ~n.first /\ n.usingConfig => Jump(r.pose, n.guess) <= MaxJump

GicpTransform(n, p, by) == [child |-> n.frame, pose |-> p, by |-> by]

\* The member transform keeps its last value.
ConvergedKeepsTransform(n, r) == [n EXCEPT !.pre = r.pose, !.first = TRUE]

Converged(n, r) ==
  [n EXCEPT !.pre = r.pose, !.first = TRUE, !.transform = GicpTransform(n, r.pose, "gicp")]

\* A first registration that fails keeps the pose and the flags.
FailedKeepsPose(n) ==
  IF ~n.first THEN [n EXCEPT !.transform = GicpTransform(n, n.guess, "guess")]
  ELSE IF n.fails = 0 THEN [n EXCEPT !.fails = 1]
  ELSE [Reset(n) EXCEPT !.fails = 0]

\* The counter is compared before it is incremented.
FailedLate(n) ==
  IF ~n.first
  THEN [Reset(n) EXCEPT !.transform = GicpTransform(n, n.guess, "guess")]
  ELSE IF n.fails <= 1 THEN [n EXCEPT !.fails = @ + 1]
  ELSE [Reset(n) EXCEPT !.fails = 0]

\* A first registration that fails resets the node and leaves the guess as the
\* transform; later on one failure is forgiven, the next one resets.
Failed(n) ==
  IF ~n.first
  THEN [Reset(n) EXCEPT !.transform = GicpTransform(n, n.guess, "guess")]
  ELSE IF n.fails = 0 THEN [n EXCEPT !.fails = 1]
  ELSE [Reset(n) EXCEPT !.fails = 0]

\* relocalization, whose alignment yields r.
Relocalized(n, r) ==
  IF ~n.gotPose THEN n
  ELSE IF Accepted(n, r) THEN Converged(n, r)
  ELSE Failed(n)

\* Both timers work with a guess: with use_fixed from Quatro or configured.
TimersRun == IF mode.fixed THEN ~NeedQuatro(node) ELSE ~mode.quatro

\* timer_callback, every 2 s: what is in the member is sent, whatever happened.
TimerCb ==
  /\ TimersRun
  /\ \E r \in Result :
       /\ node' = Relocalized([node EXCEPT !.cov = TRUE], r)
       /\ streak' = IF ~node.gotPose THEN streak
                    ELSE IF Accepted(node, r) THEN 0
                    ELSE AtMost(streak + 1, 2)
  /\ Sent("slow")
  /\ UNCHANGED mode

\* timer_pub_tf_callback, every 10 ms.
TimerPubTf ==
  /\ TimersRun
  /\ node.cov
  /\ node.transform.child # NoFrame
  /\ UNCHANGED <<mode, node, streak>>
  /\ Sent("fast")

Next ==
  \/ CloudCb
  \/ \E p \in Pose : InitialPoseCb(p)
  \/ TimerCb
  \/ TimerPubTf

Spec == Init /\ [][Next]_vars
-----------------------------------------------------------------------------
(* Properties *)

TypeOK ==
  /\ mode \in Modes
  /\ node \in Node
  /\ tf \in [via : {"nobody", "quatro", "slow", "fast"}, what : Transform]
  /\ streak \in 0..2

\* using_config_initial_guess_ says what it is named for: while it is set the
\* guess is the configured one, through every reset, Quatro run and operator.
FlagMatchesGuess == node.usingConfig => mode.config /\ node.guess = ConfigPose

\* A running registration is never handed back to Quatro, whose raw result would
\* overwrite the refined transform.
QuatroOnlyBootstraps == mode.fixed /\ node.first => ~NeedQuatro(node)

\* The bootstrap can always take another scan: with a full counter and no result
\* no scan would ever start Quatro again.
BootstrapNotStuck == mode.fixed /\ NeedQuatro(node) => node.counter <= 2

\* The flags of the guess, of the bootstrap and of the registration agree, in
\* whatever order scans, operator and timers come.
FlagsAgree == FlagMatchesGuess /\ QuatroOnlyBootstraps /\ BootstrapNotStuck

\* Once registered, what the 10 ms timer repeats is the last result, with a name.
TfIsLatest ==
  mode.fixed /\ node.first =>
    node.transform = [child |-> Lidar, pose |-> node.pre, by |-> "gicp"]

\* Without a preferred configuration the 10 ms timer only repeats what an
\* alignment computed: the guess of a failed registration does not get through.
FastTfWasComputed ==
  mode.fixed /\ ~PreferConfig /\ tf.via = "fast" => tf.what.by \in {"quatro", "gicp"}

\* A registration that starts from the configuration lands near it.
FirstNearConfig ==
  [][~node.first /\ node'.first /\ node.usingConfig
       => Jump(node'.pre, ConfigPose) <= MaxJump]_vars

\* registration_node.cpp:270: no transform without a child frame is published.
OnlyNamedTf == tf.via # "nobody" => tf.what.child # NoFrame

\* PROJECT_ANALYSIS.md:170: more than one failure in a row makes the node reset.
ResetNeedsFailuresInARow == [][node.first /\ ~node'.first => streak >= 1]_vars
=============================================================================
