------------------------------ MODULE Outputs ------------------------------
(***************************************************************************)
(* What the system does with what it detected: the cars of the camera are  *)
(* tracked (CarTracks), the locations of the radar go to the referee       *)
(* system (JudgeMessager), to the two nodes that decide where the own      *)
(* sentry goes (Decisions), with their decisions to the operator's window  *)
(* (DisplayPanel), and with the other topics to the page (WebUi).          *)
(*                                                                         *)
(* The subscribers of a topic do not influence each other, and the tracker *)
(* of cars reads none of these topics: a behaviour is one of one path.     *)
(***************************************************************************)
EXTENDS CarTracks, JudgeMessager, DisplayPanel, WebUi

VARIABLE path

outputVars == <<path, carVars, location, judgeVars, decisionVars, panelVars, webVars>>

\* What a path starts with is left open only in its own behaviours.
OutputsInit ==
  /\ path \in {"cars", "judge", "window", "page"}
  /\ CarInit /\ JudgeInit /\ DecisionInit /\ PanelInit /\ WebInit
  /\ path # "judge" => ~opened
  /\ path # "window" => ~enabled

Window ==
  \/ PublishLocation /\ UNCHANGED <<decisionVars, panelVars>>
  \/ DecisionNext /\ UNCHANGED <<location, panelVars>>
  \/ PanelNext /\ UNCHANGED <<location, decisionVars>>

OutputsNext ==
  \/ /\ path = "cars"
     /\ CarNext
     /\ UNCHANGED <<path, location, judgeVars, decisionVars, panelVars, webVars>>
  \/ /\ path = "judge"
     /\ JudgeNext
     /\ UNCHANGED <<path, carVars, decisionVars, panelVars, webVars>>
  \/ /\ path = "window"
     /\ Window
     /\ UNCHANGED <<path, carVars, judgeVars, webVars>>
  \/ /\ path = "page"
     /\ WebNext
     /\ UNCHANGED <<path, carVars, location, judgeVars, decisionVars, panelVars>>

\* The executor of the panel runs its callbacks, and its thread draws.
WindowFairness ==
  /\ \A s \in Source : WF_panelVars(path = "window" /\ KeepCb(s))
  /\ WF_panelVars(path = "window" /\ DisplayLoop)

\* The executor of the web node runs its callbacks, the thread that stored a
\* wave announces it, that of the page pushes, and a page that lost its
\* connection opens it again.
PageFairness ==
  /\ \A t \in Topics : WF_webVars(path = "page" /\ SubscriberCb(t))
  /\ WF_webVars(path = "page" /\ Announce)
  /\ WF_webVars(path = "page" /\ SendEvents)

OutputsSpec ==
  OutputsInit /\ [][OutputsNext]_outputVars /\ WindowFairness /\ PageFairness

\* The types of the paths.
OutputsTypeOK ==
  CarTypeOK /\ JudgeTypeOK /\ DecisionTypeOK /\ PanelTypeOK /\ WebTypeOK

\* What is published or decided reaches both screens: it is drawn in the window,
\* whatever the panel's callbacks do between its copies behind three locks, and
\* it reaches the page, whatever changes between two snapshots (PageCatchesUp).
ScreensCatchUp ==
  /\ \A s \in Source, n \in 1..MaxLocations :
       (path = "window" /\ Newest(s) >= n) ~> (shown[s] >= n)
  /\ PageCatchesUp
=============================================================================
