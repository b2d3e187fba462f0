------------------------------ MODULE Sensors ------------------------------
(***************************************************************************)
(* The sensor side of the system: the lidar is found and configured        *)
(* (LivoxConnect), its points reach the lidar node and the registration    *)
(* (LidarNode over LivoxDriver), the camera's images reach the detect node *)
(* (HikCamera).  And what else the lidar's SDK does when it is asked to:   *)
(* the calls of its control interface (LivoxCommands), the upgrade of the  *)
(* firmware (LivoxUpgrade), the log files (LivoxLogger), and its start and *)
(* stop by the configuration file (LivoxStart).                            *)
(*                                                                         *)
(* The first two paths share one fact only: connected, of LivoxDriver, is  *)
(* sampling, of LivoxConnect.  It is an input of the second path that      *)
(* becomes true at any moment or has been true from the start, which is    *)
(* what the first path shows of it.  The others share nothing.             *)
(* Interleaving the steps of paths that do not interact shows nothing, so  *)
(* a behaviour is one of one path, path.                                   *)
(***************************************************************************)
EXTENDS LivoxConnect, LidarNode, HikCamera, LivoxCommands, LivoxUpgrade, LivoxLogger,
        LivoxStart

VARIABLE path

sensorVars ==
  <<path, connectVars, lidarVars, hikVars, commandVars, upgradeVars, loggerVars, startVars>>

\* What a path starts with is left open only in its own behaviours.
SensorsInit ==
  /\ path \in {"connect", "points", "images", "calls", "upgrade", "log", "start"}
  /\ ConnectInit /\ LidarInit /\ HikInit /\ CommandInit /\ UpgradeInit /\ LoggerInit
  /\ StartInit
  /\ path # "connect" => ~inLoader
  /\ path # "points" => ~connected
  /\ path # "calls" => program = <<>> /\ lidarType = "Mid360"

SensorsNext ==
  \/ /\ path = "connect"
     /\ ConnectNext
     /\ UNCHANGED <<path, lidarVars, hikVars, commandVars, upgradeVars, loggerVars, startVars>>
  \/ /\ path = "points"
     /\ LidarNext
     /\ UNCHANGED <<path, connectVars, hikVars, commandVars, upgradeVars, loggerVars, startVars>>
  \/ /\ path = "images"
     /\ HikNext
     /\ UNCHANGED <<path, connectVars, lidarVars, commandVars, upgradeVars, loggerVars, startVars>>
  \/ /\ path = "calls"
     /\ CommandNext
     /\ UNCHANGED <<path, connectVars, lidarVars, hikVars, upgradeVars, loggerVars, startVars>>
  \/ /\ path = "upgrade"
     /\ UpgradeNext
     /\ UNCHANGED <<path, connectVars, lidarVars, hikVars, commandVars, loggerVars, startVars>>
  \/ /\ path = "log"
     /\ LoggerNext
     /\ UNCHANGED <<path, connectVars, lidarVars, hikVars, commandVars, upgradeVars, startVars>>
  \/ /\ path = "start"
     /\ StartNext
     /\ UNCHANGED <<path, connectVars, lidarVars, hikVars, commandVars, upgradeVars, loggerVars>>

\* The threads of the SDK run, a datagram that is not lost arrives, and the
\* search goes on.
ConnectFairness ==
  /\ WF_connectVars(path = "connect" /\ DetectionData)
  /\ WF_connectVars(path = "connect" /\ Handler)
  /\ WF_connectVars(path = "connect" /\ LidarAnswers)
  /\ \A t \in Thread :
       /\ WF_connectVars(path = "connect" /\ ThreadStep(t))
       /\ WF_connectVars(path = "connect" /\ CommandsHandle(t))

\* Every thread runs, and the registration works on what it is sent.  Two
\* assumptions on its surroundings: an operator gives the pose it waits for, and
\* Quatro does not fail for ever.
LidarFairness ==
  /\ WF_lidarVars(path = "points" /\ WriterStep /\ UNCHANGED nodeVars)
  /\ WF_lidarVars(path = "points" /\ ReaderStep /\ UNCHANGED nodeVars)
  /\ WF_lidarVars(path = "points" /\ PointCloudCallback)
  /\ WF_lidarVars(path = "points" /\ PublishRaw)
  /\ WF_lidarVars(path = "points" /\ RegistrationStep)
  /\ <>[][path = "points" => ~QuatroFails]_lidarVars

\* The detect node runs, whatever the camera node does.
HikFairness == WF_hikVars(path = "images" /\ ReaderOfImages)

\* The same command once more because of the answer: the lidar is busy, erases
\* its firmware or has progressed to less than 100.
AsksAgain ==
  /\ path = "upgrade" /\ caller # "returned"
  /\ \E c \in waiting : Answers(c) /\ fsm_state' # StateErr
  /\ UNCHANGED <<caller, thread>>

\* The upgrade's thread, its commands' callbacks and the destructor go on.  And
\* one assumption on the lidar: it is not busy for ever.  The code does not count
\* such answers, and they start its count of timeouts again.
UpgradeFairness ==
  /\ WF_upgradeVars(path = "upgrade" /\ UpgradeThread)
  /\ WF_upgradeVars(path = "upgrade" /\ UpgradeCallback)
  /\ WF_upgradeVars(path = "upgrade" /\ (PollOutcome \/ Join))
  /\ <>[][~AsksAgain]_upgradeVars

\* The logger's threads run, and so does who destroys it.
LoggerFairness ==
  /\ WF_loggerVars(path = "log" /\ WriterThread)
  /\ WF_loggerVars(path = "log" /\ DestoryStep)

SensorsSpec ==
  SensorsInit /\ [][SensorsNext]_sensorVars
  /\ ConnectFairness /\ LidarFairness /\ HikFairness
  /\ UpgradeFairness /\ LoggerFairness

\* The types of the paths.
SensorsTypeOK ==
  /\ ConnectTypeOK /\ LidarTypeOK /\ HikTypeOK
  /\ CommandTypeOK /\ UpgradeTypeOK /\ LoggerTypeOK /\ StartTypeOK
=============================================================================
