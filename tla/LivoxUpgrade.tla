---------------------------- MODULE LivoxUpgrade ----------------------------
(***************************************************************************)
(* UpgradeLivoxLidars of Livox-SDK2: one LivoxLidarUpgrader sends the      *)
(* firmware piece by piece, asks for the progress and restarts the lidar,  *)
(* while its destructor waits for the outcome.                             *)
(*                                                                         *)
(* The upgrader is a finite state machine (upgrade_event_table).  An event *)
(* sends a command, and the command's callback, on a thread of the SDK, is *)
(* the next event.  A command is sent and then registered: one that cannot *)
(* be sent calls back at once and, registered all the same, once more when *)
(* it times out.  From then on two chains of events run in one upgrader,   *)
(* which is forked.                                                        *)
(***************************************************************************)
EXTENDS Naturals, FiniteSets

CONSTANTS
  Pieces,         \* firmware_length in units of read_length_ (1024 bytes)
  TryLimit,       \* kGeneralTryCountLimit, 10
  ProgressLimit   \* kGetProcessTryCountLimit, 30

ASSUME UpgradeAssumption ==
  /\ Pieces \in Nat
  /\ TryLimit \in Nat \ {0} /\ ProgressLimit \in Nat \ {0}

VARIABLES
  caller,       \* where UpgradeLivoxLidars and the destructor are
  thread,       \* upgrade_thread_: "none", "ready", "ran"
  fsm_state,    \* fsm_state_
  read_offset,  \* read_offset_, in pieces
  try_count,    \* try_count_
  waiting,      \* commands that have yet to call back
  received,     \* the pieces acknowledged since the upgrade was requested
  forked        \* a command could not be sent

fsmVars == <<fsm_state, read_offset, waiting, received, forked>>
upgradeVars == <<caller, thread, try_count, fsmVars>>
-----------------------------------------------------------------------------
\* LivoxLidarFsmState and LivoxLidarFsmEvent have the same numbers: the events
\* Request (0) to Complete (4) lead to the state after them.
StateIdle == 0
StateComplete == 5
StateErr == 7

Request == 0
Xfer == 1
CompleteXfer == 2
GetProgress == 3
Complete == 4
Reinit == 5
Err == 7

\* A command ends with an answer or a timeout; one that could not be sent calls
\* back at once and times out as well.
UpgradeCmd ==
  [event : Request..Complete, piece : 0..Pieces, ends : {"answer", "twice", "timeout"}, seq : Nat]

UpgradeInit ==
  /\ caller = "start" /\ thread = "none"
  /\ fsm_state = StateIdle /\ read_offset = 0 /\ try_count = 0
  /\ waiting = {} /\ received = {}
  /\ forked = FALSE
-----------------------------------------------------------------------------
(* The state machine                                                       *)

\* A row of upgrade_event_table: an event is taken in its own state and in the
\* one before.
InTable(event) ==
  IF event = Reinit THEN fsm_state = StateComplete ELSE fsm_state \in {event, event + 1}

\* The command of an event is sent and joins those in rest, or cannot be sent
\* (once in a run).
Post(event, piece, rest) ==
  \E ends \in {"answer", "twice"} :
    LET used == {c.seq : c \in rest}
        seq  == CHOOSE n \in 1..(Cardinality(used) + 1) : n \notin used
    IN /\ ends = "answer" \/ ~forked
       /\ waiting' = rest \cup {[event |-> event, piece |-> piece, ends |-> ends, seq |-> seq]}
       /\ forked' = (forked \/ ends = "twice")

\* FsmEventHandler, called when rest is what still waits and the offset is set.
\* The piece at the offset is sent, if there is one.
FsmEventHandler(event, offset, rest) ==
  \/ /\ event = Err
     /\ fsm_state' = StateErr /\ read_offset' = offset
     /\ waiting' = rest /\ UNCHANGED forked
  \/ /\ event # Err /\ ~InTable(event)
     /\ read_offset' = offset
     /\ waiting' = rest /\ UNCHANGED <<fsm_state, forked>>
  \/ /\ event = Reinit /\ InTable(event)
     /\ fsm_state' = StateIdle /\ read_offset' = offset
     /\ waiting' = rest /\ UNCHANGED forked
  \/ /\ event \in Request..Complete /\ InTable(event)
     /\ fsm_state' = event + 1
     /\ read_offset' = IF event = Request THEN 0 ELSE offset
     /\ IF event = Xfer /\ offset >= Pieces
        THEN waiting' = rest /\ UNCHANGED forked
        ELSE Post(event, IF event = Xfer THEN offset ELSE 0, rest)

\* The offset moves on whenever a piece has been sent, acknowledged or not.
OffsetAfterSending(event, answered) == IF event = Xfer THEN read_offset + 1 ELSE read_offset

\* The offset after a callback: one piece further when one was acknowledged.
OffsetAfter(event, answered) ==
  IF event = Xfer /\ answered THEN read_offset + 1 ELSE read_offset

\* What follows when a command was obeyed.
NextEvent(event, offset) ==
  CASE event = Xfer -> IF offset < Pieces THEN Xfer ELSE CompleteXfer
    [] OTHER -> event + 1

\* Nobody is told that the limit is reached.
GivesUpSilently(event) == 6

\* At the limit: only a lidar that does not restart is taken for upgraded.
GivesUp(event) == IF event = Complete THEN Reinit ELSE Err
-----------------------------------------------------------------------------
(* The callbacks                                                           *)

\* Obeyed: ret_code 0, and a progress of 100.
Succeeds(c) ==
  LET offset == OffsetAfter(c.event, TRUE)
  IN /\ c.ends = "answer"
     /\ try_count' = 0
     /\ received' = CASE c.event = Request -> {}
                      [] c.event = Xfer -> received \cup {c.piece}
                      [] OTHER -> received
     /\ FsmEventHandler(NextEvent(c.event, offset), offset, waiting \ {c})

\* The lidar is busy or erases its firmware, or the progress is below 100: the
\* same is asked again, and nothing counts how often.  Any other ret_code ends
\* the upgrade.
Answers(c) ==
  /\ c.ends = "answer"
  /\ try_count' = 0
  /\ \/ c.event \in {Request, GetProgress} /\ FsmEventHandler(c.event, read_offset, waiting \ {c})
     \/ FsmEventHandler(Err, read_offset, waiting \ {c})
  /\ UNCHANGED received

\* A timeout, or the first callback of a command that could not be sent.
Fails(c) ==
  LET rest == (waiting \ {c}) \cup (IF c.ends = "twice" THEN {[c EXCEPT !.ends = "timeout"]} ELSE {})
      offset == OffsetAfter(c.event, FALSE)
      limit == IF c.event = GetProgress THEN ProgressLimit ELSE TryLimit
  IN /\ IF try_count + 1 < limit
        THEN try_count' = try_count + 1 /\ FsmEventHandler(c.event, offset, rest)
        ELSE try_count' = 0 /\ FsmEventHandler(GivesUp(c.event), offset, rest)
     /\ UNCHANGED received

UpgradeCallback ==
  /\ caller # "returned"
  /\ \E c \in waiting : Succeeds(c) \/ Answers(c) \/ Fails(c)
  /\ UNCHANGED <<caller, thread>>
-----------------------------------------------------------------------------
(* The caller                                                              *)

CallerGoes(from, to) ==
  /\ caller = from /\ caller' = to
  /\ UNCHANGED <<try_count, fsmVars>>

\* SetLivoxLidarUpgradeFirmwarePath: no file, too short, or the wrong checksum.
\* A file that ends before the length in its header passes.
OpenFirmware ==
  /\ \E to \in {"open", "rejected"} : CallerGoes("start", to)
  /\ UNCHANGED thread

\* UpgradeLivoxLidars.  The temporary upgrader is destroyed before anything has
\* begun, which its destructor takes for success.
StartUpgradeLivoxLidar ==
  /\ CallerGoes("open", "polling")
  /\ thread' = "ready"

UpgradeThread ==
  /\ thread = "ready" /\ thread' = "ran"
  /\ FsmEventHandler(Request, read_offset, waiting)
  /\ UNCHANGED <<caller, try_count, received>>

\* The destructor looks every 100 ms.  A thread that has not begun by then is
\* taken for success ("early").
PollOutcome ==
  /\ \/ fsm_state = StateErr /\ CallerGoes("polling", "error")
     \/ fsm_state = StateIdle /\ CallerGoes("polling", IF thread = "ready" THEN "early" ELSE "success")
  /\ UNCHANGED thread

Join ==
  /\ thread = "ran"
  /\ \E from \in {"early", "error", "success"} : CallerGoes(from, "returned")
  /\ UNCHANGED thread

UpgradeNext ==
  \/ OpenFirmware \/ StartUpgradeLivoxLidar \/ UpgradeThread \/ PollOutcome \/ Join
  \/ UpgradeCallback

UpgradeSpec == UpgradeInit /\ [][UpgradeNext]_upgradeVars
-----------------------------------------------------------------------------
(* Properties *)

UpgradeTypeOK ==
  /\ caller \in {"start", "rejected", "open", "polling", "early", "error", "success", "returned"}
  /\ thread \in {"none", "ready", "ran"}
  /\ fsm_state \in {StateErr} \cup StateIdle..StateComplete
  /\ read_offset \in Nat
  /\ try_count \in Nat
  /\ waiting \subseteq UpgradeCmd
  /\ received \subseteq 0..Pieces
  /\ forked \in BOOLEAN

\* When the destructor finds an outcome, nothing will call the upgrader back
\* after it is gone, and an upgrade reported as successful had every piece
\* acknowledged; whatever timed out, was busy or was asked again on the way.
OutcomeIsFinal ==
  caller \in {"error", "success"} /\ ~forked =>
    /\ waiting = {}
    /\ caller = "success" => received = 0..(Pieces - 1)

\* The destructor finds an outcome, whatever times out and in whatever order, if
\* the lidar is not busy for ever: nothing in the code ends the wait for a lidar
\* that always answers that it is, or never gets to 100 (UpgradeFairness of
\* Sensors assumes it away).  A command that could not be sent is excepted.
UpgradeEnds == (caller = "polling") ~> (caller = "returned" \/ forked)
=============================================================================
