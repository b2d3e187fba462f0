--------------------------- MODULE JudgeMessager ---------------------------
(***************************************************************************)
(* judge_messager.cpp: the subscription keeps the newest message of the    *)
(* topic location, and a thread of its own tells the referee system, every *)
(* 150 ms, what it finds there: the positions of all robots to the server, *)
(* those of the enemy to the own sentry, and a request for double damage.  *)
(***************************************************************************)
EXTENDS Location

CONSTANT SeqMod  \* the sequence number of a frame is a byte: 256

ASSUME JudgeAssumption == SeqMod \in Nat \ {0}

VARIABLES
  latest,    \* the number of latest_, 0 before the first
  opened,    \* fd_ >= 0
  round,     \* where the thread is
  slots,     \* the positions of this round
  seq,       \* the static counter of buildFrame
  line       \* what the last frames on the serial line said, by receiver

judgeVars == <<latest, opened, round, slots, seq, line>>
-----------------------------------------------------------------------------
Nowhere == <<0, 0>>   \* "this robot is not sent"

Slot == 0..11   \* 0-5: the enemy's hero, engineer, 3, 4, drone, sentry; then the own ones

\* The slot of a number within its team, or -1.
SlotOf(id) ==
  CASE id % 100 \in 1..4 -> (id % 100) - 1
    [] id % 100 \in 6..7 -> (id % 100) - 2
    [] OTHER -> -1

SlotIndex(id) == IF Enemy(id) THEN SlotOf(id) ELSE 6 + SlotOf(id)

\* Entries with a negative id, the last known places, are not sent; of several
\* entries of one robot the last is.
Slots(n) ==
  LET of(s) == {i \in DOMAIN location[n] :
                  /\ location[n][i] >= 0
                  /\ SlotOf(location[n][i]) >= 0
                  /\ SlotIndex(location[n][i]) = s}
  IN [s \in Slot |->
        IF n = 0 \/ of(s) = {} THEN Nowhere
        ELSE <<n, CHOOSE i \in of(s) : \A j \in of(s) : j <= i>>]

EnemySlots(f) == [s \in 0..5 |-> f[s]]

JudgeInit ==
  /\ location = << >>
  /\ latest = 0 /\ opened \in BOOLEAN /\ round = "copy"
  /\ slots = [s \in Slot |-> Nowhere]
  /\ seq = 0
  /\ line = [server |-> slots, sentry |-> EnemySlots(slots)]
-----------------------------------------------------------------------------
\* The subscription is best effort: a message may be lost, none is late.
JudgeCb ==
  /\ \E n \in Number : n > latest /\ latest' = n
  /\ UNCHANGED <<opened, round, slots, seq, line>>

RoundGoes(from, to) == round = from /\ round' = to

CopyLatest ==
  /\ RoundGoes("copy", "server")
  /\ slots' = Slots(latest)
  /\ UNCHANGED <<latest, opened, seq, line>>

\* A frame is numbered whether or not the line is open.
Frame(receiver, data) ==
  /\ seq' = (seq + 1) % SeqMod
  /\ line' = IF opened THEN [line EXCEPT ![receiver] = data] ELSE line
  /\ UNCHANGED <<latest, opened, slots>>

SendServer == RoundGoes("server", "sentry") /\ Frame("server", slots)

\* The sentry is told what is newest when its turn comes.
SendSentryAgain ==
  RoundGoes("sentry", "double") /\ Frame("sentry", EnemySlots(Slots(latest)))

SendSentry == RoundGoes("sentry", "double") /\ Frame("sentry", EnemySlots(slots))

SendDouble ==
  /\ RoundGoes("double", "copy")
  /\ seq' = (seq + 1) % SeqMod
  /\ UNCHANGED <<latest, opened, slots, line>>

JudgeLoop == CopyLatest \/ SendServer \/ SendSentry \/ SendDouble

JudgeNext ==
  \/ PublishLocation /\ UNCHANGED judgeVars
  \/ (JudgeCb \/ JudgeLoop) /\ UNCHANGED location

JudgeSpec == JudgeInit /\ [][JudgeNext]_<<location, judgeVars>>
-----------------------------------------------------------------------------
(* Properties *)

Position == {Nowhere} \cup (Number \X (Nat \ {0}))

JudgeTypeOK ==
  /\ location \in Seq(Messages) /\ Len(location) <= MaxLocations
  /\ latest \in {0} \cup Number
  /\ opened \in BOOLEAN
  /\ round \in {"copy", "server", "sentry", "double"}
  /\ slots \in [Slot -> Position]
  /\ seq \in 0..(SeqMod - 1)
  /\ line \in [server : [Slot -> Position], sentry : [0..5 -> Position]]

\* Whatever arrives while the frames of a round are written, the referee's
\* server and the own sentry are told the same places of the same enemies, and
\* the server's frame is at all times the one this round or the last one built.
SentryToldAsServer ==
  /\ round \in {"copy", "server", "double"} => line.sentry = EnemySlots(line.server)
  /\ opened /\ round \in {"sentry", "double"} => line.server = slots
=============================================================================
