----------------------------- MODULE Decisions -----------------------------
(***************************************************************************)
(* The two nodes that turn locations into a target of the own sentry:      *)
(* sentry_decision.cpp by rules, at most twice a second, and               *)
(* ai_decision.cpp by a network over a window of past messages.            *)
(*                                                                         *)
(* What a target is computed from is modelled, its coordinates are not: a  *)
(* place is the number of the message it comes from.                       *)
(***************************************************************************)
EXTENDS Location

CONSTANTS
  SeqLen,    \* SEQ_LEN, 128
  MinWindow  \* messages before the first inference, 16

ASSUME DecisionAssumption == SeqLen \in Nat \ {0} /\ MinWindow \in Nat

VARIABLES
  sentry,          \* the sentry node: what it heard, where it is, its last target
  sentry_targets,  \* its decisions
  enabled,         \* enabled_ of the AI node: the engine was loaded
  ai,              \* the AI node: what it heard, and hist_
  ai_nav           \* its decisions

decisionVars == <<sentry, sentry_targets, enabled, ai, ai_nav>>
-----------------------------------------------------------------------------
Hold == 0  \* the target of a decision without an enemy: stay where you are

\* A decision: of which message, with the sentry and the target of which one.
Decision == [from : Nat, at : Nat, target : Nat]

\* The enemies that count: on the ground, and seen now.
Counts(id) == 0 <= id /\ id < 600 /\ id \notin {6, 106} /\ Enemy(id)

DecisionInit ==
  /\ sentry = [heard |-> 0, at |-> 0, target |-> 0]
  /\ sentry_targets = << >>
  /\ enabled \in BOOLEAN
  /\ ai = [heard |-> 0, hist |-> << >>]
  /\ ai_nav = << >>
-----------------------------------------------------------------------------
\* Less than half a second after the last decision: the message is dropped.
Throttled(n) ==
  /\ sentry_targets # << >>
  /\ sentry' = [sentry EXCEPT !.heard = n]
  /\ UNCHANGED sentry_targets

\* Without an enemy the sentry holds; otherwise the target is the new one, or
\* the last one if that is less than half a metre away.
Decide(n) ==
  LET at == IF Names(n, OwnSentry) THEN n ELSE sentry.at
      seen == \E i \in DOMAIN location[n] : Counts(location[n][i])
  IN \E target \in {sentry.target, n} :
       /\ sentry.target = 0 \/ ~seen => target = (IF seen THEN n ELSE sentry.target)
       /\ sentry' = [heard |-> n, at |-> at, target |-> target]
       /\ sentry_targets' = Append(sentry_targets,
            [from |-> n, at |-> at, target |-> IF seen THEN target ELSE Hold])

SentryCb ==
  /\ \E n \in Number : n > sentry.heard /\ (Throttled(n) \/ Decide(n))
  /\ UNCHANGED <<enabled, ai, ai_nav>>

\* The oldest message is not dropped.
SlideGrows(hist, n) == Append(hist, n)

Slide(hist, n) ==
  IF Len(hist) < SeqLen THEN Append(hist, n) ELSE Append(Tail(hist), n)

\* A message without the own sentry is skipped; the others fill the window.
LocCb ==
  /\ enabled
  /\ \E n \in Number :
       /\ n > ai.heard
       /\ LET hist == IF Names(n, OwnSentry) THEN Slide(ai.hist, n) ELSE ai.hist IN
            /\ ai' = [heard |-> n, hist |-> hist]
            /\ ai_nav' = IF Names(n, OwnSentry) /\ Len(hist) >= MinWindow
                         THEN Append(ai_nav, n) ELSE ai_nav
  /\ UNCHANGED <<sentry, sentry_targets, enabled>>

DecisionNext == SentryCb \/ LocCb

DecisionTypeOK ==
  /\ sentry \in [heard : {0} \cup Number, at : {0} \cup Number, target : {0} \cup Number]
  /\ sentry_targets \in Seq(Decision)
  /\ enabled \in BOOLEAN
  /\ ai.heard \in {0} \cup Number
  /\ ai.hist \in Seq(Number) /\ Len(ai.hist) <= SeqLen
  /\ ai_nav \in Seq(Number)
=============================================================================
