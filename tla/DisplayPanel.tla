---------------------------- MODULE DisplayPanel ----------------------------
(***************************************************************************)
(* display_panel.cpp: three subscriptions keep the newest locations and    *)
(* decisions, each behind its own mutex; a thread copies them one after    *)
(* the other, draws the map, and publishes every few maps as map_view.     *)
(***************************************************************************)
EXTENDS Decisions

CONSTANTS
  PubEvery,  \* PUB_EVERY_N, 5
  MaxMaps    \* maps published in one run (a bound)

ASSUME PanelAssumption == PubEvery \in Nat \ {0} /\ MaxMaps \in Nat

VARIABLES
  kept,         \* latest_locs_, sentry_locs_ and ai_nav_locs_
  place,        \* where the thread is
  copied,       \* its three copies
  shown,        \* what the window shows
  pub_counter,  \* maps drawn since one was published
  map_view      \* how many maps were published

panelVars == <<kept, place, copied, shown, pub_counter, map_view>>
-----------------------------------------------------------------------------
Source == {"location", "sentry_targets", "ai_nav"}

Newest(s) == CASE s = "location" -> Len(location)
               [] s = "sentry_targets" -> Len(sentry_targets)
               [] s = "ai_nav" -> Len(ai_nav)

Nothing == [s \in Source |-> 0]

PanelInit ==
  /\ kept = Nothing /\ copied = Nothing /\ shown = Nothing
  /\ place = "location"
  /\ pub_counter = 0 /\ map_view = 0

\* locationCb, sentryCb, aiNavCb: reliable, so the last message is not lost.
KeepCb(s) ==
  /\ \E n \in (kept[s] + 1)..Newest(s) : kept' = [kept EXCEPT ![s] = n]
  /\ UNCHANGED <<place, copied, shown, pub_counter, map_view>>

Copy(s, to) ==
  /\ place = s /\ place' = to
  /\ copied' = [copied EXCEPT ![s] = kept[s]]
  /\ UNCHANGED <<kept, shown, pub_counter, map_view>>

Draw ==
  /\ place = "draw" /\ place' = "location"
  /\ shown' = copied
  /\ IF pub_counter + 1 >= PubEvery /\ map_view < MaxMaps
     THEN pub_counter' = 0 /\ map_view' = map_view + 1
     ELSE pub_counter' = (pub_counter + 1) % PubEvery /\ UNCHANGED map_view
  /\ UNCHANGED <<kept, copied>>

DisplayLoop ==
  \/ Copy("location", "sentry_targets")
  \/ Copy("sentry_targets", "ai_nav")
  \/ Copy("ai_nav", "draw")
  \/ Draw

PanelNext == (\E s \in Source : KeepCb(s)) \/ DisplayLoop

PanelTypeOK ==
  /\ {kept, copied, shown} \subseteq [Source -> Nat]
  /\ \A s \in Source : kept[s] <= Newest(s)
  /\ place \in Source \cup {"draw"}
  /\ pub_counter \in 0..(PubEvery - 1)
  /\ map_view \in 0..MaxMaps
=============================================================================
