------------------------------- MODULE WebUi -------------------------------
(***************************************************************************)
(* web_ui_node.py: callbacks, timers and HTTP requests change an aggregate *)
(* behind one lock and raise its generation; a thread per browser pushes a *)
(* snapshot whenever the generation passed the last one it sent, at most   *)
(* ten times a second (server-sent events), another streams the pictures   *)
(* of map_view.  Waves live in a store with a lock of its own and are      *)
(* announced after they are stored.                                        *)
(*                                                                         *)
(* The connection of the one browser can break, and the server can be      *)
(* killed and started again; the browser (app.js) opens the same address   *)
(* again, which names generation 0.  The generation is raised once where   *)
(* the code raises it several times under one lock.                        *)
(***************************************************************************)
EXTENDS Integers

CONSTANTS
  Topics,         \* the topics subscribed; map_view carries pictures
  MaxMessages,    \* messages of one topic in one run (a bound)
  MaxWaves,       \* waves ingested in one run (a bound)
  MaxTicks,       \* ticks of the timers that notify (a bound)
  MaxBreaks       \* broken connections and restarts (a bound)

ASSUME WebAssumption ==
  /\ "map_view" \in Topics /\ "wave" \notin Topics
  /\ {MaxMessages, MaxWaves, MaxTicks, MaxBreaks} \subseteq Nat

VARIABLES
  published,   \* the messages of each topic
  server,      \* the incarnation of the server
  heard,       \* the last message of each topic that was delivered or missed
  web,         \* the aggregate: the newest of each topic, and of the waves
  generation,  \* its generation
  storing,     \* a wave is stored and not announced
  sse,         \* the thread of /api/events
  streamed,    \* the last picture of /stream/map_view
  browser,     \* what the page shows
  used         \* waves, ticks and breaks so far

serverVars ==
  <<server, heard, web, generation, storing, sse, streamed, browser, used>>

webVars == <<published, serverVars>>
-----------------------------------------------------------------------------
Field == Topics \cup {"wave"}

Empty == [f \in Field |-> 0]

\* A snapshot: the aggregate and its generation at one moment; due tells that a
\* tenth of a second has passed since the last event was sent.
Snapshot(due) == [generation |-> generation, web |-> web, due |-> due]

Closed == [place |-> "closed", last |-> 0,
           payload |-> [generation |-> 0, web |-> Empty, due |-> TRUE]]

WebInit ==
  /\ published = [t \in Topics |-> 0]
  /\ server = 1 /\ generation = 0 /\ web = Empty /\ storing = FALSE
  /\ heard = [t \in Topics |-> 0]
  /\ sse = Closed /\ streamed = 0
  /\ browser = [server |-> 1, web |-> Empty]
  /\ used = [waves |-> 0, ticks |-> 0, breaks |-> 0]
-----------------------------------------------------------------------------
\* A node publishes what this one subscribes, at any time; map_view, for one, is
\* every so many pictures of the display panel.
Publish(t) ==
  /\ published[t] < MaxMessages
  /\ published' = [published EXCEPT ![t] = @ + 1]
  /\ UNCHANGED serverVars
-----------------------------------------------------------------------------
(* The writers *)

Notify == generation' = generation + 1

\* _location_cb, _locations_list_cb, _image_cb.
SubscriberCb(t) ==
  /\ \E n \in (heard[t] + 1)..published[t] :
       /\ heard' = [heard EXCEPT ![t] = n]
       /\ web' = [web EXCEPT ![t] = n]
  /\ Notify
  /\ UNCHANGED <<published, server, storing, sse, streamed, browser, used>>

\* WaveStore.ingest, over HTTP or from /wave_analysis.
Ingest ==
  /\ ~storing /\ storing' = TRUE
  /\ used.waves < MaxWaves
  /\ used' = [used EXCEPT !.waves = @ + 1]
  /\ web' = [web EXCEPT !["wave"] = used.waves + 1]
  /\ UNCHANGED <<published, server, heard, generation, sse, streamed, browser>>

\* WaveStore.clear.
Clear ==
  /\ ~storing /\ storing' = TRUE
  /\ web["wave"] # 0
  /\ web' = [web EXCEPT !["wave"] = 0]
  /\ UNCHANGED <<published, server, heard, generation, sse, streamed, browser, used>>

Announce ==
  /\ storing /\ storing' = FALSE
  /\ Notify
  /\ UNCHANGED <<published, server, heard, web, sse, streamed, browser, used>>

\* _metrics_tick and _ros_graph_tick; also a request that is refused or changes
\* a debug parameter.
MetricsTick ==
  /\ used.ticks < MaxTicks
  /\ used' = [used EXCEPT !.ticks = @ + 1]
  /\ Notify
  /\ UNCHANGED <<published, server, heard, web, storing, sse, streamed, browser>>
-----------------------------------------------------------------------------
(* _send_events *)

Pushes(step) ==
  /\ step
  /\ UNCHANGED <<published, server, heard, web, generation, storing, streamed, used>>

Connect ==
  /\ sse.place = "closed"
  /\ sse' = [place |-> "check", last |-> 0, payload |-> Snapshot(TRUE)]
  /\ UNCHANGED browser

News == sse.payload.generation > sse.last

\* The generation sent is the current one.
SendCurrent ==
  /\ sse.place = "check" /\ News
  /\ sse.last = 0 \/ sse.payload.due
  /\ browser' = [server |-> server, web |-> sse.payload.web]
  /\ sse' = [sse EXCEPT !.last = generation]

Send ==
  /\ sse.place = "check" /\ News
  /\ sse.last = 0 \/ sse.payload.due
  /\ browser' = [server |-> server, web |-> sse.payload.web]
  /\ sse' = [sse EXCEPT !.last = sse.payload.generation]

\* Too early: sleep, and take a new snapshot.
Throttle ==
  /\ sse.place = "check" /\ News
  /\ sse.last # 0 /\ ~sse.payload.due
  /\ sse' = [sse EXCEPT !.payload = Snapshot(TRUE)]
  /\ UNCHANGED browser

Keepalive ==
  /\ sse.place = "check" /\ ~News
  /\ sse' = [sse EXCEPT !.place = "wait"]
  /\ UNCHANGED browser

\* wait_snapshot: a newer generation, or a timeout.
Wake ==
  /\ sse.place = "wait"
  /\ \E due \in BOOLEAN :
       sse' = [sse EXCEPT !.place = "check", !.payload = Snapshot(due)]
  /\ UNCHANGED browser

SendEvents == Pushes(Connect \/ Send \/ Throttle \/ Keepalive \/ Wake)

\* _send_mjpeg.
SendMjpeg ==
  /\ web["map_view"] \notin {0, streamed}
  /\ streamed' = web["map_view"]
  /\ UNCHANGED <<published, server, heard, web, generation, storing, sse, browser, used>>
-----------------------------------------------------------------------------
(* Failures *)

Breaks ==
  /\ used.breaks < MaxBreaks
  /\ used' = [used EXCEPT !.breaks = @ + 1]
  /\ sse' = Closed /\ streamed' = 0
  /\ UNCHANGED browser

BreakConnection ==
  /\ sse.place # "closed"
  /\ Breaks
  /\ UNCHANGED <<published, server, heard, web, generation, storing>>

\* The new server hears what is published from now on.
RestartServer ==
  /\ Breaks
  /\ server' = server + 1
  /\ heard' = [t \in Topics |-> published[t]]
  /\ web' = Empty /\ generation' = 0 /\ storing' = FALSE
  /\ UNCHANGED published

WebNext ==
  \/ \E t \in Topics : Publish(t) \/ SubscriberCb(t)
  \/ Ingest \/ Clear \/ Announce \/ MetricsTick
  \/ SendEvents \/ SendMjpeg
  \/ BreakConnection \/ RestartServer

WebTypeOK ==
  /\ published \in [Topics -> 0..MaxMessages]
  /\ server \in 1..(MaxBreaks + 1)
  /\ heard \in [Topics -> Nat] /\ \A t \in Topics : heard[t] <= published[t]
  /\ web \in [Field -> Nat] /\ \A t \in Topics : web[t] \in {0, heard[t]}
  /\ generation \in Nat /\ storing \in BOOLEAN
  /\ sse.place \in {"closed", "check", "wait"}
  /\ sse.last <= generation /\ sse.payload.generation <= generation
  /\ streamed \in 0..MaxMessages
  /\ browser \in [server : 1..server, web : [Field -> Nat]]

\* Whatever is published reaches the page, or a server that hears it is started
\* again: a notification between two snapshots, a connection that breaks or a
\* tenth of a second to wait out loses no news.
PageCatchesUp ==
  \A t \in Topics, n \in 1..MaxMessages :
    (n \in (heard[t] + 1)..published[t])
      ~> \/ browser.server = server /\ browser.web[t] >= n
         \/ heard[t] >= n /\ web[t] = 0
=============================================================================
