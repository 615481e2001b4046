---------------------------- MODULE ControlServer ----------------------------
(***************************************************************************)
(* The telemetry exporter, src/control_server.c.  The receive thread       *)
(* reports the end of every block through a callback that writes into a    *)
(* ring under a lock; a worker thread serves one client at a time: it      *)
(* drains the ring into a snapshot and sends it, again and again.          *)
(*                                                                         *)
(* An event is its number, 1 for the first callback.  The counters of a    *)
(* snapshot, its formatting and its rate are left out.                     *)
(***************************************************************************)
EXTENDS Integers, Sequences

CONSTANTS
  Cap,        \* EVENT_RING_CAP
  MaxEvents   \* bound: callbacks over a run

\* Assumed by Gateway, which instantiates this module.
RingAssumption == Cap \in Nat \ {0} /\ MaxEvents \in Nat

VARIABLES
  events, events_head, events_count,  \* the ring
  server,      \* struct control_server: "none", "up" or "freed"
  cs_running,  \* cs->running
  registered,  \* the collector holds our callbacks
  worker,      \* "none", "poll", "build", "send", "exited"
  batch,       \* the events of the snapshot under way
  client,      \* the other end: "away", "waiting", "reading", "stalled", "gone"
  pushed,      \* history: events so far
  drained,     \* history: pushed at the last drain
  received     \* history: what clients were sent, in order

ring == <<events, events_head, events_count, pushed, drained>>
thread == <<server, cs_running, registered>>
serving == <<worker, batch, client, received>>
vars == <<ring, thread, serving>>

Slots == 0 .. Cap - 1

Init ==
  /\ events = [i \in Slots |-> 0] /\ events_head = 0 /\ events_count = 0
  /\ server = "none" /\ cs_running = FALSE /\ registered = FALSE
  /\ worker = "none" /\ batch = <<>> /\ client = "away"
  /\ pushed = 0 /\ drained = 0 /\ received = <<>>

-----------------------------------------------------------------------------
(* control_server_start() and control_server_stop(), called by the gateway   *)

Start ==
  /\ server = "none"
  /\ server' = "up" /\ cs_running' = TRUE /\ registered' = TRUE
  /\ worker' = "poll"
  /\ UNCHANGED <<ring, batch, client, received>>

\* No memory, no socket: NULL, and the callbacks were not registered yet.
StartFails == server = "none" /\ UNCHANGED vars

\* pthread_create() fails: everything is freed, the callbacks stay registered.
StartWithoutThread ==
  /\ server = "none"
  /\ server' = "freed" /\ registered' = TRUE
  /\ UNCHANGED <<ring, cs_running, serving>>

StopBegin ==
  /\ server = "up"
  /\ cs_running' = FALSE /\ registered' = FALSE
  /\ UNCHANGED <<ring, server, serving>>

\* pthread_join() returned.
StopJoined ==
  /\ server = "up"
  /\ worker = "exited"
  /\ server' = "freed"
  /\ UNCHANGED <<ring, cs_running, registered, serving>>

-----------------------------------------------------------------------------
(* The ring                                                                  *)

NextHead == (events_head + 1) % Cap

\* events_push(): a full ring loses its oldest event.
Push ==
  /\ events' = [events EXCEPT ![events_head] = pushed + 1]
  /\ events_head' = NextHead
  /\ events_count' = IF events_count < Cap THEN events_count + 1 ELSE events_count
  /\ pushed' = pushed + 1
  /\ UNCHANGED <<drained, thread, serving>>

\* on_block_final_cb(), on_eviction_cb(), on the receive thread: they do not ask
\* whether the server they were registered for still exists.  What they write
\* into a freed one is in no snapshot.
OnBlockFinal ==
  /\ registered
  /\ \/ server = "up" /\ pushed < MaxEvents /\ Push
     \/ server = "freed" /\ UNCHANGED vars

\* Mutant: the oldest event is looked for at the head.
Oldest_AtHead == events_head

\* Where events_drain() starts
Oldest == (events_head - events_count + Cap) % Cap

Contents == [i \in 1 .. events_count |-> events[(Oldest + i - 1) % Cap]]

-----------------------------------------------------------------------------
(* worker_main()                                                             *)

\* The loop ends, or malloc() or poll() failed.
WorkerExit ==
  /\ worker = "poll"
  /\ worker' = "exited"
  /\ UNCHANGED <<ring, thread, batch, client, received>>

\* poll() may have returned just before the server was stopped.
Accept ==
  /\ worker = "poll"
  /\ client = "waiting"
  /\ worker' = "build" /\ client' = "reading"
  /\ UNCHANGED <<ring, thread, batch, received>>

\* Mutant: the drained events stay in the ring.
Build_KeepsEvents ==
  /\ worker = "build" /\ cs_running
  /\ batch' = Contents
  /\ drained' = pushed
  /\ worker' = "send"
  /\ UNCHANGED <<events, events_head, events_count, pushed, thread, client, received>>

\* build_snapshot_json() drains the ring.
Build ==
  /\ worker = "build" /\ cs_running
  /\ batch' = Contents
  /\ events_count' = 0
  /\ drained' = pushed
  /\ worker' = "send"
  /\ UNCHANGED <<events, events_head, pushed, thread, client, received>>

\* The server is being stopped: the client is dropped.
DropClient ==
  /\ worker = "build" /\ ~cs_running
  /\ worker' = "poll" /\ client' = "away"
  /\ UNCHANGED <<ring, thread, batch, received>>

\* write_all() went through.
Send ==
  /\ worker = "send" /\ client = "reading"
  /\ received' = received \o batch
  /\ batch' = <<>>
  /\ worker' = "build"
  /\ UNCHANGED <<ring, thread, client>>

\* The client hung up: the snapshot and its events are lost.
SendFails ==
  /\ worker = "send" /\ client = "gone"
  /\ batch' = <<>>
  /\ worker' = "poll" /\ client' = "away"
  /\ UNCHANGED <<ring, thread, received>>

WorkerStep == Accept \/ Build \/ DropClient \/ Send \/ SendFails

-----------------------------------------------------------------------------
(* The client: it connects, may stop reading until send() blocks, may leave. *)

ClientMoves(from, to) ==
  /\ client = from
  /\ client' = to
  /\ UNCHANGED <<ring, thread, worker, batch, received>>

ClientConnects == server = "up" /\ cs_running /\ ClientMoves("away", "waiting")
ClientStalls == ClientMoves("reading", "stalled")
ClientResumes == ClientMoves("stalled", "reading")
ClientLeaves == ClientMoves("reading", "gone") \/ ClientMoves("stalled", "gone")

Next ==
  \/ Start \/ StartFails \/ StartWithoutThread \/ StopBegin \/ StopJoined
  \/ OnBlockFinal
  \/ WorkerExit \/ WorkerStep
  \/ ClientConnects \/ ClientStalls \/ ClientResumes \/ ClientLeaves

Spec == Init /\ [][Next]_vars

-----------------------------------------------------------------------------

TypeOK ==
  /\ events \in [Slots -> 0 .. MaxEvents]
  /\ events_head \in Slots
  /\ events_count \in 0 .. Cap
  /\ server \in {"none", "up", "freed"}
  /\ cs_running \in BOOLEAN /\ registered \in BOOLEAN
  /\ worker \in {"none", "poll", "build", "send", "exited"}
  /\ batch \in Seq(1 .. MaxEvents) /\ received \in Seq(1 .. MaxEvents)
  /\ client \in {"away", "waiting", "reading", "stalled", "gone"}
  /\ pushed \in 0 .. MaxEvents /\ drained \in 0 .. pushed
  /\ batch # <<>> => worker = "send"

Newest == LET kept == pushed - drained IN IF kept < Cap THEN kept ELSE Cap

\* What the next snapshot will carry: the newest events since the last one, as
\* many as the ring holds, oldest first - across wrap-around, overflow, drains
\* and clients that come and go.
RingIsNewest == Contents = [i \in 1 .. Newest |-> pushed - Newest + i]

\* No client, and no later client, is sent an event twice or out of order.
EventsInOrder ==
  LET out == received \o batch
  IN \A i, j \in DOMAIN out : i < j => out[i] < out[j]
=============================================================================
