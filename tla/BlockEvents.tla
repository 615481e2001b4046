------------------------------ MODULE BlockEvents ------------------------------
(***************************************************************************)
(* The ends of blocks from the gateway's ring to the feed of the FEC page:  *)
(* worker_main() and events_drain() of control_server.c, _run(), _ingest()  *)
(* and snapshot() of gateway_source.py, and BlockEventFeed.  The gateway    *)
(* and the bridge may each end and come back; blocks are numbered in the    *)
(* order they end.                                                         *)
(***************************************************************************)
EXTENDS Integers, Sequences, SequencesExt

CONSTANTS
  EventRingCap,    \* EVENT_RING_CAP
  BlockEventRing,  \* BLOCK_EVENT_RING
  PageRows,        \* the rows BlockEventFeed draws
  MaxEnds,         \* bound: blocks that end
  MaxFrames,       \* bound: frames in the socket, beyond which send() blocks
  MaxRestarts      \* bound: ends of the gateway or of the bridge

VARIABLES
  ring,      \* the gateway's events, oldest first
  link,      \* "none", "up", "ended" by the gateway, "left" by the bridge
  frames,    \* what the socket holds: [events, rushed]
  lastRaw,   \* _last_raw is there
  feed,      \* _block_events, newest first
  ends, restarts,
  told,      \* history: the events the bridge took, in the order it took them
  missed     \* history: the events that never reach this bridge's feed

vars == <<ring, link, frames, lastRaw, feed, ends, restarts, told, missed>>

Init ==
  /\ ring = <<>> /\ link = "none" /\ frames = <<>> /\ lastRaw = FALSE /\ feed = <<>>
  /\ ends = 0 /\ restarts = 0 /\ told = <<>> /\ missed = {}

FirstOf(s, n) == SubSeq(s, 1, IF Len(s) < n THEN Len(s) ELSE n)
InFlight == FlattenSeq([i \in DOMAIN frames |-> frames[i].events])

-----------------------------------------------------------------------------
(* The gateway                                                               *)

\* events_push(): a full ring loses its oldest.
BlockEnds ==
  /\ ends < MaxEnds /\ ends' = ends + 1
  /\ IF Len(ring) < EventRingCap
     THEN ring' = Append(ring, ends + 1) /\ UNCHANGED missed
     ELSE ring' = Append(Tail(ring), ends + 1) /\ missed' = missed \cup {Head(ring)}
  /\ UNCHANGED <<link, frames, lastRaw, feed, restarts, told>>

\* A frame takes all that is in the ring.  The worker catches up with its timer
\* after a send() that blocked, and ts_ms is the time of day: the frame may be
\* 10 ms or less after the one before, or earlier.
Send ==
  /\ link = "up" /\ Len(frames) < MaxFrames
  /\ \E rushed \in BOOLEAN : frames' = Append(frames, [events |-> ring, rushed |-> rushed])
  /\ ring' = <<>>
  /\ UNCHANGED <<link, lastRaw, feed, ends, restarts, told, missed>>

\* The bridge has left: the ring was drained for nobody.
SendFails ==
  /\ link = "left"
  /\ link' = "none" /\ ring' = <<>> /\ missed' = missed \cup Range(ring)
  /\ UNCHANGED <<frames, lastRaw, feed, ends, restarts, told>>

\* What it has sent can still be read.
GatewayRestarts ==
  /\ restarts < MaxRestarts /\ restarts' = restarts + 1
  /\ ring' = <<>> /\ missed' = missed \cup Range(ring)
  /\ link' = CASE link = "up" -> "ended" [] link = "left" -> "none" [] OTHER -> link
  /\ UNCHANGED <<frames, lastRaw, feed, ends, told>>

-----------------------------------------------------------------------------
(* The bridge                                                                *)

Connect ==
  /\ link = "none" /\ link' = "up"
  /\ UNCHANGED <<ring, frames, lastRaw, feed, ends, restarts, told, missed>>

\* Mutant: a frame's events are put in front as they come.
FeedAfter_AsTheyCome(list, events) == FirstOf(events \o list, BlockEventRing)

\* Each is inserted in front of those before it.
FeedAfter(list, events) == FirstOf(Reverse(events) \o list, BlockEventRing)

\* _ingest(): it returns before the events on a connection's first frame, and
\* on one that comes too soon.
Ingest ==
  /\ frames # <<>> /\ frames' = Tail(frames)
  /\ LET frame == Head(frames)
     IN IF lastRaw /\ ~frame.rushed
        THEN /\ feed' = FeedAfter(feed, frame.events)
             /\ told' = told \o frame.events
             /\ UNCHANGED missed
        ELSE missed' = missed \cup Range(frame.events) /\ UNCHANGED <<feed, told>>
  /\ lastRaw' = TRUE
  /\ UNCHANGED <<ring, link, ends, restarts>>

\* The end of the file: the events are kept, unlike the history.
EndOfFile ==
  /\ link = "ended" /\ frames = <<>>
  /\ link' = "none" /\ lastRaw' = FALSE
  /\ UNCHANGED <<ring, frames, feed, ends, restarts, told, missed>>

BridgeRestarts ==
  /\ restarts < MaxRestarts /\ restarts' = restarts + 1
  /\ link' = IF link = "up" THEN "left" ELSE "none"
  /\ frames' = <<>> /\ lastRaw' = FALSE /\ feed' = <<>> /\ told' = <<>>
  /\ missed' = missed \cup Range(told) \cup Range(InFlight)
  /\ UNCHANGED <<ring, ends>>

Next ==
  \/ BlockEnds \/ Send \/ SendFails \/ GatewayRestarts
  \/ Connect \/ Ingest \/ EndOfFile \/ BridgeRestarts

Spec == Init /\ [][Next]_vars

\* What the page lists of a snapshot of the gateway's
PageFeed == FirstOf(feed, PageRows)

-----------------------------------------------------------------------------
\* "drained on each control_server tick": the page lists the newest ends the
\* bridge took, none twice, newest first, and an end it did not take is still
\* on its way, in order, or was lost where the code loses it: to a full ring, a
\* first or rushed frame, a bridge or a gateway that ended.
EndsAreTold ==
  LET onTheWay == told \o InFlight \o ring
  IN /\ \A i, j \in DOMAIN onTheWay : i < j => onTheWay[i] < onTheWay[j]
     /\ Range(onTheWay) = (1 .. ends) \ missed
     /\ lastRaw => PageFeed = FirstOf(Reverse(told), PageRows)
=============================================================================
