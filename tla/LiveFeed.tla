------------------------------- MODULE LiveFeed -------------------------------
(***************************************************************************)
(* The telemetry stream: gateway_source.py reads the daemon's socket,       *)
(* main.py's ws_live() pushes a snapshot at each tick, useTelemetry.ts      *)
(* subscribes, falls back to its own simulation and reconnects, and         *)
(* useLinkHistory.ts keeps the fades of the link status page.               *)
(*                                                                         *)
(* Counters are left out but for the daemon session they count in, and the  *)
(* state of the link, which a snapshot derives from them.                   *)
(***************************************************************************)
EXTENDS Integers, Sequences, SequencesExt

CONSTANTS
  HistorySamples,  \* HISTORY_SAMPLES
  MaxSessions,     \* bound: starts of the daemon
  MaxCrashes,      \* bound: restarts of the bridge and connections lost
  MaxVisits,       \* bound: times the page is opened
  MaxFades         \* bound: fades kept, the last ones

ASSUME FeedAssumption ==
  /\ HistorySamples \in Nat \ {0} /\ MaxSessions \in Nat /\ MaxCrashes \in Nat
  /\ MaxVisits \in Nat /\ MaxFades \in Nat \ {0}

VARIABLES
  session,    \* the daemon's session, or Down
  sessions,
  bridge,     \* up or not
  stage,      \* GatewaySource._run(): "waiting" for a socket, "reading", "closing"
  peer,       \* the session at the other end of the socket
  last,       \* _last_raw: [session, link], or NoRaw
  history,    \* _history: the sessions of the two frames each rate is made of
  mounted, ws, fallback, reconnect, connection,  \* useTelemetry()
  snap,       \* what the page shows: [source, session, link]
  lastState, fades,   \* useLinkHistory()
  crashes, visits,
  wasOnline   \* history: the page has seen the link online since it was opened

daemon == <<session, sessions>>
source == <<stage, peer, last, history>>
feed == <<mounted, ws, fallback, reconnect, connection>>
shown == <<snap, lastState, fades, wasOnline>>
bounds == <<crashes, visits>>
vars == <<daemon, bridge, source, feed, shown, bounds>>

Down == 0
Links == {"online", "degraded", "offline"}
NoRaw == [session |-> Down, link |-> "none"]
NoSnap == [source |-> "none", session |-> Down, link |-> "none"]
NewSource == stage = "waiting" /\ peer = Down /\ last = NoRaw /\ history = <<>>

Init ==
  /\ session = Down /\ sessions = 0
  /\ bridge = TRUE /\ NewSource
  /\ mounted = FALSE /\ ws = "none" /\ fallback = FALSE /\ reconnect = FALSE
  /\ connection = "connecting"
  /\ snap = NoSnap /\ lastState = "none" /\ fades = <<>> /\ wasOnline = FALSE
  /\ crashes = 0 /\ visits = 0

-----------------------------------------------------------------------------
(* The daemon, external, and the bridge                                      *)

DaemonStarts ==
  /\ session = Down /\ sessions < MaxSessions
  /\ sessions' = sessions + 1 /\ session' = sessions + 1
  /\ UNCHANGED <<bridge, source, feed, shown, bounds>>

DaemonEnds ==
  /\ session # Down /\ session' = Down
  /\ UNCHANGED <<sessions, bridge, source, feed, shown, bounds>>

\* open_unix_connection() succeeds.
OpenSocket ==
  /\ bridge /\ stage = "waiting" /\ session # Down
  /\ stage' = "reading" /\ peer' = session
  /\ UNCHANGED <<daemon, bridge, last, history, feed, shown, bounds>>

LastOf(s, n) == IF Len(s) <= n THEN s ELSE SubSeq(s, Len(s) - n + 1, Len(s))

\* _ingest(): no rate of a first frame, nor of one that comes too soon.  A frame
\* left in the socket when the daemon ends is one the daemon sent later.
Ingest(link) ==
  /\ bridge /\ stage = "reading" /\ session = peer
  /\ last' = [session |-> peer, link |-> link]
  /\ history' \in {history, IF last = NoRaw THEN history
                            ELSE LastOf(Append(history, <<last.session, peer>>), HistorySamples)}
  /\ UNCHANGED <<daemon, bridge, stage, peer, feed, shown, bounds>>

\* The end of the file: is_connected() is false from here on, then the writer is
\* closed, which takes a while; a daemon that came back has another socket.
EndOfFile ==
  /\ bridge /\ stage = "reading" /\ session # peer
  /\ stage' = "closing"
  /\ UNCHANGED <<daemon, bridge, peer, last, history, feed, shown, bounds>>

\* Mutant: what the last session left is kept.
Closed_Keep ==
  /\ bridge /\ stage = "closing"
  /\ stage' = "waiting" /\ peer' = Down
  /\ UNCHANGED <<last, history, daemon, bridge, feed, shown, bounds>>

\* "Drop history after disconnect so stale rates don't linger."
Closed ==
  /\ bridge /\ stage = "closing"
  /\ stage' = "waiting" /\ peer' = Down /\ last' = NoRaw /\ history' = <<>>
  /\ UNCHANGED <<daemon, bridge, feed, shown, bounds>>

\* current_snapshot(): the daemon's, or the simulation's.
Snapshots ==
  IF stage = "reading" /\ last # NoRaw
  THEN {[source |-> "gateway", session |-> last.session, link |-> last.link]}
  ELSE [source : {"mock"}, session : {Down}, link : Links]

-----------------------------------------------------------------------------
(* useLinkHistory()                                                          *)

Open == fades # <<>> /\ Last(fades).open

\* Mutant: only a link that went offline is a fade.
FadesAfter_OfflineOnly(link) ==
  IF lastState = "online" /\ link = "offline"
    THEN Append(fades, [open |-> TRUE, to |-> link])
  ELSE IF lastState # link /\ Open
    THEN [fades EXCEPT ![Len(fades)] = IF link = "online" THEN [@ EXCEPT !.open = FALSE]
                                       ELSE [@ EXCEPT !.to = link]]
  ELSE fades

\* The effect on [snap]: a fade is opened when the link leaves "online", follows
\* it while it is open, and is closed when the link is online again.
FadesAfter(link) ==
  IF lastState = "online" /\ link # "online"
    THEN Append(fades, [open |-> TRUE, to |-> link])
  ELSE IF lastState # link /\ Open
    THEN [fades EXCEPT ![Len(fades)] = IF link = "online" THEN [@ EXCEPT !.open = FALSE]
                                       ELSE [@ EXCEPT !.to = link]]
  ELSE fades

\* activeFade of the link status page: the first that is open; 0 if none is
ActiveFade ==
  IF \E i \in DOMAIN fades : fades[i].open
  THEN CHOOSE i \in DOMAIN fades : fades[i].open /\ \A j \in 1 .. i - 1 : ~fades[j].open
  ELSE 0

\* FadeTimelinePanel: the last eight, newest first
Timeline == SubSeq(Reverse(fades), 1, IF Len(fades) < 8 THEN Len(fades) ELSE 8)

ShowSnap(s) ==
  /\ snap' = s
  /\ lastState' = s.link /\ fades' = LastOf(FadesAfter(s.link), MaxFades)
  /\ wasOnline' = (wasOnline \/ s.link = "online")

-----------------------------------------------------------------------------
(* useTelemetry()                                                            *)

LocalSnapshots == [source : {"mock-local"}, session : {Down}, link : Links]

\* The page is opened: connect().  Its state and its refs are new.
Mount ==
  /\ ~mounted /\ visits < MaxVisits
  /\ visits' = visits + 1
  /\ mounted' = TRUE /\ ws' = "opening" /\ connection' = "connecting"
  /\ fallback' = FALSE /\ reconnect' = FALSE
  /\ snap' = NoSnap /\ lastState' = "none" /\ fades' = <<>> /\ wasOnline' = FALSE
  /\ UNCHANGED <<daemon, bridge, source, crashes>>

\* Another page is opened: the cleanup of the effect.
Unmount ==
  /\ mounted
  /\ mounted' = FALSE /\ ws' = "none" /\ fallback' = FALSE /\ reconnect' = FALSE
  /\ UNCHANGED <<daemon, bridge, source, connection, shown, bounds>>

\* Mutant: the simulation goes on.
OnOpen_Both ==
  /\ ws = "opening" /\ bridge
  /\ ws' = "open" /\ connection' = "live"
  /\ UNCHANGED <<daemon, bridge, source, mounted, fallback, reconnect, shown, bounds>>

OnOpen ==
  /\ ws = "opening" /\ bridge
  /\ ws' = "open" /\ fallback' = FALSE /\ connection' = "live"
  /\ UNCHANGED <<daemon, bridge, source, mounted, reconnect, shown, bounds>>

\* ws_live() sends, onmessage shows.
OnMessage ==
  /\ ws = "open" /\ bridge
  /\ \E s \in Snapshots : ShowSnap(s)
  /\ UNCHANGED <<daemon, bridge, source, feed, bounds>>

\* startFallback(): at once, unless it runs already.
StartFallback ==
  IF fallback THEN UNCHANGED <<fallback, connection, shown>>
  ELSE /\ fallback' = TRUE /\ connection' = "demo"
       /\ \E s \in LocalSnapshots : ShowSnap(s)

\* Mutant: only a connection that was open is tried again.
HandleLost_OpenOnly ==
  /\ StartFallback
  /\ reconnect' = (ws = "open") /\ ws' = "none"
  /\ UNCHANGED mounted

\* socket.onclose
HandleLost ==
  /\ StartFallback
  /\ ws' = "none" /\ reconnect' = TRUE
  /\ UNCHANGED mounted

\* The bridge does not answer, or the connection breaks.
Refused ==
  /\ ws # "none" /\ ~bridge
  /\ HandleLost
  /\ UNCHANGED <<daemon, bridge, source, bounds>>

Lose ==
  /\ ws # "none" /\ bridge /\ crashes < MaxCrashes
  /\ crashes' = crashes + 1
  /\ HandleLost
  /\ UNCHANGED <<daemon, bridge, source, visits>>

\* The reconnect timer: connect() once more; "demo" stays on show.
Reconnect ==
  /\ reconnect
  /\ reconnect' = FALSE /\ ws' = "opening"
  /\ connection' = IF connection = "live" THEN "connecting" ELSE connection
  /\ UNCHANGED <<daemon, bridge, source, mounted, fallback, shown, bounds>>

FallbackTick ==
  /\ fallback
  /\ \E s \in LocalSnapshots : ShowSnap(s)
  /\ UNCHANGED <<daemon, bridge, source, feed, bounds>>

\* resolveCfg(): what the pill in the top bar says
Pill ==
  CASE connection = "live" /\ snap.source = "gateway" -> "LIVE GATEWAY"
    [] connection = "live" /\ snap.source = "mock"    -> "LIVE MOCK BRIDGE"
    [] connection = "live"                            -> "LIVE BRIDGE"
    [] connection = "demo"                            -> "DEMO NO BRIDGE"
    [] OTHER                                          -> "CONNECTING"

\* The bridge ends, and comes up with nothing of what it had.
BridgeEnds ==
  /\ bridge /\ crashes < MaxCrashes
  /\ crashes' = crashes + 1
  /\ bridge' = FALSE
  /\ stage' = "waiting" /\ peer' = Down /\ last' = NoRaw /\ history' = <<>>
  /\ UNCHANGED <<daemon, feed, shown, visits>>

BridgeStarts ==
  /\ ~bridge /\ bridge' = TRUE
  /\ UNCHANGED <<daemon, source, feed, shown, bounds>>

Next ==
  \/ DaemonStarts \/ DaemonEnds
  \/ OpenSocket \/ (\E l \in Links : Ingest(l)) \/ EndOfFile \/ Closed
  \/ Mount \/ Unmount \/ OnOpen \/ OnMessage \/ Refused \/ Lose \/ Reconnect \/ FallbackTick
  \/ BridgeEnds \/ BridgeStarts

Spec == Init /\ [][Next]_vars

\* The bridge polls for the socket and its loop gets to run, the daemon sends
\* ten frames a second, a connection is accepted or refused, timers fire.
Fairness ==
  /\ WF_vars(OpenSocket) /\ WF_vars(\E l \in Links : Ingest(l))
  /\ WF_vars(EndOfFile) /\ WF_vars(Closed)
  /\ WF_vars(OnOpen) /\ WF_vars(OnMessage) /\ WF_vars(Refused) /\ WF_vars(Reconnect)

FairSpec == Spec /\ Fairness

-----------------------------------------------------------------------------
\* Every rate in the history is made of two frames of one daemon session, and
\* of the session the bridge is reading; a restart of the daemon resets its
\* counters, and a difference across it means nothing.
RatesWithinSession ==
  \A i \in DOMAIN history : history[i] = <<last.session, last.session>>

\* A mounted page has either a socket or a reconnect timer, never both and never
\* neither; it says "demo" exactly while it simulates and "live" only over an
\* open socket; one that is left behind has no timer and no socket.  The pill's
\* "Streaming real telemetry from the FSO Gateway daemon" is said only of the
\* daemon's numbers, over an open socket, and its "showing synthetic data" only
\* while the page's own simulation is what is shown.
OneFeed ==
  /\ mounted => /\ (ws = "none") = reconnect
                /\ (connection = "demo") = fallback
                /\ (connection = "live") = (ws = "open")
                /\ Pill = "LIVE GATEWAY" => ws = "open" /\ snap.session # Down
                /\ Pill = "DEMO NO BRIDGE" => fallback /\ snap.source = "mock-local"
  /\ ~mounted => ws = "none" /\ ~reconnect /\ ~fallback

\* The page tells of an active fade exactly while the link it shows is not online
\* and has been since the page was opened; that fade says where the link is now,
\* and it is the first of the timeline and the only one "ongoing".  Through
\* fallbacks and reconnections.
FadesTellTheLink ==
  /\ (ActiveFade # 0) = (wasOnline /\ lastState # "online")
  /\ ActiveFade # 0 => fades[ActiveFade].to = lastState
  /\ \A i \in DOMAIN Timeline : Timeline[i].open => i = 1
  /\ ActiveFade # 0 => Timeline[1] = fades[ActiveFade]

\* mockTelemetry.ts's "If the bridge comes back up the UI switches away from
\* this", and on to the daemon's own counters: when daemon, bridge and page stay
\* up, the page comes to show snapshots of the running session and stays there.
ShowsTheDaemon ==
  <>[](bridge /\ mounted /\ session # Down)
    => <>[](connection = "live" /\ snap.source = "gateway" /\ snap.session = session)
=============================================================================
