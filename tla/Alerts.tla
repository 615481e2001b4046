-------------------------------- MODULE Alerts --------------------------------
(***************************************************************************)
(* Alerts from the bridge's rings to the pages: _detect_alerts() and        *)
(* _push_alert() of gateway_source.py, _maybe_emit_alert() of main.py, whose *)
(* simulation stands in for a daemon that is not there, useAlerts.ts, and   *)
(* the buttons of alerts/page.tsx.  Each page that shows alerts has a hook  *)
(* of its own, and a stream of its own, that never tells one source from    *)
(* the other; acknowledgements also go to localStorage.                     *)
(***************************************************************************)
EXTENDS Integers, Sequences, SequencesExt, FiniteSets

CONSTANTS
  Hooks,          \* uses of useAlerts(): the page, the top bar, another tab
  AlertRingMax,   \* ALERT_RING_MAX, of either source
  MaxCumulative,  \* MAX_CUMULATIVE
  MaxTicks,       \* bound: frames with alerts, and alerts made up
  MaxPresses      \* bound: buttons pressed and pages reloaded

VARIABLES
  rings,     \* by source: _alerts and SIM.alerts, newest first
  origin,    \* the source of the next snapshot
  tick,      \* the time of the last alert
  all,       \* by hook: the alerts seen, newest first
  acked,     \* by hook: the ids acknowledged
  storage,   \* localStorage
  presses,
  pressers,  \* history: the hooks whose buttons were used
  sources    \* history, by hook: whose alerts its list was made of since it was empty

bridgeVars == <<rings, origin, tick>>
listVars == <<all, sources>>
ackVars == <<acked, storage, pressers>>
vars == <<rings, origin, tick, all, acked, storage, presses, pressers, sources>>

Sources == {"gateway", "mock"}

\* The thresholds a frame may cross
Kinds == {"failed", "crc", "climbed", "exceeded"}

\* _ALERT_TEMPLATES: one of each severity
SimKinds == {"stable", "crc", "exceeded"}

Module(kind) ==
  CASE kind = "failed" -> "FEC" [] kind = "crc" -> "CRC" [] kind = "stable" -> "LINK"
    [] OTHER -> "BURST"
Severity(kind) ==
  CASE kind \in {"failed", "exceeded"} -> "critical" [] kind = "stable" -> "info"
    [] OTHER -> "warning"

Init ==
  /\ rings = [r \in Sources |-> <<>>] /\ origin = "mock" /\ tick = 0
  /\ all = [h \in Hooks |-> <<>>] /\ acked = [h \in Hooks |-> {}] /\ storage = {}
  /\ presses = 0 /\ pressers = {} /\ sources = [h \in Hooks |-> {}]

FirstOf(s, n) == SubSeq(s, 1, IF Len(s) < n THEN Len(s) ELSE n)
Push(list, alert) == FirstOf(<<alert>> \o list, AlertRingMax)

\* _push_alert(): the id is made of the time, the module and the length of the
\* list before the push.
PushAlert(list, t, kind) ==
  Push(list, [id |-> <<t, Module(kind), Len(list)>>, kind |-> kind])

\* One more alert, or some of one frame, in the list of the source that is there
Alarm(list) ==
  /\ tick < MaxTicks /\ tick' = tick + 1
  /\ rings' = [rings EXCEPT ![origin] = list]
  /\ UNCHANGED <<origin, listVars, ackVars, presses>>

\* _detect_alerts() on a frame that crosses some of the thresholds: they are
\* looked at one after the other.
Detect(crossed) ==
  LET Look(list, kind) == IF kind \in crossed THEN PushAlert(list, tick + 1, kind) ELSE list
  IN /\ origin = "gateway" /\ crossed # {}
     /\ Alarm(Look(Look(Look(Look(rings["gateway"], "failed"), "crc"), "climbed"),
                   "exceeded"))

\* _maybe_emit_alert(): the third part of its ids is drawn from four-digit numbers.
Simulate(kind) ==
  /\ origin = "mock"
  /\ Alarm(Push(rings["mock"],
                [id |-> <<tick + 1, Module(kind), AlertRingMax + 1>>, kind |-> kind]))

\* current_snapshot(): the daemon's first frame is in, or its connection is over.
\* Neither list is emptied.
Switch ==
  /\ origin' \in Sources \ {origin}
  /\ UNCHANGED <<rings, tick, listVars, ackVars, presses>>

Ids(list) == {list[i].id : i \in DOMAIN list}
Time(alert) == alert.id[1]

\* Array.prototype.sort() is stable.
Before(list, i, j) ==
  Time(list[i]) > Time(list[j]) \/ (Time(list[i]) = Time(list[j]) /\ i < j)

\* The alerts at some positions of a list, the newest first
SortedByTime(list, kept) ==
  LET place == [i \in kept |-> Cardinality({j \in kept : Before(list, j, i)}) + 1]
  IN [n \in 1 .. Cardinality(kept) |-> list[CHOOSE i \in kept : place[i] = n]]

\* All of what was seen, and what is new by its id
Kept(list, seen) ==
  {i \in 1 .. Len(list) + Len(seen) : i <= Len(list) => list[i].id \notin Ids(seen)}

\* Mutant: the oldest are kept.
Merged_Oldest(list, seen) ==
  LET merged == SortedByTime(list \o seen, Kept(list, seen))
  IN SubSeq(merged, IF Len(merged) > MaxCumulative THEN Len(merged) - MaxCumulative + 1 ELSE 1,
            Len(merged))

\* What is new goes in front; the newest MAX_CUMULATIVE stay.
Merged(list, seen) ==
  FirstOf(SortedByTime(list \o seen, Kept(list, seen)), MaxCumulative)

\* A snapshot arrives: the effect on [snap], whatever its source.
Show(h) ==
  /\ rings[origin] # <<>>
  /\ all' = [all EXCEPT ![h] = Merged(rings[origin], @)]
  /\ sources' = [sources EXCEPT ![h] = @ \cup {origin}]
  /\ UNCHANGED <<bridgeVars, ackVars, presses>>

-----------------------------------------------------------------------------
(* What the page and the top bar tell of a hook's list and acknowledgements   *)

Severities == {"critical", "warning", "info"}

\* The rows of a tab while some severities are filtered out
Listed(list, acks, tab, hidden) ==
  {i \in DOMAIN list : /\ tab = "active" => list[i].id \notin acks
                       /\ tab = "acknowledged" => list[i].id \in acks
                       /\ Severity(list[i].kind) \notin hidden}

\* EmptyState: "No active alerts - all clear."
SaysAllClear(list, acks, hidden) == Listed(list, acks, "active", hidden) = {}

\* counts, as a tile shows them: those of the severities include what is acknowledged
Count(list, acks, tile) ==
  IF tile = "active" THEN Len(list) - Cardinality({i \in DOMAIN list : list[i].id \in acks})
                     ELSE Cardinality({i \in DOMAIN list : Severity(list[i].kind) = tile})

\* The tiles that turn green at 0; "Info" never does.
Green(list, acks, tile) == tile # "info" /\ Count(list, acks, tile) = 0

\* The top bar's bell has a red number.
Bell(list, acks) == Count(list, acks, "active") > 0

-----------------------------------------------------------------------------
(* The buttons                                                               *)

Press(h) ==
  /\ presses < MaxPresses /\ presses' = presses + 1
  /\ UNCHANGED bridgeVars

\* saveAcks(): the hook's whole set replaces what is stored.
SetAcked(h, set) ==
  /\ acked' = [acked EXCEPT ![h] = set] /\ storage' = set
  /\ pressers' = pressers \cup {h}
  /\ UNCHANGED listVars

Acknowledge(h) ==
  /\ Press(h)
  /\ \E id \in Ids(all[h]) \ acked[h] : SetAcked(h, acked[h] \cup {id})

\* Mutant: the ids that are acknowledged are all that is stored.
AcknowledgeAll_Fresh(h) ==
  /\ Press(h)
  /\ \E ids \in SUBSET Ids(all[h]) :
       /\ ids # {} /\ ids \cap acked[h] = {}
       /\ acked' = [acked EXCEPT ![h] = @ \cup ids] /\ storage' = ids
  /\ pressers' = pressers \cup {h}
  /\ UNCHANGED listVars

\* The filters choose which of the active ones.
AcknowledgeAll(h) ==
  /\ Press(h)
  /\ \E ids \in SUBSET Ids(all[h]) :
       ids # {} /\ ids \cap acked[h] = {} /\ SetAcked(h, acked[h] \cup ids)

Unacknowledge(h) ==
  /\ Press(h)
  /\ \E id \in Ids(all[h]) \cap acked[h] : SetAcked(h, acked[h] \ {id})

ClearAcks(h) ==
  /\ Press(h)
  /\ Ids(all[h]) \cap acked[h] # {}
  /\ SetAcked(h, {})

\* The hook's list is empty.
Emptied(h) ==
  all' = [all EXCEPT ![h] = <<>>] /\ sources' = [sources EXCEPT ![h] = {}]

ClearHistory(h) == Press(h) /\ Emptied(h) /\ UNCHANGED ackVars

\* loadAcks()
Reload(h) ==
  /\ Press(h) /\ Emptied(h)
  /\ acked' = [acked EXCEPT ![h] = storage]
  /\ UNCHANGED <<storage, pressers>>

Next ==
  \/ \E crossed \in SUBSET Kinds : Detect(crossed)
  \/ \E kind \in SimKinds : Simulate(kind)
  \/ Switch
  \/ \E h \in Hooks :
       \/ Show(h) \/ Acknowledge(h) \/ AcknowledgeAll(h) \/ Unacknowledge(h)
       \/ ClearAcks(h) \/ ClearHistory(h) \/ Reload(h)

Spec == Init /\ [][Next]_vars

-----------------------------------------------------------------------------
\* An alert is not listed for as many as a list may hold that are as new.
PushedOut(alert, list) ==
  /\ alert \notin Range(list) /\ Len(list) = MaxCumulative
  /\ \A i \in DOMAIN list : Time(list[i]) >= Time(alert)

\* "we keep a session-level cumulative list": the next snapshot leaves every
\* alert of its ring in a hook's list, once, newest first, whatever was cleared,
\* cut off or seen before, and though ids may collide in a full ring.  An alert is
\* passed over only for MAX_CUMULATIVE others as new, and then alerts of both
\* sources have been listed: those that are made up while the daemon is away push
\* out what it warned of.  "All clear", a green tile and a bell without a number
\* are otherwise true of the ring: what is neither filtered out nor acknowledged
\* is not passed over.
SnapshotIsKept ==
  \A h \in Hooks :
    LET ring == rings[origin]
        list == Merged(ring, all[h])
        told == {i \in DOMAIN ring : ~PushedOut(ring[i], list) \/ sources[h] \subseteq {origin}}
    IN /\ \A i \in told : ring[i] \in Range(list)
       /\ \A i, j \in DOMAIN list : i < j =>
            list[i] # list[j] /\ Time(list[i]) >= Time(list[j])
       /\ SaysAllClear(list, acked[h], {}) =>
            /\ \A i \in told : ring[i].id \in acked[h]
            /\ ~Bell(list, acked[h]) /\ Green(list, acked[h], "active")
       /\ \A tile \in Severities : Green(list, acked[h], tile) =>
            \A i \in told : Severity(ring[i].kind) # tile
       /\ \A hidden \in SUBSET Severities : SaysAllClear(list, acked[h], hidden) =>
            \A i \in told : ring[i].id \in acked[h] \/ Severity(ring[i].kind) \in hidden

\* "Tracks acknowledgments in localStorage so refresh doesn't reset them": as
\* long as one page is used for it, what it shows as acknowledged is what
\* another reload would show.
AcksSurvive == \A h \in Hooks : pressers = {h} => acked[h] = storage
=============================================================================
