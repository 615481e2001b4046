--------------------------------- MODULE Pages ---------------------------------
(***************************************************************************)
(* The pages of the GUI beside the live feed, over what each talks to: the  *)
(* alerts, the experiment reports, the configuration form, the channel      *)
(* impairment, the log console and the list of blocks that ended.  They     *)
(* share nothing but the bridge's address, so this module only names them   *)
(* and what each promises; MCPages runs them, PagesProofs proves of them.   *)
(***************************************************************************)
EXTENDS Integers, Sequences

-----------------------------------------------------------------------------
(* Alerts                                                                    *)

CONSTANTS Hooks, AlertRingMax, MaxCumulative, MaxTicks, MaxPresses

VARIABLES rings, origin, tick, all, acked, storage, presses, pressers, sources

Alarms == INSTANCE Alerts
alarmsVars == <<rings, origin, tick, all, acked, storage, presses, pressers, sources>>

\* A reload keeps what was acknowledged.
AcksSurvive == Alarms!AcksSurvive

\* A snapshot leaves every alert of its ring in the list, once, unless newer ones,
\* some of another source, take all its room.
SnapshotIsKept == Alarms!SnapshotIsKept

-----------------------------------------------------------------------------
(* Experiments                                                               *)

CONSTANTS MaxFiles, MaxFetches

VARIABLES
  files, written, list, selected, timers, fetches, asked, detail, loading, disturbed

Artefacts == INSTANCE Experiments
artefactsVars ==
  <<files, written, list, selected, timers, fetches, asked, detail, loading, disturbed>>

\* The report drawn is that of the file selected.
DetailIsSelected == Artefacts!DetailIsSelected

-----------------------------------------------------------------------------
(* The configuration form                                                    *)

CONSTANTS KMin, KMax, Typed, PresetK, MaxEdits, MaxSaves, MaxLost

VARIABLES
  persisted, draft, status, error, requiresRestart, reqs, saves, edits, lost,
  stored, meant, raced

Form == INSTANCE ConfigEditor
formVars ==
  <<persisted, draft, status, error, requiresRestart, reqs, saves, edits, lost,
    stored, meant, raced>>

\* "Saved" and "In sync" are said of what is on disk and was chosen.
LabelIsTrue == Form!LabelIsTrue

\* No edit is lost while the user waits for each answer.
DraftIsMeant == Form!DraftIsMeant

-----------------------------------------------------------------------------
(* The channel impairment page                                               *)

CONSTANTS Ifaces, First, Models, FirstModel, MaxNames, MaxPosts, MaxFaults

VARIABLES
  qdisc, iface, sliders, busy, impairment, gets, jobs, waiting, apart, names, posts,
  faults

Emulation == INSTANCE Channel WITH shown <- impairment
emulationVars ==
  <<qdisc, iface, sliders, busy, impairment, gets, jobs, waiting, apart, names, posts,
    faults>>

\* An interface has the loss model last applied to it.
LastPostHolds == Emulation!LastPostHolds

-----------------------------------------------------------------------------
(* The log console                                                           *)

CONSTANTS BufferSize, QueueCap, MaxLines, MaxMoves, MaxDrops

VARIABLES
  file, lastIno, mode, tail, queue, connected, paused, events, pausedBuffer,
  label, levels, made, moves, buttons, drops, delivered

Console == INSTANCE LogConsole WITH presses <- buttons
consoleVars ==
  <<file, lastIno, mode, tail, queue, connected, paused, events, pausedBuffer, label,
    levels, made, moves, buttons, drops, delivered>>

\* No line comes twice or out of order, and the console shows the last lines that
\* reached it.
NewestAreShown == Console!LinesInOrder /\ Console!NewestAreShown

-----------------------------------------------------------------------------
(* The list of blocks that ended                                             *)

CONSTANTS EventRingCap, BlockEventRing, PageRows, MaxEnds, MaxFrames, MaxRestarts

VARIABLES eventRing, link, frames, lastRaw, blockFeed, ends, restarts, told, missed

Endings == INSTANCE BlockEvents WITH ring <- eventRing, feed <- blockFeed
endingsVars ==
  <<eventRing, link, frames, lastRaw, blockFeed, ends, restarts, told, missed>>

\* The FEC page lists the newest ends of blocks the bridge took.
EndsAreTold == Endings!EndsAreTold

-----------------------------------------------------------------------------
\* What is asked of the constants: bounds are numbers, the text field starts with a
\* name it can hold, and a list that is cut off keeps what is drawn of it.
ASSUME PagesAssumption ==
  /\ MaxFetches \in Nat /\ MaxSaves \in Nat /\ MaxPosts \in Nat
  /\ First \in Ifaces
  /\ BufferSize \in Nat /\ QueueCap \in Nat
  /\ EventRingCap \in Nat \ {0} /\ BlockEventRing \in Nat
  /\ PageRows \in Nat /\ PageRows <= BlockEventRing
  /\ AlertRingMax \in Nat /\ MaxCumulative \in Nat /\ AlertRingMax <= MaxCumulative
=============================================================================
