--------------------------- MODULE DaemonSupervisor ---------------------------
(***************************************************************************)
(* The supervisor of the gateway process in the bridge (server/daemon.py)   *)
(* and the pages that drive it: useDaemon.ts, the runtime controls of the   *)
(* configuration page and the pill of the top bar.                          *)
(*                                                                         *)
(* The bridge is one event loop: a step of the model is what runs between   *)
(* two awaits.  A request is a call with its own program counter; every     *)
(* hook instance is a view, which polls and applies whatever answer arrives *)
(* last.  The operating system's processes are the environment.             *)
(***************************************************************************)
EXTENDS Integers, FiniteSets

CONSTANTS
  Views,      \* the instances of useDaemon() in open pages
  NumCalls,   \* bound: how many buttons are pressed
  MaxSaves,   \* bound: how many configurations are stored after the first
  MaxFaults   \* bound: crashes, failed launches and lost answers

ASSUME DaemonAssumption == NumCalls \in Nat /\ MaxSaves \in Nat /\ MaxFaults \in Nat

Calls == 1 .. NumCalls
NoProc == 0
NoCall == 0
States == {"stopped", "starting", "running", "stopping", "failed"}

VARIABLES
  state, proc, watcher_task,   \* the supervisor: _state, _proc, _watcher_task
  lock,       \* the call that holds _lock over an await, or NoCall
  watching,   \* the processes a _watch() task is waiting for
  os,         \* the process call c launched: none, alive, told (to end), exited
  cfg,        \* _cfg, the configuration of the last launch
  loaded,     \* what the call that holds the lock read from the disk
  stored,     \* the version of the configuration on disk
  call,       \* the requests: [op, pc, by, target, since, answer]
  used,       \* how many requests were made
  view,       \* what a page shows of the state; "none" before the first answer
  poll,       \* the answer on its way to a page that polled, or "none"
  overlapped, \* history: two requests were once under way together
  faults

server == <<state, proc, watcher_task, lock, watching>>
launch == <<cfg, loaded>>
world == <<os, launch>>
pages == <<view, poll>>
daemonVars == <<server, world, pages, stored, call, used, overlapped, faults>>

Alive(p) == os[p] \in {"alive", "told"}
Exited(p) == os[p] \in {"exit0", "exit1"}
Live == {p \in Calls : Alive(p)}

Idle == [op |-> "none", pc |-> "idle", by |-> "none", target |-> NoProc, since |-> 0,
         answer |-> "none"]
Pending == {c \in Calls : call[c].pc \notin {"idle", "answered", "done"}}

DaemonInit ==
  /\ state = "stopped" /\ proc = NoProc /\ watcher_task = NoProc
  /\ lock = NoCall /\ watching = {}
  /\ os = [p \in Calls |-> "none"] /\ cfg = 0 /\ loaded = 0
  /\ stored = 0
  /\ call = [c \in Calls |-> Idle] /\ used = 0
  /\ view = [v \in Views |-> "none"] /\ poll = [v \in Views |-> "none"]
  /\ overlapped = FALSE /\ faults = 0

Fault == faults < MaxFaults /\ faults' = faults + 1

-----------------------------------------------------------------------------
(* The pages                                                                 *)

\* The state a page draws: no answer yet is drawn as "stopped".
Shown(v) == IF view[v] = "none" THEN "stopped" ELSE view[v]

\* RuntimeControlsPanel: which buttons can be pressed.  TactileButton is also
\* disabled while it shows its spinner, which needs a busy state; a request
\* that is under way disables nothing.
Busy(v) == Shown(v) \in {"starting", "stopping"}
CanPress(v, op) ==
  /\ ~Busy(v)
  /\ CASE op = "start" -> Shown(v) \in {"stopped", "failed"}
       [] op = "stop" -> Shown(v) \in {"running", "starting"}
       [] op = "restart" -> Shown(v) = "running"

\* A button is pressed: action() posts.  start() enters the lock, stop() and
\* restart() stop first.
Press(v, op) ==
  /\ used < NumCalls
  /\ CanPress(v, op)
  /\ used' = used + 1
  /\ call' = [call EXCEPT ![used + 1] =
                [Idle EXCEPT !.op = op, !.by = v,
                             !.since = IF op = "restart" THEN stored ELSE 0,
                             !.pc = IF op = "start" THEN "start" ELSE "stop"]]
  /\ overlapped' = (overlapped \/ Pending # {})
  /\ UNCHANGED <<server, world, pages, stored, faults>>

\* The answer of a POST replaces what the page shows.
Answered(c, v) ==
  /\ call[c].pc = "answered" /\ call[c].by = v
  /\ call' = [call EXCEPT ![c] = [Idle EXCEPT !.pc = "done"]]
  /\ view' = [view EXCEPT ![v] = call[c].answer]
  /\ UNCHANGED <<server, world, poll, stored, used, overlapped, faults>>

\* The network loses the answer: the page shows an error and keeps its state.
AnswerLost(c) ==
  /\ Fault
  /\ call[c].pc = "answered"
  /\ call' = [call EXCEPT ![c] = [Idle EXCEPT !.pc = "done"]]
  /\ UNCHANGED <<server, world, pages, stored, used, overlapped>>

\* setInterval(refresh, 2000): the status as it is when the bridge is asked.
Poll(v) ==
  /\ poll[v] = "none"
  /\ poll' = [poll EXCEPT ![v] = state]
  /\ UNCHANGED <<server, world, view, stored, call, used, overlapped, faults>>

\* refresh(): the answer arrives, however old it is by now.  (A poll that fails
\* changes nothing of the state shown.)
Refresh(v) ==
  /\ poll[v] # "none"
  /\ view' = [view EXCEPT ![v] = poll[v]]
  /\ poll' = [poll EXCEPT ![v] = "none"]
  /\ UNCHANGED <<server, world, stored, call, used, overlapped, faults>>

\* The configuration editor stores another version.
Save ==
  /\ stored < MaxSaves
  /\ stored' = stored + 1
  /\ UNCHANGED <<server, world, pages, call, used, overlapped, faults>>

-----------------------------------------------------------------------------
(* start()                                                                   *)

\* A call goes on at another point, or returns status() as it is after the step.
Goto(c, pc) == call' = [call EXCEPT ![c].pc = pc]
Return(c, s) == call' = [call EXCEPT ![c].pc = "answered", ![c].answer = s]

At(c, pc) == call[c].pc = pc /\ UNCHANGED <<pages, stored, used, overlapped>>

\* The lock is free: a start that is not needed returns, another one keeps the
\* lock over its awaits.
StartEnter(c) ==
  /\ At(c, "start")
  /\ lock = NoCall
  /\ IF state \in {"starting", "running"}
       THEN Return(c, state) /\ UNCHANGED lock
       ELSE Goto(c, "load") /\ lock' = c
  /\ UNCHANGED <<state, proc, watcher_task, watching, world, faults>>

\* Mutant: the configuration of the last launch is used again.
StartLoad_Cached(c) ==
  /\ At(c, "load")
  /\ loaded' = IF used > 1 THEN cfg ELSE stored
  /\ Goto(c, "launch")
  /\ UNCHANGED <<server, os, cfg, faults>>

\* config_load() in a thread.
StartLoad(c) ==
  /\ At(c, "load")
  /\ loaded' = stored
  /\ Goto(c, "launch")
  /\ UNCHANGED <<server, os, cfg, faults>>

\* Popen succeeds; the call sleeps for 0.2 s.
StartLaunch(c) ==
  /\ At(c, "launch")
  /\ state' = "starting" /\ proc' = c
  /\ os' = [os EXCEPT ![c] = "alive"]
  /\ cfg' = loaded /\ loaded' = 0
  /\ Goto(c, "probe")
  /\ UNCHANGED <<watcher_task, lock, watching, faults>>

\* The binary is missing, or, with _cfg set already, Popen or the log file
\* raises: _proc stays as it was.
StartFails(c) ==
  /\ Fault
  /\ At(c, "launch")
  /\ state' = "failed" /\ lock' = NoCall
  /\ cfg' \in {cfg, loaded} /\ loaded' = 0
  /\ Return(c, "failed")
  /\ UNCHANGED <<proc, watcher_task, watching, os>>

\* Mutant: nobody watches the new process.
StartProbe_NoWatcher(c) ==
  /\ At(c, "probe")
  /\ lock' = NoCall
  /\ IF Exited(proc)
       THEN state' = "failed" /\ proc' = NoProc
       ELSE state' = "running" /\ UNCHANGED proc
  /\ Return(c, state')
  /\ UNCHANGED <<watching, watcher_task, world, faults>>

\* poll() of the process _proc names by now: gone already, or watched from here on.
StartProbe(c) ==
  /\ At(c, "probe")
  /\ lock' = NoCall
  /\ IF Exited(proc)
       THEN state' = "failed" /\ proc' = NoProc /\ UNCHANGED <<watching, watcher_task>>
       ELSE /\ state' = "running" /\ UNCHANGED proc
            /\ watching' = watching \cup {proc} /\ watcher_task' = proc
  /\ Return(c, state')
  /\ UNCHANGED <<world, faults>>

-----------------------------------------------------------------------------
(* stop(), restart() and _watch()                                            *)

\* What follows stop(): a restart starts, a stop returns.
AfterStop(c, s) ==
  call' = [call EXCEPT ![c] =
             IF @.op = "restart" THEN [@ EXCEPT !.pc = "start", !.target = NoProc]
             ELSE [@ EXCEPT !.pc = "answered", !.answer = s, !.target = NoProc]]

\* Nothing to stop, or somebody else is stopping it.
StopNothing(c) ==
  /\ At(c, "stop")
  /\ lock = NoCall
  /\ proc = NoProc \/ state \in {"stopped", "stopping"}
  /\ AfterStop(c, state)
  /\ UNCHANGED <<server, world, faults>>

\* The lock is given back with the state "stopping" and the signal is sent.
StopSignal(c) ==
  /\ At(c, "stop")
  /\ lock = NoCall
  /\ proc # NoProc /\ state \notin {"stopped", "stopping"}
  /\ state' = "stopping"
  /\ os' = [os EXCEPT ![proc] = IF Exited(proc) THEN @ ELSE "told"]
  /\ call' = [call EXCEPT ![c].pc = "wait", ![c].target = proc]
  /\ UNCHANGED <<proc, watcher_task, lock, watching, launch, faults>>

\* STOP_GRACE_SEC are over: SIGKILL.
StopKill(c) ==
  /\ At(c, "wait")
  /\ Alive(call[c].target)
  /\ os' = [os EXCEPT ![call[c].target] = "exit1"]
  /\ UNCHANGED <<server, launch, call, faults>>

\* Mutant: stop() does not wait for the process it signalled.
StopEnd_NoWait(c) ==
  /\ At(c, "wait")
  /\ lock = NoCall
  /\ proc' = NoProc /\ state' = "stopped"
  /\ watching' = watching \ {watcher_task} /\ watcher_task' = NoProc
  /\ AfterStop(c, "stopped")
  /\ UNCHANGED <<lock, world, faults>>

\* The process is gone and the lock is free: whatever _proc and _watcher_task
\* are by now is forgotten and cancelled.
StopEnd(c) ==
  /\ At(c, "wait")
  /\ Exited(call[c].target)
  /\ lock = NoCall
  /\ proc' = NoProc /\ state' = "stopped"
  /\ watching' = watching \ {watcher_task} /\ watcher_task' = NoProc
  /\ AfterStop(c, "stopped")
  /\ UNCHANGED <<lock, world, faults>>

\* The task that waited for process p has the lock.
Watch(p) ==
  /\ p \in watching /\ Exited(p)
  /\ lock = NoCall
  /\ watching' = watching \ {p}
  /\ IF state = "stopping"
       THEN UNCHANGED <<state, proc>>
       ELSE /\ proc' = NoProc
            /\ state' = IF os[p] = "exit0" THEN "stopped" ELSE "failed"
  /\ UNCHANGED <<watcher_task, lock, world, pages, stored, call, used, overlapped, faults>>

\* The gateway ends as it was told to, or on its own.
ProcessEnds(p) ==
  /\ os[p] = "told"
  /\ os' = [os EXCEPT ![p] = "exit0"]
  /\ UNCHANGED <<server, launch, pages, stored, call, used, overlapped, faults>>

ProcessDies(p) ==
  /\ Fault
  /\ os[p] = "alive"
  /\ \E rc \in {"exit0", "exit1"} : os' = [os EXCEPT ![p] = rc]
  /\ UNCHANGED <<server, launch, pages, stored, call, used, overlapped>>

-----------------------------------------------------------------------------
StartStep(c) ==
  \/ StartEnter(c) \/ StartLoad(c) \/ StartLaunch(c) \/ StartProbe(c)

StopStep(c) == StopNothing(c) \/ StopSignal(c) \/ StopKill(c) \/ StopEnd(c)

DaemonNext ==
  \/ \E v \in Views : \/ \E op \in {"start", "stop", "restart"} : Press(v, op)
                      \/ Poll(v) \/ Refresh(v)
                      \/ \E c \in Calls : Answered(c, v)
  \/ \E c \in Calls : \/ StartStep(c) \/ StartFails(c) \/ StopStep(c)
                      \/ AnswerLost(c) \/ Watch(c) \/ ProcessEnds(c) \/ ProcessDies(c)
  \/ Save

DaemonSpec == DaemonInit /\ [][DaemonNext]_daemonVars

\* The event loop runs what can run, threads return, timers fire; an answer
\* that is not lost arrives.
DaemonFairness ==
  /\ \A c \in Calls : /\ WF_daemonVars(StartStep(c)) /\ WF_daemonVars(StopStep(c))
                      /\ WF_daemonVars(Watch(c))
  /\ \A v \in Views : WF_daemonVars(Poll(v)) /\ WF_daemonVars(Refresh(v))

DaemonFairSpec == DaemonSpec /\ DaemonFairness

-----------------------------------------------------------------------------
\* Types; the lock is held exactly by the one call that is between config_load
\* and the probe of its process.
DaemonTypeOK ==
  /\ state \in States
  /\ proc \in Calls \cup {NoProc} /\ watcher_task \in Calls \cup {NoProc}
  /\ lock \in Calls \cup {NoCall}
  /\ watching \subseteq Calls
  /\ os \in [Calls -> {"none", "alive", "told", "exit0", "exit1"}]
  /\ cfg \in 0 .. MaxSaves /\ loaded \in 0 .. MaxSaves /\ stored \in 0 .. MaxSaves
  /\ call \in [Calls -> [op : {"none", "start", "stop", "restart"},
                         pc : {"idle", "start", "load", "launch", "probe", "stop",
                               "wait", "answered", "done"},
                         by : Views \cup {"none"},
                         target : Calls \cup {NoProc}, since : 0 .. MaxSaves,
                         answer : States \cup {"none"}]]
  /\ used \in 0 .. NumCalls
  /\ view \in [Views -> States \cup {"none"}] /\ poll \in [Views -> States \cup {"none"}]
  /\ overlapped \in BOOLEAN /\ faults \in 0 .. MaxFaults

\* daemon.py's "always considers itself the only manager of its own child": as
\* long as no request is made before the last one returned, the only process
\* that can be alive is the one _proc names, whatever crashes, fails to launch
\* or ignores SIGTERM, so that a page can always stop what runs.
SupervisedIfSerial == DaemonTypeOK /\ (~overlapped => Live \subseteq {proc})

\* A restart that answers "running" leaves a gateway launched with a configuration
\* at least as new as the one stored when the button was pressed, whoever launched
\* that gateway and whatever other requests were under way.
RestartApplies ==
  [][\A c \in Calls :
       call[c].op = "restart" /\ call[c].pc # "answered" /\ call'[c].pc = "answered"
         /\ call'[c].answer = "running"
       => cfg' >= call[c].since]_daemonVars

\* When the buttons, the crashes and the lost answers are over, the supervisor
\* settles, a state "running" is that of a process that is alive (a crash is
\* noticed), and every page shows the supervisor's state, though an answer
\* older than the one shown may arrive after it.
PagesConverge ==
  <>[](/\ state \in {"stopped", "running", "failed"}
       /\ state = "running" => Alive(proc)
       /\ \A v \in Views : view[v] = state)

\* daemon.py's "spawn and manage a single fso_gw_runner subprocess".
SingleGateway == Cardinality(Live) <= 1
=============================================================================
