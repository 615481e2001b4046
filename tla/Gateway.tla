------------------------------- MODULE Gateway -------------------------------
(***************************************************************************)
(* The process around the pipelines: src/gateway.c as tools/fso_gw_runner.c *)
(* drives it.  The main thread creates everything, starts the two pipeline *)
(* threads, waits for them and tears everything down; a signal handler or  *)
(* the timer stops the gateway; the control server's worker reads the      *)
(* collector and the ARP cache all the time.                               *)
(*                                                                         *)
(* A pipeline is reduced to what the process sees of it: a call that       *)
(* returns, possibly with a fatal error, and block events of the receiver. *)
(***************************************************************************)
EXTENDS Integers, Sequences

CONSTANTS Cap, MaxEvents

VARIABLES
  main,       \* where in main(), gateway_run(), gateway_destroy()
  running,    \* gw->running
  gw,         \* the gateway, its pipelines, ARP cache and handles: "none", "up", "freed"
  tx, rx,     \* the pipeline threads: "none", "loop", "done"
  tx_error, rx_error,
  result,     \* what gateway_run() returned; 1 before
  freedUses,  \* history: which of "server" and "gateway" was used once it was freed
  events, events_head, events_count, server, cs_running, registered,
  worker, batch, client, pushed, drained, received   \* the control server

CS == INSTANCE ControlServer

ASSUME GatewayAssumption == CS!RingAssumption

control == <<events, events_head, events_count, server, cs_running, registered,
             worker, batch, client, pushed, drained, received>>
threads == <<running, tx, rx, tx_error, rx_error>>
life == <<gw, freedUses>>
vars == <<main, life, result, threads, control>>

Init ==
  /\ main = "create"
  /\ running = FALSE /\ gw = "none" /\ freedUses = {}
  /\ tx = "none" /\ rx = "none"
  /\ tx_error = FALSE /\ rx_error = FALSE
  /\ result = 1
  /\ CS!Init

-----------------------------------------------------------------------------
(* The main thread                                                           *)

Goto(from, to) == main = from /\ main' = to

\* gateway_create(): the control server may fail, the gateway goes on without.
Create ==
  /\ Goto("create", "run")
  /\ gw' = "up"
  /\ CS!Start \/ CS!StartFails \/ CS!StartWithoutThread
  /\ UNCHANGED <<freedUses, result, threads>>

\* A handle or a pipeline cannot be had: gateway_run(NULL) returns -1.
CreateFails ==
  /\ Goto("create", "exit")
  /\ result' = -1
  /\ UNCHANGED <<life, threads, control>>

RunBegin ==
  /\ Goto("run", "spawn_tx")
  /\ running' = TRUE
  /\ UNCHANGED <<life, result, tx, rx, tx_error, rx_error, control>>

SpawnTx ==
  /\ Goto("spawn_tx", "spawn_rx")
  /\ tx' = "loop"
  /\ UNCHANGED <<life, result, running, rx, tx_error, rx_error, control>>

SpawnTxFails ==
  /\ Goto("spawn_tx", "destroy")
  /\ running' = FALSE
  /\ result' = -1
  /\ UNCHANGED <<life, tx, rx, tx_error, rx_error, control>>

SpawnRx ==
  /\ Goto("spawn_rx", "join_tx")
  /\ rx' = "loop"
  /\ UNCHANGED <<life, result, running, tx, tx_error, rx_error, control>>

\* Mutant: the first thread is left running when the second cannot be had.
SpawnRxFails_NoJoin ==
  /\ Goto("spawn_rx", "destroy")
  /\ running' = FALSE
  /\ result' = -1
  /\ UNCHANGED <<life, tx, rx, tx_error, rx_error, control>>

\* The transmit thread alone is joined.
SpawnRxFails ==
  /\ Goto("spawn_rx", "join_only_tx")
  /\ running' = FALSE
  /\ UNCHANGED <<life, result, tx, rx, tx_error, rx_error, control>>

JoinOnlyTx ==
  /\ Goto("join_only_tx", "destroy")
  /\ tx = "done"
  /\ result' = -1
  /\ UNCHANGED <<life, threads, control>>

JoinTx ==
  /\ Goto("join_tx", "join_rx")
  /\ tx = "done"
  /\ UNCHANGED <<life, result, threads, control>>

JoinRx ==
  /\ Goto("join_rx", "destroy")
  /\ rx = "done"
  /\ result' = IF tx_error \/ rx_error THEN -1 ELSE 0
  /\ UNCHANGED <<life, threads, control>>

\* gateway_destroy() stops the telemetry thread first, if there is one.
DestroyServer ==
  /\ Goto("destroy", "join_worker")
  /\ CS!StopBegin
  /\ UNCHANGED <<life, result, threads>>

NoServer ==
  /\ Goto("destroy", "free")
  /\ server # "up"
  /\ UNCHANGED <<life, result, threads, control>>

JoinWorker ==
  /\ Goto("join_worker", "free")
  /\ CS!StopJoined
  /\ UNCHANGED <<life, result, threads>>

Free ==
  /\ Goto("free", "exit")
  /\ gw' = "freed"
  /\ UNCHANGED <<freedUses, result, threads, control>>

Main ==
  \/ Create \/ CreateFails \/ RunBegin \/ SpawnTx \/ SpawnTxFails \/ SpawnRx \/ SpawnRxFails
  \/ JoinOnlyTx \/ JoinTx \/ JoinRx \/ DestroyServer \/ NoServer \/ JoinWorker \/ Free

-----------------------------------------------------------------------------
(* The pipeline threads                                                      *)

\* tx_thread_func() finds running cleared.
TxExit ==
  /\ tx = "loop" /\ ~running
  /\ tx' = "done"
  /\ UNCHANGED <<main, life, result, running, rx, tx_error, rx_error, control>>

\* Mutant: a fatal error ends the transmit thread and nothing else.
TxFatal_KeepsRunning ==
  /\ tx = "loop"
  /\ tx' = "done" /\ tx_error' = TRUE
  /\ UNCHANGED <<main, life, result, running, rx, rx_error, control>>

\* tx_pipeline_run_once() returned -1.
TxFatal ==
  /\ tx = "loop"
  /\ tx' = "done" /\ tx_error' = TRUE /\ running' = FALSE
  /\ UNCHANGED <<main, life, result, rx, rx_error, control>>

RxExit ==
  /\ rx = "loop" /\ ~running
  /\ rx' = "done"
  /\ UNCHANGED <<main, life, result, running, tx, tx_error, rx_error, control>>

RxFatal ==
  /\ rx = "loop"
  /\ rx' = "done" /\ rx_error' = TRUE /\ running' = FALSE
  /\ UNCHANGED <<main, life, result, tx, tx_error, control>>

\* A block ends in the collector.
RxBlockFinal ==
  /\ rx = "loop"
  /\ CS!OnBlockFinal
  /\ freedUses' = IF server = "freed" THEN freedUses \cup {"server"} ELSE freedUses
  /\ UNCHANGED <<main, gw, result, threads>>

\* gateway_stop(), from the signal handler or the timer, which know the gateway
\* as soon as it is created; the handler's g_gw is never cleared.
Stop ==
  /\ gw # "none"
  /\ running' = FALSE
  /\ freedUses' = IF gw = "freed" THEN freedUses \cup {"gateway"} ELSE freedUses
  /\ UNCHANGED <<main, gw, result, tx, rx, tx_error, rx_error, control>>

Threads == TxExit \/ RxExit

Telemetry == CS!WorkerStep /\ UNCHANGED <<main, life, result, threads>>

WorkerExit == CS!WorkerExit /\ UNCHANGED <<main, life, result, threads>>

\* A client that stopped reading goes on, or leaves.
ClientRecovers ==
  /\ CS!ClientResumes \/ CS!ClientLeaves
  /\ UNCHANGED <<main, life, result, threads>>

ClientTurns ==
  /\ CS!ClientConnects \/ CS!ClientStalls
  /\ UNCHANGED <<main, life, result, threads>>

Next ==
  \/ Main \/ Threads \/ TxFatal \/ RxFatal \/ RxBlockFinal \/ Stop
  \/ Telemetry \/ WorkerExit \/ ClientRecovers \/ ClientTurns

\* The process has returned from main().
Done == main = "exit" /\ UNCHANGED vars

Spec == Init /\ [][Next \/ Done]_vars

\* Threads are scheduled, and a client does not stop reading for good without
\* hanging up: whatever it reads lets a blocked send() through in the end, hence
\* strong fairness of the worker.  (A client that never reads again blocks it,
\* and with it the join in control_server_stop().)
FairSpec ==
  /\ Spec
  /\ WF_vars(Main) /\ WF_vars(TxExit) /\ WF_vars(RxExit)
  /\ SF_vars(Telemetry) /\ WF_vars(WorkerExit /\ ~cs_running)
  /\ WF_vars(ClientRecovers /\ client = "stalled")

-----------------------------------------------------------------------------

TypeOK ==
  /\ CS!TypeOK
  /\ running \in BOOLEAN
  /\ gw \in {"none", "up", "freed"} /\ freedUses \subseteq {"server", "gateway"}
  /\ tx \in {"none", "loop", "done"} /\ rx \in {"none", "loop", "done"}
  /\ result \in {-1, 0, 1}

RingIsNewest == CS!RingIsNewest

EventsInOrder == CS!EventsInOrder

Serving == worker \in {"poll", "build", "send"}

\* "gateway_run() joins both threads before returning so the caller can safely
\* call gateway_destroy()": whatever could not be created and whoever fails, stops
\* or leaves, no pipeline thread and no telemetry worker is left running on what
\* was freed.  Two calls alone reach freed memory: the callbacks of a server whose
\* worker could not be created, and a signal after gateway_destroy().
FreedLast ==
  /\ gw # "up" => tx # "loop" /\ rx # "loop" /\ ~Serving
  /\ server = "freed" => ~Serving
  /\ "server" \in freedUses => worker = "none"
  /\ "gateway" \in freedUses => main = "exit"

\* gateway_run() returns 0 exactly when both pipelines ran and neither failed.
ResultIsHonest ==
  result = 0 => tx = "done" /\ rx = "done" /\ ~tx_error /\ ~rx_error

\* "Each thread exits if gateway_stop() is called or if its pipeline returns a
\* fatal error": once a started gateway was stopped or a pipeline failed, both
\* threads, the telemetry worker and main() come to their end.
ShutdownEnds ==
  main \in {"join_tx", "join_rx"} /\ (~running \/ tx_error \/ rx_error) ~> main = "exit"
=============================================================================
