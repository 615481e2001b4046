---------------------------- MODULE GatewayProofs ----------------------------
(***************************************************************************)
(* The gateway's own life and what its threads share: for any ring and any *)
(* number of events, teardown, the result of gateway_run() and the events  *)
(* of the control server; for any addresses, slots and TTL, the ARP table. *)
(***************************************************************************)
EXTENDS Gateway, ArpCache, DataLemmas

\* Where main() is once gateway_run() has returned
Over == {"destroy", "join_worker", "free", "exit"}

\* The pipeline threads that may exist at each place of the main thread
ThreadsAt ==
  /\ main \in {"create", "run", "spawn_tx"} => tx = "none" /\ rx = "none"
  /\ main \in {"spawn_rx", "join_only_tx"} => rx = "none"
  /\ main = "join_rx" => tx = "done"
  /\ main \in Over => tx # "loop" /\ rx # "loop"

\* The telemetry worker lives as long as its server, and a server that had one is
\* freed without callbacks.
WorkerAt ==
  /\ server \in {"none", "up", "freed"}
  /\ main = "create" => server = "none"
  /\ main \in {"free", "exit"} => server # "up"
  /\ main = "join_worker" => ~registered
  /\ server = "none" => worker = "none"
  /\ server = "freed" => worker \in {"none", "exited"} /\ (registered => worker = "none")

\* Where main() is when the gateway does not exist, and who met what was freed
FreedAt ==
  /\ gw \in {"none", "up", "freed"}
  /\ gw # "up" => main \in {"create", "exit"}
  /\ gw = "freed" => main = "exit"
  /\ "server" \in freedUses => server = "freed" /\ worker = "none"
  /\ "gateway" \in freedUses => gw = "freed"

ResultAt ==
  result = 0 => main \in Over /\ tx = "done" /\ rx = "done" /\ ~tx_error /\ ~rx_error

Inv == ThreadsAt /\ WorkerAt /\ FreedAt /\ ResultAt

LEMMA InitInv == Init => Inv
BY DEF Init, CS!Init, Inv, ThreadsAt, WorkerAt, FreedAt, ResultAt, Over

-----------------------------------------------------------------------------
(* What the control server does to its own life                              *)

LEMMA StartWorker ==
  ASSUME CS!Start \/ CS!StartFails \/ CS!StartWithoutThread, WorkerAt
  PROVE  /\ server' \in {"none", "up", "freed"}
         /\ server' = "none" => worker' = "none"
         /\ server' = "freed" => worker' = "none"
<1>1. CASE CS!Start
  <2>1. server' = "up"
    BY <1>1 DEF CS!Start
  <2> QED BY <2>1
<1>2. CASE CS!StartFails
  <2>1. server = "none" /\ server' = server /\ worker' = worker
    BY <1>2 DEF CS!StartFails, CS!vars, CS!thread, CS!serving
  <2> QED BY <2>1 DEF WorkerAt
<1>3. CASE CS!StartWithoutThread
  <2>1. server = "none" /\ server' = "freed" /\ worker' = worker
    BY <1>3 DEF CS!StartWithoutThread, CS!serving
  <2> QED BY <2>1 DEF WorkerAt
<1> QED BY <1>1, <1>2, <1>3

\* A worker that runs has a server, and stopping it is the main thread's doing.
LEMMA ServingWorker ==
  ASSUME CS!WorkerStep \/ CS!WorkerExit, WorkerAt
  PROVE  server \notin {"none", "freed"} /\ server' = server /\ registered' = registered
<1>1. worker \notin {"none", "exited"} /\ server' = server /\ registered' = registered
  BY DEF CS!WorkerStep, CS!WorkerExit, CS!Accept, CS!Build, CS!DropClient, CS!Send, CS!SendFails,
         CS!thread
<1>2. server # "none" /\ server # "freed"
  BY <1>1 DEF WorkerAt
<1> QED BY <1>1, <1>2

\* The steps of clients and of the receive thread concern neither.
LEMMA OthersKeepWorker ==
  ASSUME \/ CS!ClientResumes \/ CS!ClientLeaves \/ CS!ClientConnects \/ CS!ClientStalls
         \/ CS!OnBlockFinal
  PROVE  server' = server /\ worker' = worker /\ registered' = registered
BY DEF CS!ClientResumes, CS!ClientLeaves, CS!ClientConnects, CS!ClientStalls, CS!ClientMoves,
       CS!OnBlockFinal, CS!Push, CS!thread, CS!serving, CS!vars

-----------------------------------------------------------------------------
(* The steps                                                                 *)

LEMMA CreateStep ==
  ASSUME Inv, Create \/ CreateFails
  PROVE  Inv'
<1>1. CASE Create
  <2>1. /\ main = "create" /\ main' = "run" /\ gw' = "up"
        /\ UNCHANGED <<freedUses, result, running, tx, rx, tx_error, rx_error>>
    BY <1>1 DEF Create, Goto, threads
  <2>2. /\ server' \in {"none", "up", "freed"}
        /\ server' = "none" => worker' = "none"
        /\ server' = "freed" => worker' = "none"
    BY <1>1, StartWorker DEF Create, Inv
  <2>3. "server" \notin freedUses /\ "gateway" \notin freedUses
    BY <2>1 DEF Inv, WorkerAt, FreedAt
  <2> QED BY <2>1, <2>2, <2>3 DEF Inv, ThreadsAt, WorkerAt, FreedAt, ResultAt, Over
<1>2. CASE CreateFails
  BY <1>2 DEF CreateFails, Goto, threads, life, control, Inv, ThreadsAt, WorkerAt, FreedAt, ResultAt, Over
<1> QED BY <1>1, <1>2

LEMMA RunStep ==
  ASSUME Inv, RunBegin \/ SpawnTx \/ SpawnTxFails \/ SpawnRx \/ SpawnRxFails
  PROVE  Inv'
<1>1. UNCHANGED <<gw, freedUses, server, registered, worker, tx_error, rx_error>>
  BY DEF RunBegin, SpawnTx, SpawnTxFails, SpawnRx, SpawnRxFails, life, control
<1>2. ThreadsAt'
  BY DEF Inv, ThreadsAt, Over, RunBegin, SpawnTx, SpawnTxFails, SpawnRx, SpawnRxFails, Goto
<1>3. WorkerAt' /\ FreedAt'
  BY <1>1 DEF Inv, WorkerAt, FreedAt, RunBegin, SpawnTx, SpawnTxFails, SpawnRx, SpawnRxFails, Goto
<1>4. result' # 0
  BY DEF Inv, ResultAt, Over, RunBegin, SpawnTx, SpawnTxFails, SpawnRx, SpawnRxFails, Goto
<1> QED BY <1>2, <1>3, <1>4 DEF Inv, ResultAt

LEMMA JoinStep ==
  ASSUME Inv, JoinOnlyTx \/ JoinTx \/ JoinRx
  PROVE  Inv'
<1>1. UNCHANGED <<gw, freedUses, server, registered, worker, tx, rx, tx_error, rx_error>>
  BY DEF JoinOnlyTx, JoinTx, JoinRx, threads, life, control
<1>2. ThreadsAt'
  BY <1>1 DEF Inv, ThreadsAt, Over, JoinOnlyTx, JoinTx, JoinRx, Goto
<1>3. WorkerAt' /\ FreedAt'
  BY <1>1 DEF Inv, WorkerAt, FreedAt, JoinOnlyTx, JoinTx, JoinRx, Goto
<1>4. ResultAt'
  <2>1. CASE JoinOnlyTx \/ JoinTx
    <3>1. result' # 0
      BY <2>1 DEF Inv, ResultAt, Over, JoinOnlyTx, JoinTx, Goto
    <3> QED BY <3>1 DEF ResultAt
  <2>2. CASE JoinRx
    <3>1. main' \in Over /\ tx = "done" /\ rx = "done"
      BY <2>2 DEF Inv, ThreadsAt, Over, JoinRx, Goto
    <3>2. result' = 0 => ~tx_error /\ ~rx_error
      BY <2>2 DEF JoinRx
    <3> QED BY <1>1, <3>1, <3>2 DEF ResultAt
  <2> QED BY <2>1, <2>2
<1> QED BY <1>2, <1>3, <1>4 DEF Inv

LEMMA DestroyStep ==
  ASSUME Inv, DestroyServer \/ NoServer \/ JoinWorker \/ Free
  PROVE  Inv'
<1>1. UNCHANGED <<result, tx, rx, tx_error, rx_error, worker>>
  BY DEF DestroyServer, NoServer, JoinWorker, Free, CS!StopBegin, CS!StopJoined, CS!serving,
         threads, control
<1>2. main \in Over /\ main' \in Over
  BY DEF DestroyServer, NoServer, JoinWorker, Free, Goto, Over
<1>3. ThreadsAt' /\ ResultAt'
  BY <1>1, <1>2 DEF Inv, ThreadsAt, ResultAt, Over
<1>4. WorkerAt'
  <2>1. CASE DestroyServer
    BY <1>1, <2>1 DEF DestroyServer, Goto, CS!StopBegin, Inv, WorkerAt
  <2>2. CASE NoServer
    BY <1>1, <2>2 DEF NoServer, Goto, control, Inv, WorkerAt
  <2>3. CASE JoinWorker
    BY <1>1, <2>3 DEF JoinWorker, Goto, CS!StopJoined, Inv, WorkerAt
  <2>4. CASE Free
    BY <1>1, <2>4 DEF Free, Goto, control, Inv, WorkerAt
  <2> QED BY <2>1, <2>2, <2>3, <2>4
<1>5. FreedAt'
  <2>1. freedUses' = freedUses /\ (gw' = gw \/ (gw' = "freed" /\ main' = "exit"))
    BY DEF DestroyServer, NoServer, JoinWorker, Free, Goto, life
  <2>2. server = "freed" => server' = "freed"
    BY DEF DestroyServer, NoServer, JoinWorker, Free, CS!StopBegin, CS!StopJoined, control
  <2>3. main # "exit" /\ main # "create"
    BY DEF DestroyServer, NoServer, JoinWorker, Free, Goto
  <2> QED BY <1>1, <2>1, <2>2, <2>3 DEF Inv, FreedAt
<1> QED BY <1>3, <1>4, <1>5 DEF Inv

LEMMA ThreadStep ==
  ASSUME Inv, TxExit \/ TxFatal \/ RxExit \/ RxFatal \/ Stop
  PROVE  Inv'
<1>1. UNCHANGED <<main, gw, result, server, registered, worker>>
  BY DEF TxExit, TxFatal, RxExit, RxFatal, Stop, life, control
<1>2. /\ tx' = tx \/ (tx = "loop" /\ tx' = "done")
      /\ rx' = rx \/ (rx = "loop" /\ rx' = "done")
  BY DEF TxExit, TxFatal, RxExit, RxFatal, Stop
<1>3. ThreadsAt'
  BY <1>1, <1>2 DEF Inv, ThreadsAt
<1>4. WorkerAt' /\ FreedAt'
  <2>1. freedUses' = freedUses \/ (gw = "freed" /\ freedUses' = freedUses \cup {"gateway"})
    BY DEF TxExit, TxFatal, RxExit, RxFatal, Stop, life
  <2> QED BY <1>1, <2>1 DEF Inv, WorkerAt, FreedAt
<1>5. ResultAt'
  <2>1. SUFFICES ASSUME result = 0 PROVE ResultAt'
    BY <1>1 DEF ResultAt
  <2>2. main \in Over /\ tx = "done" /\ rx = "done" /\ ~tx_error /\ ~rx_error
    BY <2>1 DEF Inv, ResultAt
  <2>3. Stop
    BY <2>2 DEF TxExit, TxFatal, RxExit, RxFatal
  <2>4. UNCHANGED <<tx, rx, tx_error, rx_error>>
    BY <2>3 DEF Stop
  <2> QED BY <1>1, <2>2, <2>4 DEF ResultAt
<1> QED BY <1>3, <1>4, <1>5 DEF Inv

LEMMA TelemetryStep ==
  ASSUME Inv, Telemetry \/ WorkerExit \/ RxBlockFinal \/ ClientRecovers \/ ClientTurns
  PROVE  Inv'
<1>1. UNCHANGED <<main, gw, result, tx, rx, tx_error, rx_error>>
  BY DEF Telemetry, WorkerExit, RxBlockFinal, ClientRecovers, ClientTurns, threads, life
<1>2. WorkerAt' /\ FreedAt'
  <2>1. CASE Telemetry \/ WorkerExit
    <3>1. server \notin {"none", "freed"} /\ server' = server /\ registered' = registered
      BY <2>1, ServingWorker DEF Telemetry, WorkerExit, Inv
    <3>2. freedUses' = freedUses
      BY <2>1 DEF Telemetry, WorkerExit, life
    <3> QED BY <1>1, <3>1, <3>2 DEF Inv, WorkerAt, FreedAt
  <2>2. CASE RxBlockFinal
    <3>1. server' = server /\ worker' = worker /\ registered' = registered /\ registered
      BY <2>2, OthersKeepWorker DEF RxBlockFinal, CS!OnBlockFinal
    <3>2. freedUses' = freedUses \/ (server = "freed" /\ freedUses' = freedUses \cup {"server"})
      BY <2>2 DEF RxBlockFinal
    <3> QED BY <1>1, <3>1, <3>2 DEF Inv, WorkerAt, FreedAt
  <2>3. CASE ClientRecovers \/ ClientTurns
    <3>1. server' = server /\ worker' = worker /\ registered' = registered /\ freedUses' = freedUses
      BY <2>3, OthersKeepWorker DEF ClientRecovers, ClientTurns, life
    <3> QED BY <1>1, <3>1 DEF Inv, WorkerAt, FreedAt
  <2> QED BY <2>1, <2>2, <2>3
<1>3. ThreadsAt' /\ ResultAt'
  BY <1>1 DEF Inv, ThreadsAt, ResultAt
<1> QED BY <1>2, <1>3 DEF Inv

LEMMA StutterStep ==
  ASSUME Inv, UNCHANGED vars
  PROVE  Inv'
<1>1. UNCHANGED <<main, gw, freedUses, result, tx, rx, tx_error, rx_error, server, registered, worker>>
  BY DEF vars, threads, life, control
<1> QED BY <1>1 DEF Inv, ThreadsAt, WorkerAt, FreedAt, ResultAt

LEMMA NextInv ==
  ASSUME Inv, [Next \/ Done]_vars
  PROVE  Inv'
<1>1. CASE Main
  BY <1>1, CreateStep, RunStep, JoinStep, DestroyStep DEF Main
<1>2. CASE Threads \/ TxFatal \/ RxFatal \/ Stop
  BY <1>2, ThreadStep DEF Threads
<1>3. CASE RxBlockFinal \/ Telemetry \/ WorkerExit \/ ClientRecovers \/ ClientTurns
  BY <1>3, TelemetryStep
<1>4. CASE Done \/ UNCHANGED vars
  BY <1>4, StutterStep DEF Done
<1> QED BY <1>1, <1>2, <1>3, <1>4 DEF Next

LEMMA InvHolds == Spec => []Inv
<1>1. Init => Inv
  BY InitInv
<1>2. Inv /\ [Next \/ Done]_vars => Inv'
  BY NextInv
<1> QED BY <1>1, <1>2, PTL DEF Spec

-----------------------------------------------------------------------------

\* gateway_destroy() leaves no pipeline thread and no telemetry worker running on
\* what it frees, and what is called on freed memory all the same is a callback of a
\* server whose worker could not be created, or the signal handler after main()'s end.
THEOREM NoThreadOutlivesWhatItUses == Spec => []FreedLast
<1>1. Inv => FreedLast
  BY DEF Inv, ThreadsAt, WorkerAt, FreedAt, FreedLast, Serving, Over
<1> QED BY <1>1, InvHolds, PTL

\* gateway_run() reports success only after two threads that ended without error.
THEOREM SuccessIsHonest == Spec => []ResultIsHonest
<1>1. Inv => ResultIsHonest
  BY DEF Inv, ResultAt, ResultIsHonest
<1> QED BY <1>1, InvHolds, PTL

-----------------------------------------------------------------------------
(* The ring of the control server holds what it should, for every capacity   *)
(* and every number of events, and no client is sent an event twice.         *)
(* Event n was written to slot (n - 1) % Cap and is there until event        *)
(* n + Cap; the head is pushed % Cap.  The rest is arithmetic of %.          *)

\* Every event the ring may still hold is at the place its number gives.
Placed ==
  /\ events_head = pushed % Cap
  /\ events_count = CS!Newest
  /\ \A n \in 1 .. pushed : pushed < n + Cap => events[(n - 1) % Cap] = n

Out == received \o batch

\* What has left the ring is no newer than the last drain.
OutDrained == \A i \in DOMAIN Out : Out[i] <= drained

\* There is no worker before the server is started.
Started == server = "none" => worker = "none"

RingInv == CS!TypeOK /\ Placed /\ CS!EventsInOrder /\ OutDrained /\ Started

LEMMA NewestBounds ==
  ASSUME CS!RingAssumption, CS!TypeOK
  PROVE  CS!Newest \in Nat /\ CS!Newest <= Cap /\ CS!Newest <= pushed - drained
BY DEF CS!RingAssumption, CS!TypeOK, CS!Newest

\* What events_drain() copies, whatever the head and the count
LEMMA ContentsAre ==
  ASSUME CS!RingAssumption, CS!TypeOK, Placed
  PROVE  CS!Contents = [i \in 1 .. CS!Newest |-> pushed - CS!Newest + i]
<1>1. Cap \in Nat \ {0} /\ pushed \in Nat /\ drained \in Nat
  BY DEF CS!RingAssumption, CS!TypeOK
<1>2. CS!Newest \in Nat /\ CS!Newest <= Cap /\ CS!Newest <= pushed - drained
  BY NewestBounds
<1>3. CS!Oldest = (pushed + (Cap - CS!Newest)) % Cap
  <2>1. ((pushed % Cap) + (Cap - CS!Newest)) % Cap = (pushed + (Cap - CS!Newest)) % Cap
    <3>1. pushed \in Int /\ Cap - CS!Newest \in Int
      BY <1>1, <1>2
    <3> QED BY <1>1, <3>1, ModAdd, Zenon
  <2>2. pushed % Cap \in Int
    BY <1>1, ModRange
  <2>3. (pushed % Cap) - CS!Newest + Cap = (pushed % Cap) + (Cap - CS!Newest)
    BY <1>1, <1>2, <2>2
  <2> QED BY <2>1, <2>3 DEF CS!Oldest, Placed
<1>4. ASSUME NEW i \in 1 .. CS!Newest
      PROVE  events[(CS!Oldest + i - 1) % Cap] = pushed - CS!Newest + i
  <2> DEFINE n == pushed - CS!Newest + i
  <2>1. n \in 1 .. pushed /\ pushed < n + Cap /\ n - 1 \in Int
    BY <1>1, <1>2
  <2>2. (CS!Oldest + (i - 1)) % Cap = ((pushed + (Cap - CS!Newest)) + (i - 1)) % Cap
    <3>1. pushed + (Cap - CS!Newest) \in Int /\ i - 1 \in Int
      BY <1>1, <1>2
    <3> QED BY <1>1, <1>3, <3>1, ModAdd, Zenon
  <2>3. (pushed + (Cap - CS!Newest)) + (i - 1) = (n - 1) + Cap
    BY <1>1, <1>2
  <2>4. ((n - 1) + Cap) % Cap = (n - 1) % Cap
    BY <1>1, <2>1, ModCycle
  <2>5. CS!Oldest \in Int
    BY <1>1, <1>2, <1>3, ModRange
  <2>6. CS!Oldest + i - 1 = CS!Oldest + (i - 1)
    BY <2>5
  <2>7. events[(n - 1) % Cap] = n
    BY <2>1 DEF Placed
  <2> QED BY <2>2, <2>3, <2>4, <2>6, <2>7
<1> QED BY <1>4 DEF CS!Contents, Placed

LEMMA ServerInitInv ==
  ASSUME CS!RingAssumption, CS!Init
  PROVE  RingInv
<1>1. CS!TypeOK
  <2>1. batch \in Seq(1 .. MaxEvents) /\ received \in Seq(1 .. MaxEvents)
    BY EmptySeq DEF CS!Init
  <2>2. /\ 0 \in CS!Slots /\ 0 \in 0 .. MaxEvents /\ 0 \in 0 .. Cap /\ 0 \in 0 .. 0
    BY DEF CS!RingAssumption, CS!Slots
  <2> QED BY <2>1, <2>2 DEF CS!Init, CS!TypeOK
<1>2. Placed
  <2>1. 0 % Cap = 0
    <3>1. (0 * Cap + 0) % Cap = 0
      BY ModUnique DEF CS!RingAssumption
    <3> QED BY <3>1 DEF CS!RingAssumption
  <2>2. CS!Newest = 0
    BY DEF CS!RingAssumption, CS!Init, CS!Newest
  <2> QED BY <2>1, <2>2 DEF CS!Init, Placed
<1>3. Out = <<>>
  BY DEF CS!Init, Out
<1> QED BY <1>1, <1>2, <1>3 DEF RingInv, CS!EventsInOrder, OutDrained, Out, CS!Init, Started

-----------------------------------------------------------------------------
(* The steps                                                                 *)

\* The callback: one more event, in the place of the oldest if the ring is full
LEMMA PushStep ==
  ASSUME CS!RingAssumption, RingInv, pushed < MaxEvents, CS!Push
  PROVE  RingInv'
<1>1. Cap \in Nat \ {0} /\ pushed \in Nat /\ drained \in Nat /\ drained <= pushed
  BY DEF CS!RingAssumption, RingInv, CS!TypeOK
<1>2. /\ pushed' = pushed + 1 /\ drained' = drained
      /\ UNCHANGED <<CS!thread, CS!serving>>
      /\ events' = [events EXCEPT ![events_head] = pushed + 1]
      /\ events_head' = (events_head + 1) % Cap
      /\ pushed < MaxEvents
  BY DEF CS!Push, CS!NextHead
<1>3. CS!TypeOK'
  <2>1. (events_head + 1) % Cap \in CS!Slots
    <3>1. events_head + 1 \in Int
      BY <1>1 DEF RingInv, CS!TypeOK, CS!Slots
    <3> QED BY <1>1, <3>1, ModRange DEF CS!Slots
  <2>2. events' \in [CS!Slots -> 0 .. MaxEvents]
    BY <1>1, <1>2 DEF CS!RingAssumption, RingInv, CS!TypeOK
  <2>3. events_count' \in 0 .. Cap
    BY <1>1 DEF CS!Push, RingInv, CS!TypeOK
  <2>4. pushed' \in 0 .. MaxEvents /\ drained' \in 0 .. pushed'
    BY <1>1, <1>2 DEF CS!RingAssumption
  <2> QED BY <1>2, <2>1, <2>2, <2>3, <2>4 DEF RingInv, CS!TypeOK, CS!thread, CS!serving
<1>4. Placed'
  <2>1. events_head' = pushed' % Cap
    <3>1. ((pushed % Cap) + 1) % Cap = (pushed + 1) % Cap
      <4>1. pushed \in Int /\ 1 \in Int
        BY <1>1
      <4> QED BY <1>1, <4>1, ModAdd, Zenon
    <3> QED BY <1>2, <3>1 DEF RingInv, Placed
  <2>2. events_count' = CS!Newest'
    BY <1>1, <1>2 DEF CS!Push, RingInv, Placed, CS!Newest
  <2>3. ASSUME NEW n \in 1 .. pushed', pushed' < n + Cap
        PROVE  events'[(n - 1) % Cap] = n
    <3>1. n - 1 \in Int /\ pushed \in Int
      BY <1>1, <1>2
    <3>2. (n - 1) % Cap \in CS!Slots
      BY <1>1, <3>1, ModRange DEF CS!Slots
    <3>3. events \in [CS!Slots -> 0 .. MaxEvents] /\ events_head = pushed % Cap
      BY DEF RingInv, CS!TypeOK, Placed
    <3>4. CASE n = pushed + 1
      <4>1. n - 1 = pushed
        BY <1>1, <3>4
      <4> QED BY <1>2, <3>2, <3>3, <3>4, <4>1
    <3>5. CASE n # pushed + 1
      <4>1. n \in 1 .. pushed /\ pushed < n + Cap /\ n - 1 < pushed /\ pushed < (n - 1) + Cap
        BY <1>1, <1>2, <2>3, <3>5
      <4>2. (n - 1) % Cap # pushed % Cap
        BY <1>1, <3>1, <4>1, ModApart
      <4>3. events[(n - 1) % Cap] = n
        BY <4>1 DEF RingInv, Placed
      <4> QED BY <1>2, <3>2, <3>3, <4>2, <4>3
    <3> QED BY <3>4, <3>5
  <2> QED BY <2>1, <2>2, <2>3 DEF Placed
<1>5. Out' = Out
  BY <1>2 DEF Out, CS!serving
<1>6. Started'
  BY <1>2 DEF RingInv, Started, CS!thread, CS!serving
<1> QED BY <1>2, <1>3, <1>4, <1>5, <1>6 DEF RingInv, CS!EventsInOrder, OutDrained, Out

\* The drain: what was newer than the last one goes out, and nothing else
LEMMA BuildStep ==
  ASSUME CS!RingAssumption, RingInv, CS!Build
  PROVE  RingInv'
<1>1. Cap \in Nat \ {0} /\ MaxEvents \in Nat /\ drained \in Nat
      /\ pushed \in 0 .. MaxEvents /\ drained <= pushed
  BY DEF CS!RingAssumption, RingInv, CS!TypeOK
<1>2. CS!Newest \in Nat /\ CS!Newest <= Cap /\ CS!Newest <= pushed - drained
  BY NewestBounds DEF RingInv
<1>3. batch = <<>> /\ batch' = [i \in 1 .. CS!Newest |-> pushed - CS!Newest + i]
  BY ContentsAre DEF CS!Build, RingInv, CS!TypeOK
<1>4. batch' \in Seq(1 .. MaxEvents) /\ Len(batch') = CS!Newest
      /\ \A i \in 1 .. CS!Newest : batch'[i] = pushed - CS!Newest + i
  <2>1. \A i \in 1 .. CS!Newest : pushed - CS!Newest + i \in 1 .. MaxEvents
    BY <1>1, <1>2
  <2> QED BY <1>2, <1>3, <2>1
<1>5. CS!TypeOK'
  BY <1>1, <1>4 DEF CS!Build, RingInv, CS!TypeOK, CS!thread
<1>6. Placed'
  <2>1. CS!Newest' = 0
    BY <1>1 DEF CS!Build, CS!Newest
  <2> QED BY <2>1 DEF CS!Build, RingInv, Placed
<1>7. received \in Seq(1 .. MaxEvents) /\ received' = received /\ drained' = pushed
  BY DEF CS!Build, RingInv, CS!TypeOK
<1>8. Out = received
  BY <1>3, <1>7 DEF Out
<1>9. /\ \A i \in 1 .. Len(received) : received[i] <= drained /\ received[i] \in Nat
      /\ \A i, j \in 1 .. Len(received) : i < j => received[i] < received[j]
  <2>1. \A i \in 1 .. Len(received) : received[i] \in 1 .. MaxEvents
    BY <1>7, ElementOfSeq
  <2>2. DOMAIN received = 1 .. Len(received)
    BY <1>7
  <2>3. \A i \in DOMAIN received : received[i] <= drained
    BY <1>8 DEF RingInv, OutDrained
  <2>4. \A i, j \in DOMAIN received : i < j => received[i] < received[j]
    BY <1>8 DEF RingInv, CS!EventsInOrder, Out
  <2>5. \A i \in 1 .. Len(received) : received[i] \in Nat
    BY <1>1, <2>1
  <2> QED BY <2>2, <2>3, <2>4, <2>5
<1>10. /\ Len(Out') = Len(received) + CS!Newest /\ DOMAIN Out' = 1 .. Len(received) + CS!Newest
       /\ \A i \in 1 .. Len(received) : Out'[i] = received[i]
       /\ \A i \in Len(received) + 1 .. Len(received) + CS!Newest :
            Out'[i] = pushed - CS!Newest + (i - Len(received))
  <2>1. Len(received) \in Nat
    BY <1>7
  <2>2. Out' = received \o batch'
    BY <1>7 DEF Out
  <2> QED BY <1>2, <1>4, <1>7, <2>1, <2>2
<1>11. Len(received) \in Nat
  BY <1>7
<1>12. OutDrained'
  <2>1. ASSUME NEW i \in DOMAIN Out' PROVE Out'[i] <= pushed
    <3>1. CASE i \in 1 .. Len(received)
      BY <1>1, <1>9, <1>10, <3>1
    <3>2. CASE i \in Len(received) + 1 .. Len(received) + CS!Newest
      BY <1>1, <1>2, <1>10, <1>11, <3>2
    <3> QED BY <1>2, <1>10, <1>11, <3>1, <3>2
  <2> QED BY <1>7, <2>1 DEF OutDrained
<1>13. CS!EventsInOrder'
  <2>1. ASSUME NEW i \in DOMAIN Out', NEW j \in DOMAIN Out', i < j
        PROVE  Out'[i] < Out'[j]
    <3>1. CASE j \in 1 .. Len(received)
      BY <1>9, <1>10, <1>11, <2>1, <3>1
    <3>2. CASE i \in 1 .. Len(received) /\ j \notin 1 .. Len(received)
      BY <1>1, <1>2, <1>9, <1>10, <1>11, <3>2
    <3>3. CASE i \notin 1 .. Len(received)
      BY <1>1, <1>2, <1>10, <1>11, <2>1, <3>3
    <3> QED BY <1>10, <1>11, <3>1, <3>2, <3>3
  <2> QED BY <2>1 DEF CS!EventsInOrder, Out
<1>14. Started'
  BY DEF CS!Build, RingInv, Started, CS!thread
<1> QED BY <1>5, <1>6, <1>12, <1>13, <1>14 DEF RingInv

\* The snapshot went through: its events move from the batch to the client's.
LEMMA SendStep ==
  ASSUME CS!RingAssumption, RingInv, CS!Send
  PROVE  RingInv'
<1>1. batch \in Seq(1 .. MaxEvents) /\ received \in Seq(1 .. MaxEvents)
  BY DEF RingInv, CS!TypeOK
<1>2. received' = received \o batch /\ batch' = <<>> /\ UNCHANGED <<CS!ring, CS!thread>>
      /\ worker' = "build" /\ client' = client
  BY DEF CS!Send
<1>3. received' \in Seq(1 .. MaxEvents)
  BY <1>1, <1>2
<1>4. Out' = Out
  BY <1>1, <1>2, <1>3 DEF Out
<1>5. CS!TypeOK'
  BY <1>2, <1>3 DEF RingInv, CS!TypeOK, CS!ring, CS!thread
<1>6. Placed'
  BY <1>2 DEF RingInv, Placed, CS!Newest, CS!ring
<1>7. Started'
  BY <1>2 DEF CS!Send, RingInv, Started, CS!thread
<1> QED BY <1>2, <1>4, <1>5, <1>6, <1>7 DEF RingInv, CS!EventsInOrder, OutDrained, Out, CS!ring

\* The client hung up: what it was being sent is lost.
LEMMA SendFailsStep ==
  ASSUME CS!RingAssumption, RingInv, CS!SendFails
  PROVE  RingInv'
<1>1. batch \in Seq(1 .. MaxEvents) /\ received \in Seq(1 .. MaxEvents)
  BY DEF RingInv, CS!TypeOK
<1>2. received' = received /\ batch' = <<>> /\ UNCHANGED <<CS!ring, CS!thread>>
      /\ worker' = "poll" /\ client' = "away"
  BY DEF CS!SendFails
<1>3. Out' = received
  BY <1>1, <1>2 DEF Out
<1>4. DOMAIN received \subseteq DOMAIN Out /\ \A i \in DOMAIN received : Out[i] = received[i]
  BY <1>1 DEF Out
<1>5. CS!TypeOK'
  BY <1>1, <1>2 DEF RingInv, CS!TypeOK, CS!ring, CS!thread
<1>6. Placed'
  BY <1>2 DEF RingInv, Placed, CS!Newest, CS!ring
<1>7. CS!EventsInOrder' /\ OutDrained'
  BY <1>2, <1>3, <1>4 DEF RingInv, CS!EventsInOrder, OutDrained, Out, CS!ring
<1>8. Started'
  BY <1>2 DEF CS!SendFails, RingInv, Started, CS!thread
<1> QED BY <1>5, <1>6, <1>7, <1>8 DEF RingInv

\* Everything else leaves the ring and what was sent alone.
LEMMA OtherStep ==
  ASSUME RingInv, UNCHANGED <<CS!ring, batch, received>>, CS!TypeOK', Started'
  PROVE  RingInv'
<1>1. Placed' /\ CS!EventsInOrder' /\ OutDrained'
  BY DEF RingInv, Placed, CS!Newest, CS!EventsInOrder, OutDrained, Out, CS!ring
<1> QED BY <1>1 DEF RingInv

LEMMA ServerNextInv ==
  ASSUME CS!RingAssumption, RingInv, [CS!Next]_(CS!vars)
  PROVE  RingInv'
<1>1. CASE pushed < MaxEvents /\ CS!Push
  BY <1>1, PushStep
<1>2. CASE CS!Build
  BY <1>2, BuildStep
<1>3. CASE CS!Send
  BY <1>3, SendStep
<1>4. CASE CS!SendFails
  BY <1>4, SendFailsStep
<1>5. CASE CS!Start \/ CS!StartFails \/ CS!StartWithoutThread \/ CS!StopBegin \/ CS!StopJoined
  <2>1. UNCHANGED <<CS!ring, batch, received>>
    BY <1>5 DEF CS!Start, CS!StartFails, CS!StartWithoutThread, CS!StopBegin, CS!StopJoined, CS!vars, CS!serving
  <2>2. CS!TypeOK'
    <3>1. CASE CS!Start
      <4>1. server' = "up" /\ cs_running' = TRUE /\ registered' = TRUE /\ worker' = "poll"
        BY <3>1 DEF CS!Start
      <4>2. batch = <<>>
        BY <3>1 DEF CS!Start, RingInv, CS!TypeOK, Started
      <4> QED BY <3>1, <4>1, <4>2, Zenon DEF CS!Start, RingInv, CS!TypeOK, CS!ring
    <3>2. CASE CS!StartFails
      BY <3>2 DEF RingInv, CS!TypeOK, CS!StartFails, CS!vars, CS!ring, CS!thread, CS!serving
    <3>3. CASE CS!StartWithoutThread
      <4>1. server' \in {"none", "up", "freed"} /\ registered' \in BOOLEAN
        BY <3>3, Zenon DEF CS!StartWithoutThread
      <4>2. UNCHANGED <<CS!ring, cs_running, CS!serving>>
        BY <3>3 DEF CS!StartWithoutThread
      <4> QED BY <4>1, <4>2, Zenon DEF RingInv, CS!TypeOK, CS!ring, CS!serving
    <3>4. CASE CS!StopBegin
      BY <3>4 DEF RingInv, CS!TypeOK, CS!StopBegin, CS!ring, CS!serving
    <3>5. CASE CS!StopJoined
      BY <3>5 DEF RingInv, CS!TypeOK, CS!StopJoined, CS!ring, CS!serving
    <3> QED BY <1>5, <3>1, <3>2, <3>3, <3>4, <3>5
  <2>3. Started'
    BY <1>5 DEF RingInv, Started, CS!Start, CS!StartFails, CS!StartWithoutThread, CS!StopBegin, CS!StopJoined, CS!vars, CS!serving
  <2> QED BY <2>1, <2>2, <2>3, OtherStep
<1>6. CASE CS!WorkerExit \/ CS!Accept \/ CS!DropClient
  <2>1. UNCHANGED <<CS!ring, batch, received>>
    BY <1>6 DEF CS!WorkerExit, CS!Accept, CS!DropClient
  <2>2. CS!TypeOK'
    BY <1>6, <2>1 DEF RingInv, CS!TypeOK, CS!WorkerExit, CS!Accept, CS!DropClient, CS!ring, CS!thread
  <2>3. Started'
    BY <1>6 DEF RingInv, Started, CS!WorkerExit, CS!Accept, CS!DropClient, CS!thread
  <2> QED BY <2>1, <2>2, <2>3, OtherStep
<1>7. CASE CS!ClientConnects \/ CS!ClientStalls \/ CS!ClientResumes \/ CS!ClientLeaves
  <2>1. UNCHANGED <<CS!ring, batch, received>>
    BY <1>7 DEF CS!ClientConnects, CS!ClientStalls, CS!ClientResumes, CS!ClientLeaves, CS!ClientMoves
  <2>2. CS!TypeOK'
    BY <1>7, <2>1 DEF RingInv, CS!TypeOK, CS!ClientConnects, CS!ClientStalls, CS!ClientResumes, CS!ClientLeaves,
                      CS!ClientMoves, CS!ring, CS!thread
  <2>3. Started'
    BY <1>7 DEF RingInv, Started, CS!ClientConnects, CS!ClientStalls, CS!ClientResumes, CS!ClientLeaves, CS!ClientMoves, CS!thread
  <2> QED BY <2>1, <2>2, <2>3, OtherStep
<1>8. CASE UNCHANGED CS!vars
  <2>1. UNCHANGED <<CS!ring, batch, received>>
    BY <1>8 DEF CS!vars, CS!serving
  <2>2. CS!TypeOK'
    BY <1>8 DEF RingInv, CS!TypeOK, CS!vars, CS!ring, CS!thread, CS!serving
  <2>3. Started'
    BY <1>8 DEF RingInv, Started, CS!vars, CS!thread, CS!serving
  <2> QED BY <2>1, <2>2, <2>3, OtherStep
<1>9. CS!Next => \/ CS!Start \/ CS!StartFails \/ CS!StartWithoutThread \/ CS!StopBegin \/ CS!StopJoined
                  \/ (pushed < MaxEvents /\ CS!Push) \/ UNCHANGED CS!vars \/ CS!WorkerExit
                  \/ CS!Accept \/ CS!Build \/ CS!DropClient \/ CS!Send \/ CS!SendFails
                  \/ CS!ClientConnects \/ CS!ClientStalls \/ CS!ClientResumes \/ CS!ClientLeaves
  BY DEF CS!Next, CS!OnBlockFinal, CS!WorkerStep
<1> QED BY <1>1, <1>2, <1>3, <1>4, <1>5, <1>6, <1>7, <1>8, <1>9

-----------------------------------------------------------------------------
(* The control server inside the gateway                                     *)

LEMMA InitServer == Init => CS!Init
BY DEF Init

\* The gateway drives its control server through the server's own steps.
LEMMA NextServer ==
  ASSUME [Next \/ Done]_vars
  PROVE  CS!Next \/ UNCHANGED control
<1>1. CASE Main
  <2>1. CASE Create
    BY <2>1 DEF Create, CS!Next
  <2>2. CASE DestroyServer \/ JoinWorker
    BY <2>2 DEF DestroyServer, JoinWorker, CS!Next
  <2>3. CASE \/ CreateFails \/ RunBegin \/ SpawnTx \/ SpawnTxFails \/ SpawnRx \/ SpawnRxFails
             \/ JoinOnlyTx \/ JoinTx \/ JoinRx \/ NoServer \/ Free
    BY <2>3 DEF CreateFails, RunBegin, SpawnTx, SpawnTxFails, SpawnRx, SpawnRxFails,
                JoinOnlyTx, JoinTx, JoinRx, NoServer, Free
  <2> QED BY <1>1, <2>1, <2>2, <2>3 DEF Main
<1>2. CASE Threads \/ TxFatal \/ RxFatal \/ Stop
  BY <1>2 DEF Threads, TxExit, RxExit, TxFatal, RxFatal, Stop
<1>3. CASE RxBlockFinal \/ Telemetry \/ WorkerExit \/ ClientRecovers \/ ClientTurns
  BY <1>3 DEF RxBlockFinal, Telemetry, WorkerExit, ClientRecovers, ClientTurns, CS!Next
<1>4. CASE Done \/ UNCHANGED vars
  BY <1>4 DEF Done, vars
<1> QED BY <1>1, <1>2, <1>3, <1>4 DEF Next

LEMMA SameNext == CS!Next \/ UNCHANGED control => [CS!Next]_(CS!vars)
BY DEF control, CS!vars, CS!ring, CS!thread, CS!serving

LEMMA ServerInvHolds == Spec => []RingInv
<1>1. CS!RingAssumption
  BY GatewayAssumption
<1>2. Init => RingInv
  BY <1>1, InitServer, ServerInitInv
<1>3. RingInv /\ [Next \/ Done]_vars => RingInv'
  <2> SUFFICES ASSUME RingInv, [Next \/ Done]_vars PROVE RingInv'
    OBVIOUS
  <2>1. [CS!Next]_(CS!vars)
    BY NextServer, SameNext
  <2> QED BY <1>1, <2>1, ServerNextInv
<1> QED BY <1>2, <1>3, PTL DEF Spec

\* What a client is sent next are the newest events since the last snapshot, oldest
\* first, however often the ring wrapped and overflowed meanwhile.
THEOREM RingHoldsNewest == Spec => []RingIsNewest
<1>1. RingInv => CS!RingIsNewest
  BY ContentsAre, GatewayAssumption DEF RingInv, CS!RingIsNewest
<1>2. RingInv => RingIsNewest
  BY <1>1 DEF RingIsNewest
<1> QED BY <1>2, ServerInvHolds, PTL

\* No event reaches a client twice or after a newer one.
THEOREM EventsLeaveInOrder == Spec => []EventsInOrder
<1>1. RingInv => EventsInOrder
  BY DEF RingInv, EventsInOrder
<1> QED BY <1>1, ServerInvHolds, PTL

Typed ==
  /\ running \in BOOLEAN
  /\ gw \in {"none", "up", "freed"} /\ freedUses \subseteq {"server", "gateway"}
  /\ tx \in {"none", "loop", "done"} /\ rx \in {"none", "loop", "done"}
  /\ result \in {-1, 0, 1}

LEMMA MainTyped ==
  ASSUME Typed, Main
  PROVE  Typed'
<1>1. running' \in {running, TRUE, FALSE} /\ gw' \in {gw, "up", "freed"} /\ freedUses' = freedUses
  BY DEF Main, Create, CreateFails, RunBegin, SpawnTx, SpawnTxFails, SpawnRx, SpawnRxFails,
         JoinOnlyTx, JoinTx, JoinRx, DestroyServer, NoServer, JoinWorker, Free, threads, life
<1>2. tx' \in {tx, "loop"} /\ rx' \in {rx, "loop"}
  BY DEF Main, Create, CreateFails, RunBegin, SpawnTx, SpawnTxFails, SpawnRx, SpawnRxFails,
         JoinOnlyTx, JoinTx, JoinRx, DestroyServer, NoServer, JoinWorker, Free, threads
<1>3. result' \in {result, -1, 0}
  BY DEF Main, Create, CreateFails, RunBegin, SpawnTx, SpawnTxFails, SpawnRx, SpawnRxFails,
         JoinOnlyTx, JoinTx, JoinRx, DestroyServer, NoServer, JoinWorker, Free
<1> QED BY <1>1, <1>2, <1>3, Zenon DEF Typed

LEMMA OthersTyped ==
  ASSUME Typed, (Next /\ ~Main) \/ Done \/ UNCHANGED vars
  PROVE  Typed'
<1>1. /\ running' \in {running, FALSE} /\ gw' = gw /\ result' = result
      /\ tx' \in {tx, "done"} /\ rx' \in {rx, "done"}
      /\ freedUses' \in {freedUses, freedUses \cup {"server"}, freedUses \cup {"gateway"}}
  BY DEF Next, Done, vars, Threads, TxExit, RxExit, TxFatal, RxFatal, Stop, RxBlockFinal,
         Telemetry, WorkerExit, ClientRecovers, ClientTurns, threads, life
<1> QED BY <1>1 DEF Typed

\* Every variable keeps its type, those of the control server included.
THEOREM GatewayTypeCorrect == Spec => []TypeOK
<1>1. Init => Typed
  BY DEF Init, Typed
<1>2. Typed /\ [Next \/ Done]_vars => Typed'
  BY MainTyped, OthersTyped
<1>3. RingInv /\ Typed => TypeOK
  BY DEF RingInv, Typed, TypeOK
<1> QED BY <1>1, <1>2, <1>3, ServerInvHolds, PTL DEF Spec

-----------------------------------------------------------------------------
(* The ARP table the two threads share.  Its invariants are inductive        *)
(* together: the uniqueness of a valid entry is what makes an update reach   *)
(* every copy of an address.                                                 *)

ArpInv == ArpTypeOK /\ UniqueIps /\ LatestPair

\* A slot of the used part, or the next one with the part grown by it.
ArpTarget(i) ==
  \/ i \in Used /\ count' = count
  \/ i = count /\ HasRoom /\ count' = count + 1

LEMMA ArpUsedSlots == ArpInv => Used \subseteq Slots /\ \A i \in Used : entries[i] \in Entry /\ entries[i].seen \in Int
<1> SUFFICES ASSUME ArpInv
             PROVE  Used \subseteq Slots /\ \A i \in Used : entries[i] \in Entry /\ entries[i].seen \in Int
  OBVIOUS
<1>1. count \in 0 .. MaxEntries /\ entries \in [Slots -> Entry]
  BY DEF ArpInv, ArpTypeOK
<1>2. Used \subseteq Slots
  BY <1>1, ArpAssumption DEF Used, Slots
<1>3. \A e \in Entry : e.seen \in Int
  BY DEF Entry
<1> QED
  BY <1>1, <1>2, <1>3

LEMMA ArpInitInv == ArpInit => ArpInv
<1> SUFFICES ASSUME ArpInit PROVE ArpInv
  OBVIOUS
<1> USE ArpAssumption DEF ArpInit
<1>1. ArpTypeOK
  BY DEF ArpTypeOK, Entry, EmptySlot, Pair, Slots
<1>2. Used = {}
  BY DEF Used
<1> QED
  BY <1>1, <1>2 DEF ArpInv, UniqueIps, LatestPair

\* Writing the pair under way into the address's only entry, or into a slot that
\* takes it over, keeps the table well formed, unique and up to date.
LEMMA WriteKeepsInv ==
  ASSUME ArpInv, learning # None, NEW i, ArpTarget(i), Write(i), Learned,
         \A j \in Known(learning.ip) : j = i
  PROVE  ArpInv'
<1> USE ArpAssumption
<1>1. /\ i \in Slots /\ i < count'
      /\ count \in Nat /\ count' \in 0 .. MaxEntries
      /\ Used \subseteq Slots
      /\ \A j \in Used' : j # i => j \in Used
      /\ \A j \in Slots : j < count => j < count'
  BY DEF ArpInv, ArpTypeOK, ArpTarget, Used, Slots, HasRoom
<1>2. learning \in [ip : Ips, mac : Macs, now : Int]
  BY DEF ArpInv, ArpTypeOK
<1> DEFINE new == [ip |-> learning.ip, mac |-> learning.mac, valid |-> TRUE, seen |-> learning.now]
<1>3. /\ entries \in [Slots -> Entry]
      /\ entries' = [entries EXCEPT ![i] = new]
      /\ new \in Entry
  BY <1>2 DEF ArpInv, ArpTypeOK, Write, Entry
<1>4. entries' \in [Slots -> Entry] /\ entries'[i] = new
      /\ \A j \in Slots : j # i => entries'[j] = entries[j]
  BY <1>1, <1>3, Zenon
<1>5. /\ new.valid /\ new.ip = learning.ip /\ new.mac = learning.mac /\ new.seen = learning.now
      /\ learning.ip \in Ips /\ learning.mac \in Macs /\ learning.now \in Int
  BY <1>2
<1> HIDE DEF new
<1>6. told' = [told EXCEPT ![learning.ip] = [mac |-> learning.mac, at |-> learning.now]]
      /\ told \in [Ips -> Pair]
  BY DEF Learned, ArpInv, ArpTypeOK
<1>7. told' \in [Ips -> Pair]
  <2>1. [mac |-> learning.mac, at |-> learning.now] \in Pair
    BY <1>5 DEF Pair
  <2> QED
    BY <1>5, <1>6, <2>1, Zenon
<1>8. \A ip \in Ips : told'[ip] = IF ip = learning.ip THEN [mac |-> learning.mac, at |-> learning.now]
                                  ELSE told[ip]
  BY <1>6, Zenon
<1>9. ArpTypeOK'
  <2>1. \A j \in Slots : entries'[j].valid =>
          j < count' /\ entries'[j].ip \in Ips /\ entries'[j].mac \in Macs
    <3>1. TAKE j \in Slots
    <3>2. CASE j = i
      BY <3>2, <1>1, <1>4, <1>5
    <3>3. CASE j # i
      BY <3>3, <3>1, <1>1, <1>4 DEF ArpInv, ArpTypeOK
    <3> QED
      BY <3>2, <3>3
  <2>2. /\ clock' \in Nat /\ learning' = None /\ answer' \in Macs \cup {None}
        /\ (asking' = None \/ asking' \in [ip : Ips, now : Int])
    BY DEF Learned, ArpInv, ArpTypeOK
  <2> QED
    BY <1>1, <1>4, <1>7, <2>1, <2>2, Zenon DEF ArpTypeOK, Slots, Entry, Pair
<1>10. \A j \in Used : j # i /\ entries[j].valid => entries[j].ip # learning.ip
  BY DEF Known
<1>11. UniqueIps'
  <2>1. SUFFICES ASSUME NEW j \in Used', NEW k \in Used',
                        entries'[j].valid, entries'[k].valid, entries'[j].ip = entries'[k].ip
                 PROVE  j = k
    BY DEF UniqueIps
  <2>2. j \in Slots /\ k \in Slots /\ (j # i => j \in Used) /\ (k # i => k \in Used)
    BY <1>1
  <2>3. CASE j # i /\ k # i
    BY <2>1, <2>2, <2>3, <1>4 DEF ArpInv, UniqueIps
  <2>4. CASE j # i /\ k = i
    BY <2>1, <2>2, <2>4, <1>4, <1>5, <1>10
  <2>5. CASE j = i /\ k # i
    BY <2>1, <2>2, <2>5, <1>4, <1>5, <1>10
  <2> QED
    BY <2>3, <2>4, <2>5
<1>12. LatestPair'
  <2>1. SUFFICES ASSUME NEW j \in Used', entries'[j].valid
                 PROVE  [mac |-> entries'[j].mac, at |-> entries'[j].seen] = told'[entries'[j].ip]
    BY DEF LatestPair
  <2>2. CASE j = i
    BY <2>2, <1>4, <1>5, <1>8, Zenon
  <2>3. CASE j # i
    <3>1. j \in Used /\ j \in Slots /\ entries'[j] = entries[j] /\ entries[j].valid
      BY <2>1, <2>3, <1>1, <1>4
    <3>2. entries[j].ip \in Ips /\ entries[j].ip # learning.ip
      BY <3>1, <2>3, <1>10 DEF ArpInv, ArpTypeOK
    <3>3. [mac |-> entries[j].mac, at |-> entries[j].seen] = told[entries[j].ip]
      BY <3>1 DEF ArpInv, LatestPair
    <3> QED
      BY <3>1, <3>2, <3>3, <1>8
  <2> QED
    BY <2>2, <2>3
<1> QED
  BY <1>9, <1>11, <1>12 DEF ArpInv

\* The pair an ignored frame names has no valid entry, so none falls behind.
LEMMA IgnoredKeepsInv == ArpInv /\ LearnIgnored => ArpInv'
<1> SUFFICES ASSUME ArpInv, LearnIgnored PROVE ArpInv'
  OBVIOUS
<1>1. learning \in [ip : Ips, mac : Macs, now : Int] /\ Known(learning.ip) = {}
  BY DEF ArpInv, ArpTypeOK, LearnIgnored
<1>2. /\ entries' = entries /\ count' = count /\ clock' = clock /\ asking' = asking
      /\ answer' = answer /\ learning' = None
      /\ told' = [told EXCEPT ![learning.ip] = [mac |-> learning.mac, at |-> learning.now]]
  BY DEF LearnIgnored, Learned
<1>3. /\ told \in [Ips -> Pair] /\ [mac |-> learning.mac, at |-> learning.now] \in Pair
      /\ learning.ip \in Ips
  BY <1>1 DEF ArpInv, ArpTypeOK, Pair
<1>4. told' \in [Ips -> Pair] /\ \A ip \in Ips : ip # learning.ip => told'[ip] = told[ip]
  BY <1>2, <1>3, Zenon
<1>5. ArpTypeOK'
  BY <1>2, <1>4 DEF ArpInv, ArpTypeOK
<1>6. UniqueIps'
  BY <1>2 DEF ArpInv, UniqueIps, Used
<1>7. LatestPair'
  <2>1. \A j \in Used : entries[j].valid => entries[j].ip # learning.ip /\ entries[j].ip \in Ips
    <3>1. Used \subseteq Slots
      BY ArpUsedSlots
    <3> QED
      BY <1>1, <3>1 DEF Known, ArpInv, ArpTypeOK
  <2> QED
    BY <1>2, <1>4, <2>1 DEF ArpInv, LatestPair, Used
<1> QED
  BY <1>5, <1>6, <1>7 DEF ArpInv

\* Invalidating an entry takes it out of both properties.
LEMMA ExpiredKeepsInv == ArpInv /\ LookupExpired => ArpInv'
<1> SUFFICES ASSUME ArpInv, LookupExpired PROVE ArpInv'
  OBVIOUS
<1> USE ArpAssumption
<1>1. PICK i \in Used : entries' = [entries EXCEPT ![i].valid = FALSE]
  BY DEF LookupExpired, Known, First
<1>2. /\ Used \subseteq Slots /\ Used' = Used /\ entries \in [Slots -> Entry]
      /\ count' = count /\ clock' = clock /\ learning' = learning /\ told' = told
      /\ answer' = None /\ asking' = None
  BY DEF ArpInv, ArpTypeOK, Used, Slots, LookupExpired, LookupDone
<1>3. entries[i] \in Entry /\ i \in Slots
  BY <1>2
<1>4. [entries[i] EXCEPT !.valid = FALSE] \in Entry
  BY <1>3 DEF Entry
<1>5. /\ entries' \in [Slots -> Entry]
      /\ entries'[i] = [entries[i] EXCEPT !.valid = FALSE]
      /\ \A j \in Slots : j # i => entries'[j] = entries[j]
  BY <1>1, <1>2, <1>3, <1>4, Zenon
<1>6. ~entries'[i].valid
  BY <1>3, <1>5 DEF Entry
<1>7. \A j \in Slots : entries'[j].valid => entries'[j] = entries[j] /\ entries[j].valid
  BY <1>5, <1>6
<1>8. ArpTypeOK'
  <2>1. \A j \in Slots : entries'[j].valid =>
          j < count' /\ entries'[j].ip \in Ips /\ entries'[j].mac \in Macs
    BY <1>2, <1>7 DEF ArpInv, ArpTypeOK
  <2> QED
    BY <1>2, <1>5, <2>1 DEF ArpInv, ArpTypeOK
<1>9. UniqueIps'
  BY <1>2, <1>7 DEF ArpInv, UniqueIps
<1>10. LatestPair'
  BY <1>2, <1>7 DEF ArpInv, LatestPair
<1> QED
  BY <1>8, <1>9, <1>10 DEF ArpInv

LEMMA ArpNextInv == ArpInv /\ [ArpNext]_(arpVars) => ArpInv'
<1> SUFFICES ASSUME ArpInv, [ArpNext]_(arpVars) PROVE ArpInv'
  OBVIOUS
<1> DEFINE Table == entries' = entries /\ count' = count /\ told' = told
<1>1. ASSUME NEW ip \in Ips, NEW mac \in Macs, StartLearn(ip, mac) PROVE ArpInv'
  <2>1. [ip |-> ip, mac |-> mac, now |-> clock] \in [ip : Ips, mac : Macs, now : Int]
    BY DEF ArpInv, ArpTypeOK
  <2>2. ArpTypeOK'
    BY <1>1, <2>1 DEF StartLearn, ArpInv, ArpTypeOK
  <2> QED
    BY <1>1, <2>2 DEF StartLearn, ArpInv, UniqueIps, LatestPair, Used
<1>2. CASE LearnKnown
  <2>1. PICK i \in Known(learning.ip) : First(Known(learning.ip), i) /\ Write(i)
    BY <1>2 DEF LearnKnown
  <2>2. \A j \in Known(learning.ip) : j = i
    BY <2>1 DEF ArpInv, UniqueIps, Known
  <2>3. ArpTarget(i)
    BY <1>2, <2>1 DEF LearnKnown, ArpTarget, Known
  <2> QED
    BY <1>2, <2>1, <2>2, <2>3, WriteKeepsInv DEF LearnKnown
<1>3. CASE LearnReuse
  <2>1. PICK i \in Reusable(learning.now) : Write(i)
    BY <1>3 DEF LearnReuse
  <2>2. ArpTarget(i)
    BY <1>3, <2>1 DEF LearnReuse, ArpTarget, Reusable
  <2> QED
    BY <1>3, <2>1, <2>2, WriteKeepsInv DEF LearnReuse
<1>4. CASE LearnAppend
  <2>1. ArpTarget(count)
    BY <1>4 DEF LearnAppend, ArpTarget
  <2> QED
    BY <1>4, <2>1, WriteKeepsInv DEF LearnAppend
<1>5. CASE LearnIgnored
  BY <1>5, IgnoredKeepsInv
<1>6. ASSUME NEW ip \in Ips, StartLookup(ip) PROVE ArpInv'
  <2>1. [ip |-> ip, now |-> clock] \in [ip : Ips, now : Int]
    BY DEF ArpInv, ArpTypeOK
  <2>2. ArpTypeOK'
    BY <1>6, <2>1 DEF StartLookup, ArpInv, ArpTypeOK
  <2> QED
    BY <1>6, <2>2 DEF StartLookup, ArpInv, UniqueIps, LatestPair, Used
<1>7. CASE LookupMiss
  <2>1. ArpTypeOK'
    BY <1>7 DEF LookupMiss, LookupDone, ArpInv, ArpTypeOK
  <2> QED
    BY <1>7, <2>1 DEF LookupMiss, LookupDone, ArpInv, UniqueIps, LatestPair, Used
<1>8. CASE LookupHit
  <2>1. PICK i \in Known(asking.ip) : answer' = entries[i].mac
    BY <1>8 DEF LookupHit
  <2>2. answer' \in Macs
    <3>1. i \in Slots
      BY <2>1, ArpUsedSlots DEF Known
    <3> QED
      BY <2>1, <3>1 DEF Known, ArpInv, ArpTypeOK
  <2>3. ArpTypeOK'
    BY <1>8, <2>2 DEF LookupHit, LookupDone, ArpInv, ArpTypeOK
  <2> QED
    BY <1>8, <2>3 DEF LookupHit, LookupDone, ArpInv, UniqueIps, LatestPair, Used
<1>9. CASE LookupExpired
  BY <1>9, ExpiredKeepsInv
<1>10. CASE SetClock
  <2>1. clock' \in Nat
    BY <1>10, ArpAssumption DEF SetClock
  <2>2. ArpTypeOK'
    BY <1>10, <2>1 DEF SetClock, ArpInv, ArpTypeOK
  <2> QED
    BY <1>10, <2>2 DEF SetClock, ArpInv, UniqueIps, LatestPair, Used
<1>11. CASE UNCHANGED arpVars
  <2>1. ArpTypeOK'
    BY <1>11 DEF arpVars, ArpInv, ArpTypeOK
  <2> QED
    BY <1>11, <2>1 DEF arpVars, ArpInv, UniqueIps, LatestPair, Used
<1> QED
  BY <1>1, <1>2, <1>3, <1>4, <1>5, <1>6, <1>7, <1>8, <1>9, <1>10, <1>11 DEF ArpNext

LEMMA ArpInvHolds == ArpSpec => []ArpInv
<1> QED
  BY ArpInitInv, ArpNextInv, PTL DEF ArpSpec

\* The array is never overrun and every valid entry is a real address pair.
THEOREM ArpTypeCorrect == ArpSpec => []ArpTypeOK
<1>1. ArpInv => ArpTypeOK
  BY DEF ArpInv
<1> QED
  BY <1>1, ArpInvHolds, PTL

\* No address ever has two valid entries.
THEOREM ArpUniqueIps == ArpSpec => []UniqueIps
<1>1. ArpInv => UniqueIps
  BY DEF ArpInv
<1> QED
  BY <1>1, ArpInvHolds, PTL

\* A valid entry is what the link last told.
THEOREM ArpLatestPair == ArpSpec => []LatestPair
<1>1. ArpInv => LatestPair
  BY DEF ArpInv
<1> QED
  BY <1>1, ArpInvHolds, PTL

\* The list the control server is given agrees with what a lookup would answer.
THEOREM ArpDumpIsLookup == ArpSpec => []DumpIsLookup
<1>1. ArpInv => DumpIsLookup
  <2> SUFFICES ASSUME ArpInv, NEW d \in Dump(clock)
               PROVE  /\ d.mac = told[d.ip].mac
                      /\ clock - told[d.ip].at <= TTL
                      /\ \A e \in Dump(clock) : e.ip = d.ip => e = d
    BY DEF DumpIsLookup
  <2>1. ASSUME NEW e \in Dump(clock)
        PROVE  \E i \in Used : /\ entries[i].valid /\ ~Expired(i, clock)
                               /\ e = [ip |-> entries[i].ip, mac |-> entries[i].mac]
    BY DEF Dump, Listable
  <2>2. PICK i \in Used : /\ entries[i].valid /\ ~Expired(i, clock)
                          /\ d = [ip |-> entries[i].ip, mac |-> entries[i].mac]
    BY <2>1
  <2>3. [mac |-> entries[i].mac, at |-> entries[i].seen] = told[d.ip]
    BY <2>2 DEF ArpInv, LatestPair
  <2>4. told[d.ip].mac = d.mac /\ told[d.ip].at = entries[i].seen
    BY <2>2, <2>3
  <2>5. clock - told[d.ip].at <= TTL
    <3>1. entries[i].seen \in Int /\ clock \in Int
      BY ArpUsedSlots DEF ArpInv, ArpTypeOK
    <3> QED
      BY <2>2, <2>4, <3>1, ArpAssumption DEF Expired
  <2>6. ASSUME NEW e \in Dump(clock), e.ip = d.ip PROVE e = d
    <3>1. PICK j \in Used : /\ entries[j].valid
                            /\ e = [ip |-> entries[j].ip, mac |-> entries[j].mac]
      BY <2>1
    <3>2. entries[i].ip = entries[j].ip
      BY <2>2, <2>6, <3>1
    <3>3. i = j
      BY <2>2, <3>1, <3>2 DEF ArpInv, UniqueIps
    <3> QED
      BY <2>2, <3>1, <3>3
  <2> QED
    BY <2>4, <2>5, <2>6
<1> QED
  BY <1>1, ArpInvHolds, PTL

\* Whoever is answered gets the address last told, within the TTL.
THEOREM ArpAnswersCurrent == ArpSpec => AnswersCurrent
<1> DEFINE A == asking # None /\ asking' = None /\ answer' # None =>
                  /\ answer' = told[asking.ip].mac
                  /\ asking.now - told[asking.ip].at <= TTL
<1>1. ArpInv /\ [ArpNext]_(arpVars) => [A]_(arpVars)
  <2> SUFFICES ASSUME ArpInv, ArpNext, asking # None, asking' = None, answer' # None
               PROVE  /\ answer' = told[asking.ip].mac
                      /\ asking.now - told[asking.ip].at <= TTL
    OBVIOUS
  <2>1. LookupHit
    <3>1. ~LookupMiss /\ ~LookupExpired
      BY DEF LookupMiss, LookupExpired
    <3>2. asking' # asking
      OBVIOUS
    <3>3. /\ \A ip \in Ips, mac \in Macs : ~StartLearn(ip, mac)
          /\ \A ip \in Ips : ~StartLookup(ip)
          /\ ~LearnKnown /\ ~LearnReuse /\ ~LearnAppend /\ ~LearnIgnored /\ ~SetClock
      BY <3>2 DEF StartLearn, StartLookup, LearnKnown, LearnReuse, LearnAppend, LearnIgnored,
                  Learned, SetClock
    <3> QED
      BY <3>1, <3>3 DEF ArpNext
  <2>2. PICK i \in Known(asking.ip) : ~Expired(i, asking.now) /\ answer' = entries[i].mac
    BY <2>1 DEF LookupHit
  <2>3. i \in Used /\ entries[i].valid /\ entries[i].ip = asking.ip
    BY DEF Known
  <2>4. [mac |-> entries[i].mac, at |-> entries[i].seen] = told[asking.ip]
    BY <2>3 DEF ArpInv, LatestPair
  <2>5. told[asking.ip].mac = entries[i].mac /\ told[asking.ip].at = entries[i].seen
    BY <2>4
  <2>6. entries[i].seen \in Int /\ asking.now \in Int
    BY <2>3, ArpUsedSlots DEF ArpInv, ArpTypeOK
  <2> QED
    BY <2>2, <2>5, <2>6, ArpAssumption DEF Expired
<1> QED
  BY <1>1, ArpInvHolds, PTL DEF ArpSpec, AnswersCurrent
=============================================================================
