# A TLA+ model of the FSO gateway

The gateway joins two Ethernet segments over a free-space optical link that loses
symbols in bursts. The transmit side cuts LAN packets into symbols, groups K of them
into a block, adds M repair symbols and interleaves `depth` blocks on the link. The
receive side collects the symbols of each block, decodes, and puts the packets back
together. Around the two pipelines there are a shared ARP cache, a telemetry socket,
the process that starts and stops it all, and a web bridge with a GUI.

This directory models the C gateway, the web bridge and the stateful part of the GUI in
TLA+, checks them with TLC and proves most of the safety properties with TLAPS. Source paths are relative to the repository root.

    tlc -config MCDeinterleaver.cfg MCDeinterleaver      # one run
    tlapm DeinterleaverProofs.tla                        # one proof module

## Inventory

| Part | State | Operations | What makes it correct |
|---|---|---|---|
| Deinterleaver, `src/deinterleaver.c` | fixed table of block slots (EMPTY, FILLING, READY), a bitmap and N symbols per slot, statistics | push, tick, get_ready_block, mark_result | a block has one slot, is frozen only when it can be decoded, does not change while it is decoded, and ends in exactly one way |
| Interleaver, `src/interleaver.c` | a matrix of `depth` rows by N columns, row keys, the window being drained | push, tick, pop | a row is one block; what is popped is what was pushed, once; neighbours on the wire belong to different blocks; nothing stays for ever |
| Fragmenter and reassembler, `src/packet_fragmenter.c`, `src/packet_reassembler.c` | none | two functions | a round trip returns the packet, in any order of its fragments |
| Block builder, `src/block_builder.c` | K symbols, id, first activity | add, timeout, pad, reset | see the transmit pipeline |
| Transmit pipeline, `src/tx_pipeline.c` | builder, interleaver, counters | `tx_pipeline_run_once()` | every fragment goes into one block in order, a packet is not split, a block leaves whole and in time |
| Receive pipeline, `src/rx_pipeline.c` | deinterleaver, buffers | `rx_pipeline_run_once()` | the decoder sees one block's own symbols; what leaves is what the far LAN sent, once |
| FEC wrapper and Wirehair, `src/fec_wrapper.c`, `third_party/wirehair` | codec handles | encode, decode | any K source symbols, or most sets of more than K, give the block back |
| ARP cache, `src/arp_cache.c` | table of address pairs with a time | learn, lookup, dump, from three threads | an answer is the pair last told and not older than the TTL |
| Control server, `src/control_server.c` | ring of block events, one client, a worker thread | start, stop, callbacks, the worker's loop | a client is sent the newest events in order, once; neither the worker nor its client touches what is freed |
| Gateway and runner, `src/gateway.c`, `tools/fso_gw_runner.c` | the running flag, two threads, an error flag each | create, run, stop, destroy | whatever fails, the rest stops, is joined and then freed, and the result says so |
| Statistics, configuration, logging, packet I/O | counters, options, handles | | nothing they hold is read back to decide anything |
| Legacy gateway, `src/main.c` | | | an earlier single-threaded loop over the same parts |
| Daemon supervisor, `webgui/server/daemon.py`, with `useDaemon.ts` | the process, a state, a lock, a watcher task | start, stop, restart, the watcher; pages poll | the process the bridge believes in is the one that runs, and the pages say so |
| Telemetry source, `gateway_source.py`, with `useTelemetry.ts`, `useLinkHistory.ts`, `useAlerts.ts` | the last frame, a history of rates, rings of alerts and block events | connect, ingest, snapshot, a simulation of the bridge in place of a gateway that is away; pages subscribe, fall back to a simulation of their own, reconnect | no rate spans two sessions of the gateway; a page has one feed and says which; alerts and ends of blocks are listed once, the newest |
| Experiment recorder, `run_store.py`, `main.py`, with `useRuns.ts` | rows and samples in SQLite, the active id in memory | create, end, delete, list, read, the recorder's task | the row that is open is the one recorded into; the page shows the run selected |
| Log source, `log_source.py`, with `useLogs.ts` | position in a file, subscribers' queues, two buffers of the page | tail, simulate, rotate; pause, resume, clear, filter | lines in order, once; the newest are kept |
| Configuration, `config_store.py`, with `useConfig.ts` and the form | the file, the draft, what was persisted | read, save, edit, preset, revert | what the label says of the draft is true; no edit is lost |
| Channel emulation, `channel.py`, with `useChannel.ts` | the qdisc of an interface | read, apply, clear over `tc`, for any page or client | an interface has the loss model last applied to it; the page shows what the kernel has |
| Experiment reports, `experiments.py`, with `useExperiments.ts` | files | list, read | the report drawn is the one selected |
| Other pages of the GUI, `webgui/src` | | | print the fields of a snapshot |

How they interact. The transmit thread owns builder and interleaver, the receive thread
owns the deinterleaver; neither takes a lock. They share the ARP cache (the receiver
learns, the transmitter looks up, the telemetry worker dumps it) under its mutex. The
collector reports the end of every block through callbacks, on the receive thread, into
the control server's ring. The main thread creates, starts, joins and frees everything; a
signal handler or a timer thread clears the running flag.

The bridge is one asyncio event loop. It launches the gateway, reads its telemetry
socket and answers pages over HTTP and two WebSockets; blocking calls (processes, SQLite,
`tc`, files) run in threads and are where its handlers interleave. A page is single
threaded too; its timers and requests are what interleaves there, and nothing orders
the answers to two requests.

What is hard. Time: five different time comparisons decide when a block or a window
moves on, and every return path of a pipeline call skips some of them. Reuse: slots, rows and
symbol buffers are recycled without being cleared. Order and loss on the link: any
symbol may be lost, late or corrupted, and a late one may open a block again that was
already decoded. Full tables: eviction in the middle of a push. Threads: the ARP cache reads the
clock before it takes the lock; the telemetry worker must not outlive what it reads.
Answers in the browser: an answer for what was selected before comes after the answer for what is
selected now, an event handler runs with what was last drawn, and the same list is cut, cleared and
refilled from a ring that is cut elsewhere. Restarts: gateway, bridge and page each come back
alone, with counters from zero or with nothing remembered.
`PROJECT.json` lists these hazards at their lines, with the properties that cover each.

## Modules

| Module | Models | Correspondence |
|---|---|---|
| `Deinterleaver` | `deinterleaver.c` | One action per return path of push (`PushStore`, `PushOpen`, the rejections), `Tick(override)`, `MarkResult`. `slots` is the slot array without its symbols, `store` the symbols, `stats` and `finals` the counters and final reports. The clock is a counter. |
| `BlockLifecycle` | the promise of the header: EMPTY, FILLING, READY, EMPTY | The abstract specification; `Deinterleaver` refines it (`ImplementsLifecycle`). |
| `Interleaver` | `interleaver.c` | `Push`, `Flush` (tick with its timer), `Pop`; `owed` and `out` are history. |
| `Fragmentation` | fragmenter and reassembler | Pure operators on sequences of bytes. |
| `FragmentationCheck` | the two against each other | Two packets, symbols handed over in any order. |
| `Coding` | `symbol_t`, `fec_encode_block`, padding | Shared by the two pipelines. A repair symbol is its number. |
| `TxPipeline` | `tx_pipeline_run_once()` and `block_builder.c` | `pc` walks through one call; INSTANCEs `Interleaver` and `Fragmentation`. |
| `RxPipeline` | `rx_pipeline_run_once()`, the decoder's outcomes, the link | INSTANCEs `Deinterleaver` and `Fragmentation`; a received symbol is any symbol of any block sent, a corrupted one, or foreign. |
| `ArpCache` | `arp_cache.c` and its three callers | Learn and lookup are split where they read the clock before locking. |
| `ControlServer` | `control_server.c` | The ring, the worker and its client. Event n is the n-th callback. |
| `Gateway` | `gateway.c`, `fso_gw_runner.c` | `main` walks through create, run, join, destroy; INSTANCEs `ControlServer`. A pipeline is a call that returns or fails. `gw` and `server` say what is freed; `OnBlockFinal` and `Stop` stay possible afterwards, as in the code, and `freedUses` records it. |
| `InterleaverPage` | what `interleaver/page.tsx` and the burst charts say of the interleaver | EXTENDS `Interleaver`; the histogram, its labels and bars, the drawing of the matrix as operators. |
| `DaemonSupervisor` | `daemon.py`, the daemon's API, `useDaemon.ts` | A request is a call with a program counter that stops at each await; `lock` is the call that holds the lock over one; processes are the environment; a view polls and shows whatever answer came last. |
| `Sessions` | `run_store.py`, the runs API and recorder of `main.py`, `useRuns.ts`, the runs tab | One step per SQLite statement; `gets` and `lists` are the answers on their way. |
| `LiveFeed` | `gateway_source.py`'s connection, `ws_live()`, `useTelemetry.ts`, `useLinkHistory.ts` | `stage` is where `_run()` is; a frame is the session it counts in and the state of its link. |
| `BlockEvents` | ends of blocks from `control_server.c` through `gateway_source.py` to the FEC page | `told` and `missed` are history. |
| `Alerts` | `_detect_alerts()`, `_push_alert()`, `_maybe_emit_alert()`, `useAlerts.ts`, the alerts page and the bell | `rings` are the gateway's alerts and those the simulation makes up, `origin` the one the next snapshot brings; each hook has a list of its own, fed by both; `storage` is localStorage. |
| `LogConsole` | `log_source.py`, `ws_logs()`, `useLogs.ts`, `LogConsole.tsx` | Lines are numbers in the order they are made; files have an inode and lines. |
| `ConfigEditor` | `config_store.py`, `useConfig.ts`, the configuration form | A field of each kind: a slider, a text, a toggle. |
| `Channel` | `channel.py`, `useChannel.ts`, the channel page | An apply is two steps, delete and add. The page's `busy` belongs to one mount: `Revisit` forgets it while the bridge goes on, and `Elsewhere` is a POST of another tab or client. |
| `Experiments` | `experiments.py`, `useExperiments.ts`, the reports tab | Fetches by number, answered in any order. |
| `Pages` | the pages beside the live feed | Names `BlockEvents`, `Alerts`, `LogConsole`, `ConfigEditor`, `Channel`, `Experiments` and what each promises; `MCPages` runs them, `PagesProofs` proves of them. |
| `MCPages` | `LiveFeed` and the pages of `Pages` | A behaviour is about one page, chosen in the initial state; the others stay in one state. The pages share nothing, so this checks each of them and nothing else. |
| `MCReceiver` | `RxPipeline` and `FragmentationCheck` | A behaviour is about one of the two. |
| `DeinterleaverProofs`, `InterleaverProofs`, `TxPipelineProofs`, `RxPipelineProofs` | Theorems on the collector and its refinement, the interleaver, the two pipelines. |
| `GatewayProofs`, `BridgeProofs`, `PagesProofs` | Theorems on the ARP cache, the control server and the gateway; on the supervisor, the recorder and the live feed; on the other pages. |
| `DataLemmas` | Lemmas on remainders, intervals and finite sets that the proofs share. |
| other `MC...` | | Values for TLC. |

Data is abstracted to what the properties tell apart. A packet is a short sequence of
distinct numbers. The Wirehair algebra is replaced by its contract as the wrapper relies
on it: all K source symbols decode; more than K symbols decode or do not, either way;
fewer never do. CRC arithmetic is replaced by "a corrupted symbol fails".

Names ending in a suffix such as `Oldest_AtHead`, each preceded by a comment "Mutant", are
plausible mistakes. Every property of every passing run is
violated when such a definition replaces the real one; `PROJECT.json` lists the pairs.

## Runs

Passing runs:

| Run | Instance | What it shows |
|---|---|---|
| `deint` | 2 slots, 3 ids, one of them 0, N = 3, K = 2, up to 3 blocks opened, clock 0..2, age limit 2 or disabled by the override | `UniqueBlocks`, `ReadyDecodable`, `BlockAccounting`, `FreezeRule`, and the refinement of `BlockLifecycle`. Three blocks for two slots make both kinds of eviction happen; the id 0 tells unset from set. |
| `interleaver` | 3 rows of 2, 4 keys, one of them 0, junk in fresh memory | `WindowIsSound`, `BurstsAreRecoverable`, `CompleteGoesOut`. Bursts of every length and place in what was read of up to two windows. |
| `tx` | K = 2, M = 1, depth 2, packets of 1, 2 and 3 fragments, 3 packets, clock 0..3 | `NothingLostInBlocks`, `PacketNotSplit`, `GoesOutWhole`, `NothingStuck`. Three packets give every way a block ends: full, closed for the next packet, idle timeout, busy timeout. |
| `rx_safety` | K = 3, M = 1, two blocks for one slot, the second padded; symbols of 2 bytes, packets up to 7, at most 3 fragments, two packets mixed | `WholeBlockExact`, `DeliveredOnce`, `DecoderInput`, `RoundTrip`. One slot forces eviction and reuse; K = 3 leaves room for two packets and padding in a block. Lengths on both sides of every multiple of the symbol size; 7 is refused. |
| `rx_live` | K = 2, M = 1, one slot, one foreign frame, age limit 1 | `BlocksEnd`. |
| `arp` | 3 addresses, 2 slots, 2 MACs, TTL 1, clock jumping in 0..2 | `AnswersCurrent`. |
| `gateway` | a ring of 3, 7 events | `RingIsNewest`, `EventsInOrder`, `FreedLast`, `ShutdownEnds`. Seven events overflow the ring and wrap it twice. |
| `daemon` | one page, 3 buttons pressed, one configuration stored in between, one crash, failed launch or lost answer | `SupervisedIfSerial`, `RestartApplies`, `PagesConverge`. Three calls are what it takes for a start to slip in between a restart's stop and start, or a watcher to wait behind two others. |
| `sessions` | 3 runs, 2 requests, 1 sample, 1 click, 1 restart of the bridge; any 3 of these, where a second request counts for two | `ActiveIsOpen`, `PageFollows`. |
| `pages` | live feed: 2 sessions, 2 crashes or losses, 2 visits, 2 rates, 2 fades; form: K in 2..4 with 0, 3 and 9 typed, 2 edits, 2 saves, 1 loss; channel: 2 interfaces, 2 POSTs, 1 renaming, reopening of the page or POST of another client, 1 fault; console: buffers of 2, a queue of 2, 3 lines, 2 moves of the file; alerts: 2 hooks, rings of 2, a list of 2, 2 frames or made-up alerts, 2 presses; reports: 2 files, 3 fetches; ends of blocks: rings of 4 and 3, 2 rows, 6 ends, 2 restarts | `RatesWithinSession`, `OneFeed`, `FadesTellTheLink`, `ShowsTheDaemon`; `LabelIsTrue`, `DraftIsMeant`; `LastPostHolds`, `ShowsTheChannel`; `NewestAreShown`; `SnapshotIsKept`, `AcksSurvive`; `DetailIsSelected`; `EndsAreTold`. Every ring and buffer is smaller than what goes through it. Two made-up alerts fill the list, so that they push out what the gateway warned of. |

Bounds. Every counter that would grow has a bound in a guard: `MaxNow`, `MaxOpened`,
`MaxDrops`, `MaxCopies`, `MaxNoise`, `MaxPackets`, `MaxClock`, `MaxEvents`, `NumCalls`, and the `Max...`
constants of the bridge's modules. Slots, rows, ids, interfaces and files are small because the code treats
them alike; the proofs, where they exist, hold for every size. A
run with `CHECK_DEADLOCK FALSE` stops when a bound is reached, or a sequence is as long as it may be.
Symmetry is used for block ids other than 0, and for addresses and MACs, in runs without liveness.

Several properties hold under a condition the module records in a history variable:
`overlapped` and `crossed` (two requests were under way together), `raced` (an edit with one under way),
`disturbed` (a fetch failed or overtook another), `pressers` (the hooks used), `apart` (a POST of the
channel came beside one under way that its sender did not make), `sources` (whose alerts a
hook's list is made of). The condition
is what the code relies on without enforcing it; what happens beyond it is under "Disagreements".
`freedUses` is no condition: it records which freed object was used, and `FreedLast` says by what.

Violated runs, each a disagreement between a statement in the code and the code:

| Run | Statement | What happens |
|---|---|---|
| `rx_only_sent` | `src/rx_pipeline.c:406` the metadata in the block "is authoritative" | A source symbol that was recovered, not received, takes the metadata an earlier block left in that slot: a packet nobody sent goes to the LAN. |
| `daemon_single` | `webgui/server/daemon.py:4` "manage a single fso_gw_runner subprocess" | `stop()` gives the lock up while it waits and `start()` refuses only "starting" and "running": a start pressed meanwhile launches a second gateway beside the first, and the stop then forgets it. |

Fairness. The pipeline threads call `run_once()` in an endless loop, so work under way is
weakly fair. Time passing is strongly fair, since it cannot be taken inside a call.
`TxPipeline!FairSpec` and `RxPipeline!FairSpec` also assume that now and then a receive
comes back empty; `TxPipeline!LoopSpec` does not, and a partial block may then wait for ever
(below). `RxPipeline!FairSpec` lets time reach its bound. `Interleaver!FairSpec` is the
fairness its caller provides: a tick on every call and a drain of every ready window.
`Gateway!FairSpec` schedules the threads and assumes that a telemetry client which stopped
reading reads again or hangs up, and that a worker whose server was stopped leaves its
loop; nothing makes a pipeline fail, a signal come or a client connect.
In `DaemonSupervisor`, `Sessions`, `LiveFeed` and `Channel` the event loop runs what can run, threads and
`tc` return, timers fire and an answer that is not lost arrives; no button is
pressed, no process ends and nothing is restarted by fairness. `ShowsTheDaemon` needs, in
addition, that the gateway sends its frames.

## Proofs

`DeinterleaverProofs`, for any number of slots, symbols and ids and any timing parameters:
`TypeCorrect`, `BlocksAreUnique`, `FrozenBlocksAreDecodable`, `DecoderSeesOnlyReceived`,
`BooksBalance`, `FreezeRuleHolds`. They rest on `ParamsAssumption` of `Deinterleaver`.

The inductive invariant is `IInv`, the conjunction of `TypeOK`, `UniqueBlocks`,
`ReadyDecodable` and `DecoderSeesMask`. None of the last three is inductive alone: a push finds
its slot by id, so that the bitmap it sets is the right block's needs `UniqueBlocks`; that
freezing happens at K symbols needs the count to be the size of the bitmap; and that the
decoder's view is the bitmap needs a slot to be emptied when it changes hands. The lemma `OneSlot`
says that a step which changes one slot keeps `IInv` if the slot's new content is good by
itself and its id is not taken; every action is brought to that form. `StoreInStep` does so
for the tail that both kinds of push share. A tick changes many slots at once but never an
id, so it is handled slot by slot. `BooksBalance` adds the count of blocks opened against
those held and reported, and `FreezeRuleHolds` follows from each action under `IInv`.

On the same assumption, `TableImplementsLifecycle`, every behaviour of the slot
table is one of `BlockLifecycle` under the mapping `PhaseOf`, `GotOf`. `Mapped` says what the
mapping amounts to under `IInv`: a block has the phase and the symbols of the one slot that
holds it. `SlotMoves` brings every action to one form (one slot may take a symbol, all others
are emptied, left or settled); `BlockMoves` and `OneGains` read off what that does to a block. The bound on the
blocks in hand is an injection from blocks to slots.

`InterleaverProofs`, for any depth, block length, keys, symbols and flush timer, from
`InterleaverAssumption`: `WindowsAreSound`, that `WindowIsSound` always holds. That what is
owed is still unread says nothing about a window being filled, so the invariant adds, for
that time, that rows are taken in order and that what is owed is what the bitmaps say is
there (`Filling`); and for a window being read that two equal symbols in different rows are
padding (`Reading`), without which a pop could settle a debt that another cell holds too.
A flush pads rows that no block has, all under key 0, which is why padding is excepted.

`BurstsSurvive` adds that `BurstsAreRecoverable` always holds, if the page's limit of cells is a
number. `BurstInv` says that no two rows have one key other than 0, that what was read of a
window is, column by column, one symbol of each row in turn, and hence that the symbols of one block
lie a multiple of `Depth` apart. So m + 1 symbols of a block span more than m times `Depth`
(`OnePerRound`, by an injection from the symbols hit to the columns they are in). What the page
says is about numbers: the label of a bar is true from its bounds (`BarHolds`), and the
drawing covers each cell once with few enough boxes, cell by cell or band by band (`CellsCover`,
`BandsCover`, `CellsCount`, `BandsCount`).

`GatewayProofs`, on the ARP cache, for any table size, address set and TTL: `ArpTypeCorrect`,
`ArpUniqueIps`, `ArpLatestPair`, `ArpDumpIsLookup`, `ArpAnswersCurrent`, from
`ArpAssumption`. Two valid entries of one address are excluded because learn looks for
the address before it looks for a free slot; that the entry is the pair last told then
follows, since a lookup finds the only one.

`GatewayProofs`, on the control server and the teardown, for any ring capacity and number of events:
`GatewayTypeCorrect`, `RingHoldsNewest`, `EventsLeaveInOrder`, `NoThreadOutlivesWhatItUses`,
`SuccessIsHonest`, from `GatewayAssumption`. The invariant of the ring says where each event is: event n
was written to slot (n - 1) % Cap and stays until event n + Cap, the head is
pushed % Cap, and the count is the number of events since the last drain, cut at Cap. `RingIsNewest`
by itself is not inductive, since it says nothing of slots outside the count that later
pushes reach. That a drain then starts at the right slot is arithmetic of %, for which
`DataLemmas` proves a few facts (`ModUnique`, `ModAdd`, `ModCycle`, `ModApart`) from the
division with remainder. `EventsInOrder` needs in addition that what left the ring is no newer than
the last drain. The module then shows that every step of the gateway is a step of the
control server or leaves it alone (`NextServer`), so that the ring's invariant carries
over, and proves the teardown from what each place of the main thread says of the threads
(`ThreadsAt`, `WorkerAt`, `FreedAt`, `ResultAt`). `NoThreadOutlivesWhatItUses` does not say that nothing is used
after it is freed, which is false: it says that neither a pipeline thread nor the worker is left on
what `gateway_destroy()` frees, and that what is called on freed memory all the same is a callback of a server without a worker,
or the signal handler after main's end (both under "Disagreements").

`BridgeProofs`, on the live feed, for any number of sessions, crashes, visits and samples kept:
`RatesStayWithinSession` and `PageHasOneFeed`, from `FeedAssumption`. For the rates the
invariant `SourceInv` adds that the last frame is of the session at the other end of the
socket, and that there is none, and no history, while the bridge waits for a socket: without
it a first frame could be paired with one of the session before. `PageInv` adds to
`OneFeed` what is shown while the page simulates, and that a snapshot called the gateway's has
a session; that rests on `SourceInv`.

`BridgeProofs`, on the fades of the live feed, from the same assumption, which asks for room for one
fade at least: `FadesAreTold`. The list and the history of the link are cut at the same length,
so the invariant `FadesInv` speaks of the list alone: only its last fade can be open, it is open
exactly if the link was once up and was last told to be down, and it then leads to the state
told last. The history is the list that this determines.

On the supervisor, for any number of calls, faults and stored configurations, from
`DaemonAssumption`: `DaemonLocked`, `RestartsApply`, `DaemonSupervised`. `LockInv` says that the
lock is held from a call's load to its probe, and that the state is "starting" during a probe
only; it holds whatever overlaps. `RestartInv` adds, for the time after the
stop of a restart, that what is launched or running is as new as the restart asked for, by
whichever call it was launched. `SerialInv` is conditional on no overlap, as the property is:
one call at most is under way, the process alive is the one in `proc`, and the watcher set is what
the state calls for. The stop that awaits is the delicate place: the process may end, and its
watcher run, before or after it resumes.

On the recorder, from `SessionsAssumption`: `RunIsRecorded`. In the middle of a request the
table and the memory of the bridge disagree; `RunsInv` says how, place by place, and that they agree
when no request is under way.

`TxPipelineProofs`, for any K, M, depth, packets, timeouts and id space, from `TxAssumption` and
`CodingAssumption`. `TxAssumption` asks that twice the depth fits in the id space: the ids are 32
bits wide and the depth is an int. `WindowKept` says that every step of the pipeline is a step of the
interleaver, or leaves it alone, so that `InterleaverProofs` carries over
(`PipelineWindowsAreSound`). `Inv` adds what a block is at each place of the
call (`ControlInv`, `PendingInv`), that the rows taken are consecutive blocks and whole but for
the one being pushed (`WindowInv`), that every symbol of every block is on the wire, owed or
pending (`OutInv`), and that the last `Depth` symbols on the wire are one of each row
(`RecentInv`). From these follow `EncodedGoesOut`. That neighbours differ at the seam of two
windows is where the assumption on ids is used. `FragmentsReachBlocks` adds `DataInv`: what
the blocks, the builder and the packet in hand hold is, in order, what was accepted.
`PacketsStayWhole` adds `SplitInv`: the fragments of the packet in hand that are not yet added
continue those at the end of the builder, and the block has room for the rest.

`RxPipelineProofs`, for any block, table, timing and link, from `RxAssumption` and `CodingAssumption`:
`DecoderGetsWhatWasSent`. Every step of the pipeline is a step of the collector or leaves it
alone, so that `DeinterleaverProofs` carries over; `SentInv` adds that what a slot
in use holds under its bitmap is what was sent of that block, and that no slot collects block 0.
`DecodedAtMostOnce` has a hypothesis, `NoDuplication`: the link delivers each symbol once at most, and
M < K. It is a counting argument: each decoding of a block used up K different symbols
of it, and so will those in the slot that collects it now (`BudgetInv`); a block has fewer than 2 K.
`PacketsComeBack`, for packets and symbols of any size, from `FragAssumption`, which asks
that what the fragmenter has room to cut the reassembler has room to put together (9000 bytes
and 9200): the division that counts the fragments is pinned down by two inequalities
(`CeilDivIs`), they say what each fragment carries (`FragmentCarries`), and then every byte of the
buffer is written by the fragment it is in, whichever order they come in (`LayoutIs`).
`WholeBlocksComeOut` puts the two together. `SentAssumption` asks that a block carries whole packets
(`PacketsStayWhole` proves it of the sender, for packets of at most K fragments), no more than it has
symbols for, of at least a byte and none longer than the buffer. Then each packet
has its place among the source symbols (`PlacesAre`). By induction on the symbols, the loop's group is the
first fragments of the packet it is in, and what it has put together are those before it (`Going`);
after the last packet only padding follows, which it skips (`Over`). Wirehair's output enters as what
`Coding` says of it: the bytes of the source symbols.

`PagesProofs`, on the pages of the GUI and what they talk to, each for any number of
requests, presses, files and lines, from `PagesAssumption`:
`ReloadKeepsAcknowledged` (`AcksInv`: the hook in use has what is stored); `ReportIsSelected`
(`DetailInv`: undisturbed, one fetch at most is under way, and it is for the file selected);
`NoEditIsLost` and `LabelTellsTheTruth` (`FormInv`: without a race, a request under way carries the
draft, up to blanks, and an answer under way what is on disk); `LastPostIsKept`
(`ChannelInv`: as long as no POST came beside one its sender did not make, and nothing failed, one POST
at most is under way, made by the page that is busy or by another client; between its two steps the root is free; and the
interfaces of the answered ones have what was posted last); `LinesComeInOrder` and `LastLinesAreShown`
(`ConsoleInv`: console, pause buffer and queue follow each other in order, what is still to
be read of the open file is newer than all of them, and the console with what a pause holds back ends like what
was delivered); `EndsComeInOrder` (`EventsInv`: what the bridge took, what is on
the way and what is in the gateway's ring are each in order, one after the other, and together they are the
ends that were not lost; the feed is what was taken, cut off, and cutting off twice is
cutting off once: `FirstOfFirst`, `FirstOfBack`); `AlertsAreKept`. For the last, `AlertsInv` says that each list and both rings are
newest first and no newer than the last alert, that the ids of made-up alerts and of the gateway's differ, and, ring by
ring, that what has the id of an alert in the list is in the list or pushed out of it (`Told`). A list made of
one source's alerts alone is, in addition, what that ring was: the ring is some alerts newer than all in the list,
followed by the first of those (`Matching`). That a snapshot
keeps this is shown of the merge as the code does it: the stable sort reads each alert
once (`PlacesAre`, `SortIs`, by counting those before it), no alert is read twice (`KeptOnce`),
and what the cut takes off is no newer than what stays (`MergeIs`). Two alerts may share an id,
but they are of one frame, so that one snapshot brings both. For the last two theorems `PagesAssumption` asks that
the list holds as much as the ring (1000 and 200 alerts) and the feed as much as is drawn.

Several theorems state properties that no run lists by themselves, because a run checks a
conjunction or something stronger: the type invariants, `DecoderSeesOnlyReceived`,
`ArpUniqueIps`, `ArpLatestPair`, `ArpDumpIsLookup`, `SuccessIsHonest`, `DaemonLocked`,
`LinesComeInOrder`.

Only model-checked:

- Liveness under fairness, out of the prover's reach as ENABLED is: `CompleteGoesOut`, `NothingStuck`,
  `BlocksEnd`, `ShutdownEnds`, `PagesConverge`, `PageFollows`, `ShowsTheDaemon`, `ShowsTheChannel`.

Every invariant and action property of a run that is expected to pass is proved.

## Disagreements without a run

Found while reading or modelling; no run checks them. In the gateway:

- `include/deinterleaver.h:103` says a push with all slots READY is refused because the
  caller is not draining. `alloc_slot()` evicts the oldest READY slot (`src/deinterleaver.c:307`), as line
  101 says, so the case never arises.
- `include/packet_reassembler.h:11` says all symbols are verified to belong to the same
  packet. `src/packet_reassembler.c:85` leaves the loop at the first symbol that is not the last one.
- `README.md:81` says late symbols are dropped after closure. A slot is emptied by
  `mark_result()`, so a late symbol of a decoded block opens a new one (`src/deinterleaver.c:711`).
  `DeliveredOnce` shows that with K > M on a link that does not duplicate this never delivers twice.
- `src/tx_pipeline.c:443` takes the low 32 bits of the block number, which is 0 once every 2^32
  blocks; `src/rx_pipeline.c:275` takes a symbol of block 0 without payload for padding. The runs stay
  below the wrap.
- `include/gateway.h:74` calls `gateway_stop()` a signal both threads follow;
  `gateway_run()` sets the running flag again (`src/gateway.c:260`), so a stop between
  `gateway_create()` and that line is lost. The model has it; `ShutdownEnds` starts later.
- `src/control_server.c:524`: when the worker cannot be created the server is freed with its
  callbacks registered (lines 518 to 534), and the receive thread calls into it at the next end of a block: what line 545 says
  of stopping, "Unregister deinterleaver callbacks before we start tearing down", is not done here. The model does the same
  (`StartWithoutThread`, then `OnBlockFinal`, which the code does not guard either), and `FreedLast` names it as one of
  two exceptions: it says that this is the only way the server is used once it is freed.
- `src/control_server.c:559`: a client that neither reads nor leaves blocks `send()`, and the join
  behind it. `Gateway!FairSpec` assumes it away.
- `tools/fso_gw_runner.c:73` uses `g_gw`, which is not cleared after `gateway_destroy()`: a signal before the
  process is gone stops a gateway that was freed. It is the other exception of `FreedLast`; `Stop` stays enabled at exit.
- `src/gateway.c:134` sets the span that classifies bursts, but nothing in the gateway calls
  `stats_record_symbol()`: no burst is ever measured.
- `src/main.c` runs an FEC self test whose symbols have no packet id, which the decoder
  refuses; the legacy program ends at start.
- `src/tx_pipeline.c:381` says that without the busy check a partial block "can be stuck
  indefinitely". Frames that proxy ARP answers, that carry our own MAC, or that fail to be
  received return before both checks (line 319): a stream of them still holds a partial block.
- `src/tx_pipeline.c:347` says a new block has room for the entire packet. The limit is raised to
  K (line 204) but not limited to it; a packet of more than K fragments is split over blocks.
- `src/arp_cache.c:74` "Reuse an expired slot before appending": a lookup that meets an expired entry
  clears `valid` (line 131), and the reuse loop asks for `valid`: such a slot is lost for good.

In the bridge and the GUI:

- `webgui/server/daemon.py:248`: a watcher that waited for the lock judges the process that is there
  when it gets it, which may be a newer one.
- `webgui/server/run_store.py:191` "Auto-ends any currently active run": of two creates under way
  together the second to insert ends the first, but the active id is the one that was set
  last (`main.py:605`), so that samples go to a run that has ended.
- `webgui/src/lib/useRuns.ts:178`: the interval asks with the detail its closure captured. When
  a live run is selected after one that had ended, it may never be asked for again.
- `webgui/src/app/analytics/page.tsx:131` compares with the selection at the time of the click: a run
  chosen while the deletion is under way is deselected.
- `webgui/server/gateway_source.py:152` "Drain any block lifecycle events the C side handed us"
  is not reached by the first frame of a connection nor by one that comes within 10 ms (line
  121); the gateway has dropped them. `EndsAreTold` says these are the only ones lost.
- Alerts and block events of an earlier session stay in their rings after a disconnect, which
  drops only the history of rates.
- `webgui/server/gateway_source.py:187` makes an alert's id of the length of the ring; once it is
  full, two alerts of a module in one frame share one, and one acknowledgement covers both.
- `webgui/src/lib/useAlerts.ts:73` cuts one list for both sources. While the gateway is away the bridge's
  simulation makes up alerts (`main.py:248`, shown by `main.py:457`), which come on the same stream; the
  gateway's ring survives (`gateway_source.py:83` drops the history of rates only). After 1000 newer made-up alerts the
  gateway's are cut off, and they stay cut off when it is back, though its ring still has them: the page,
  of which line 56 says "we keep a session-level cumulative list", says "all clear" of them unacknowledged. `SnapshotIsKept` excepts this: of a
  list to which both sources have contributed it says that an alert is missing only if the list is full of
  others as new. Without the exception the `pages` run violates it.
- "Clear History" of the alerts page is undone by the next snapshot, which brings the ring again.
- `webgui/src/app/alerts/page.tsx:397` "No active alerts — all clear." is also said when they are only
  filtered out. Two tabs, or the page and the top bar, overwrite each other's acknowledgements.
- `webgui/src/components/logs/LogConsole.tsx:130` "Waiting for events…" is also said when all lines are filtered
  out. Lines of a hidden level use up the buffer.
- The log stream tells its mode once, when a page connects (`main.py:535`); a switch
  between tail and simulation later is not told.
- A log file truncated and refilled beyond the last position between two polls is read on from there.
- `webgui/src/lib/useChannel.ts:45` and `webgui/src/lib/useExperiments.ts:96` let in an answer for an interface or a file
  that was chosen before. The first is put right by the next refresh, the second is not.
- `webgui/src/app/analytics/page.tsx:274`: the timer that selects the newest report may fire after a click.
- `webgui/server/channel.py:121` "Always start clean so callers don't have to worry about replace-vs-add": with two callers
  they do. Nothing is held between the delete and the add (lines 122 and 123), and the `busy` that keeps a second request
  out is the state of one mount of the page (`webgui/src/app/channel/page.tsx:48`): left and opened again, or in a second tab,
  the page posts beside the first request, and the later add finds a qdisc and fails, so that the
  older loss model stays. `LastPostHolds` holds of requests of which none is made beside one its sender
  did not make; `ShowsTheChannel` needs no such condition: the page shows what the interface has, whoever won.
- `webgui/server/channel.py:107` "rc != 0 is common when there's nothing to delete; treat as benign": a `tc` without permission
  is answered "ok" too, with the qdisc in place (`DeleteFails`). The page learns it from its next poll.
- `webgui/src/lib/useConfig.ts:125`: the answer to a save replaces the draft, so that what was edited while it was under
  way is lost, without a word, and the label then says "Saved" of something the user no longer means. `DraftIsMeant` and what `LabelIsTrue`
  says of the file are stated for forms in which nothing is edited or saved with a request under way (`raced`).
- A form learns what is on disk from its own requests only: after a save in a second tab its "In sync with bridge" is about the
  file it last read. One form is modelled.
- `webgui/src/app/channel/page.tsx:50` "Sync sliders to current state when polled": only when `active` or
  `lossPct` changed.
- `webgui/src/app/channel/page.tsx:194` and `fieldHints.ts:452` show a `tc qdisc replace`; the bridge deletes and adds.
- `webgui/src/lib/useFecHistory.ts`: the fallback takes differences across sources and keeps its series when the source changes.
- `webgui/docs/USER_GUIDE_EN.md:113` says DEMO is an open socket with the bridge's simulation; the code
  says DEMO when the page simulates by itself, and "LIVE MOCK BRIDGE" for that case. Line
  772 says Export of logs is not implemented; it is.
- `webgui/src/app/interleaver/page.tsx:202` "Each column is a FEC block": in the matrix drawn, a row is.
- `webgui/src/components/primitives/FieldHint.tsx:72` closes on scroll and resize only; a layout that moves leaves the tooltip behind.

## Not modelled

Of the gateway: statistics, configuration, logging, the libpcap and DPDK bindings, the legacy
`main.c`, tests, tools and scripts: no decision reads what they keep, or they are
input and output. The erasure code and the CRC are replaced by their contracts. The data
race between the telemetry worker and the collector's counters yields wrong numbers in a
snapshot and is left out with the numbers.

Of the bridge and the GUI: the simulation's numbers, parsing of log lines and YAML, thinning
of samples, charts, layout, texts, hints, and the pages that only print a snapshot
(overview, traffic, about).

## Plan

Done: the collector and its abstract specification, the interleaver, fragmentation, both
pipelines, the ARP cache, the control server and the gateway; the supervisor, the recorder,
the telemetry source, the log source, configuration and channel emulation with the hooks
and pages in front of them; the proofs above.

Next, in this order:

1. Composition: both pipelines over a link that loses bursts; a burst no longer than depth
   times M loses no packet. `BurstsAreRecoverable` is the half of it that concerns the wire.
2. The gateway's configuration as the bridge hands it over, and the counters in a snapshot.
