----------------------------- MODULE RxPipeline -----------------------------
(***************************************************************************)
(* The receive thread, src/rx_pipeline.c, with the block collector it owns *)
(* and the link in front of it.  One call of rx_pipeline_run_once() is a   *)
(* walk of pc from "recv" back to "recv":                                  *)
(*                                                                         *)
(*   recv (receive, tick) -> push -> drain ... drain -> recv               *)
(*                                                                         *)
(* The sender is a constant: block b carries the packets Sent[b], cut and  *)
(* stamped as TxPipeline does.  The link delivers the symbols in any order *)
(* and at any time, or never, or up to MaxCopies times, or corrupted.      *)
(***************************************************************************)
EXTENDS Coding, FiniteSets

CONSTANTS
  MaxActive,   \* slots of the deinterleaver: depth * 4
  Stab,        \* its stabilization time, 2.0 ms
  MaxAge,      \* RX_BLOCK_MAX_AGE_MS
  Sent,        \* Sent[b]: the packets of block b, at most K fragments in all
  BufSize,     \* REASSEM_BUF_SIZE
  MaxCopies,   \* bound: copies of a symbol the link may deliver
  MaxNoise,    \* bound: frames delivered that carry no acceptable symbol
  MaxNow       \* bound: last instant of the clock

ASSUME RxAssumption ==
  /\ MaxActive \in Nat \ {0} /\ Stab \in Nat /\ MaxAge \in Nat
  /\ Sent \in Seq(Seq(Seq(Nat)))
  /\ MaxCopies \in Nat /\ MaxNoise \in Nat /\ MaxNow \in Nat /\ BufSize \in Nat

VARIABLES
  slots, store, stats, finals, opened, now,   \* the deinterleaver
  pc,         \* where in rx_pipeline_run_once()
  sym,        \* the symbol being pushed
  copies,     \* copies[b][f]: how often the link delivered this symbol
  noise,      \* frames without an acceptable symbol so far
  delivered   \* history: delivered[b], what each decoding of block b yielded

Blocks == DOMAIN Sent

Fragments(pkt) == Fragment(pkt, 0, SymbolSize)

\* The sender puts a packet of at most K fragments into one block, which has room
\* for all of it; the receiver's buffer holds any packet.
ASSUME SentAssumption ==
  \A b \in Blocks :
    /\ \A i \in DOMAIN Sent[b] : Len(Sent[b][i]) \in 1 .. BufSize
    /\ Len(FlattenSeq([i \in DOMAIN Sent[b] |-> Fragments(Sent[b][i])])) <= K

\* The source symbols of block b, as the block builder collects them
Source ==
  [b \in Blocks |-> Padded(FlattenSeq([i \in DOMAIN Sent[b] |-> Fragments(Sent[b][i])]))]

\* The symbols of block b on the wire
Wire ==
  [b \in Blocks |-> [f \in 0 .. N - 1 |->
     [packet_id |-> b, fec_id |-> f, meta |-> Codeword(b, Source[b])[f + 1].body]]]

\* The interleaver's filler for a row without a block
Filler == [packet_id |-> 0, fec_id |-> 0, meta |-> Padding]

NoSym == Filler

\* What passes the checks of rx_pipeline_run_once() and is pushed
Frames == {Filler} \cup {Wire[b][f] : b \in Blocks, f \in 0 .. N - 1}

Metas == {Padding} \cup {Wire[b][f].meta : b \in Blocks, f \in 0 .. N - 1}

\* Every push costs the link a symbol copy or a noise frame.
MaxFrames == MaxNoise + MaxCopies * N * Len(Sent)

D == INSTANCE Deinterleaver WITH
       Ids <- {0} \cup Blocks, ZeroId <- 0, Meta <- Metas, ZeroMeta <- Padding,
       Symbols <- Frames, Overrides <- {-1}, MaxOpened <- MaxFrames, MaxDrops <- MaxFrames

collector == <<slots, store, stats, finals, opened, now>>
vars == <<collector, pc, sym, copies, noise, delivered>>

-----------------------------------------------------------------------------
(* Decoding one block                                                        *)

Received(s) == {f \in 0 .. N - 1 : store[s][f].packet_id # 0}

\* No source symbol of the block has to be recovered.
SourceComplete(s) == 0 .. K - 1 \subseteq Received(s)

\* fec_decode_block() by the number of symbols: fewer than K cannot be decoded;
\* K and more normally are, but Wirehair may still ask for more unless it has
\* all the source symbols.
DecodeResults(s) ==
  IF Cardinality(Received(s)) < K THEN {FALSE}
  ELSE IF SourceComplete(s) THEN {TRUE} ELSE {TRUE, FALSE}

\* Source symbol i as the loop makes it: bytes from the decoder, everything else
\* from whatever blk->symbols[i] holds, received or not
Reconstructed(b, s, i) ==
  LET held == store[s][i - 1].meta
  IN [packet_id |-> store[s][i - 1].packet_id, symbol_index |-> held.symbol_index,
      total_symbols |-> held.total_symbols, payload_len |-> held.payload_len,
      data |-> Source[b][i].data]

\* pkt_syms_buf and the packets reassembled from it so far
Grouping(group, packets) == [group |-> group, packets |-> packets]

FlushGroup(g) ==
  IF g.group = <<>> THEN g
  ELSE Grouping(<<>>, Append(g.packets, Reassemble(g.group, BufSize)))

Complete(group) == group # <<>> /\ Len(group) >= group[1].total_symbols

\* Mutant: the zero padding of the block is taken for fragments.
AddToGroup_NoSkip(g, r) ==
  LET open  == IF Complete(g.group) \/ r.symbol_index = 0 THEN FlushGroup(g) ELSE g
      added == Grouping(Append(open.group, r), open.packets)
  IN IF Complete(added.group) THEN FlushGroup(added) ELSE added

\* One round of the loop over the source symbols: one that says it has no payload
\* is skipped, a first fragment starts a new group, a complete group is reassembled.
AddToGroup(g, r) ==
  LET open  == IF Complete(g.group) \/ r.symbol_index = 0 THEN FlushGroup(g) ELSE g
      added == Grouping(Append(open.group, r), open.packets)
  IN IF r.payload_len = 0 THEN g
     ELSE IF Complete(added.group) THEN FlushGroup(added) ELSE added

\* The results of reassemble_packet() for a decoded block, in order
PacketsOf(b, s) ==
  LET after[i \in 0 .. K] ==
        IF i = 0 THEN Grouping(<<>>, <<>>) ELSE AddToGroup(after[i - 1], Reconstructed(b, s, i))
  IN FlushGroup(after[K]).packets

-----------------------------------------------------------------------------

Init ==
  /\ D!Init
  /\ pc = "recv" /\ sym = NoSym
  /\ copies = [b \in Blocks |-> [f \in 0 .. N - 1 |-> 0]]
  /\ noise = 0
  /\ delivered = [b \in Blocks |-> <<>>]

\* Every call ticks right after the receive, whatever came in.
Receive(next, s) ==
  /\ pc = "recv"
  /\ D!Tick(-1)
  /\ pc' = next
  /\ sym' = s
  /\ UNCHANGED delivered

\* Nothing received
Idle == Receive("drain", NoSym) /\ UNCHANGED <<copies, noise>>

\* A receive error, a frame of another EtherType or too short, a payload length
\* that does not fit: the call ends without a drain.
Ignore == noise < MaxNoise /\ noise' = noise + 1 /\ Receive("recv", NoSym) /\ UNCHANGED copies

ReceiveFiller == noise < MaxNoise /\ noise' = noise + 1 /\ Receive("push", Filler) /\ UNCHANGED copies

Deliver(b, f, next) ==
  /\ copies[b][f] < MaxCopies
  /\ copies' = [copies EXCEPT ![b][f] = @ + 1]
  /\ Receive(next, Wire[b][f])
  /\ UNCHANGED noise

ReceiveSymbol(b, f) == Deliver(b, f, "push")

\* The CRC does not match.
ReceiveCorrupt(b, f) == Deliver(b, f, "crc")

CountCrcDrop ==
  /\ pc = "crc"
  /\ D!IncCrcDrop
  /\ pc' = "recv"
  /\ sym' = NoSym
  /\ UNCHANGED <<copies, noise, delivered>>

Push ==
  /\ pc = "push"
  /\ D!PushSymbol(sym)
  /\ pc' = "drain"
  /\ sym' = NoSym
  /\ UNCHANGED <<copies, noise, delivered>>

\* deinterleaver_get_ready_block(): the first frozen slot
ReadySlot == D!Lowest(D!In("READY"))

\* Mutant: mark_result() is called for the failures only.
DrainBlock_MarksFailures ==
  LET b == slots[ReadySlot].block_id
  IN /\ pc = "drain"
     /\ D!In("READY") # {}
     /\ \E decoded \in DecodeResults(ReadySlot) :
          IF decoded
          THEN /\ delivered' = [delivered EXCEPT ![b] = Append(@,
                      [whole |-> SourceComplete(ReadySlot), packets |-> PacketsOf(b, ReadySlot)])]
               /\ UNCHANGED collector
          ELSE D!MarkResult(b, FALSE) /\ UNCHANGED delivered
     /\ UNCHANGED <<pc, sym, copies, noise>>

\* drain_ready_blocks(), one round of its loop
DrainBlock ==
  LET b == slots[ReadySlot].block_id
  IN /\ pc = "drain"
     /\ D!In("READY") # {}
     /\ \E decoded \in DecodeResults(ReadySlot) :
          /\ D!MarkResult(b, decoded)
          /\ delivered' =
               IF decoded
               THEN [delivered EXCEPT ![b] = Append(@,
                      [whole |-> SourceComplete(ReadySlot), packets |-> PacketsOf(b, ReadySlot)])]
               ELSE delivered
     /\ UNCHANGED <<pc, sym, copies, noise>>

DrainDone ==
  /\ pc = "drain"
  /\ D!In("READY") = {}
  /\ pc' = "recv"
  /\ UNCHANGED <<collector, sym, copies, noise, delivered>>

\* Time passes between calls.
Advance == pc = "recv" /\ D!Advance /\ UNCHANGED <<pc, sym, copies, noise, delivered>>

Next ==
  \/ Idle \/ Ignore \/ ReceiveFiller
  \/ \E b \in Blocks, f \in 0 .. N - 1 : ReceiveSymbol(b, f) \/ ReceiveCorrupt(b, f)
  \/ CountCrcDrop \/ Push \/ DrainBlock \/ DrainDone
  \/ Advance

Spec == Init /\ [][Next]_vars

\* The thread never stops calling run_once(), time does not stop, and a link that
\* is not saturated leaves some receive empty: strong fairness of Idle, which can
\* be taken whenever pc is "recv".
FairSpec ==
  /\ Spec
  /\ []<><<Next>>_vars
  /\ <>(now = MaxNow)
  /\ []<>(pc = "recv") => []<><<Idle>>_pc

-----------------------------------------------------------------------------

TypeOK ==
  /\ D!TypeOK
  /\ pc \in {"recv", "push", "crc", "drain"}
  /\ copies \in [Blocks -> [0 .. N - 1 -> 0 .. MaxCopies]]
  /\ noise \in 0 .. MaxNoise
  /\ pc \in {"recv", "drain"} => sym = NoSym

\* What a block should yield: its packets
Expected(b) == [i \in DOMAIN Sent[b] |-> Succeed(Sent[b][i])]

\* A block whose source symbols all arrived delivers exactly the packets that
\* were put into it, in order, whatever the slot held before and whatever
\* padding the block carries.
WholeBlockExact ==
  \A b \in Blocks : \A i \in DOMAIN delivered[b] :
    delivered[b][i].whole => delivered[b][i].packets = Expected(b)

\* On a link that does not duplicate, and with K > M, no block is decoded - and
\* no packet delivered - twice, although late symbols re-open a decoded block.
DeliveredOnce == \A b \in Blocks : Len(delivered[b]) <= 1

\* What the decoder is given: a block with at least K symbols, each in its own
\* position and each exactly as it was sent.
DecoderInput ==
  /\ TypeOK
  /\ pc = "drain" =>
       \A s \in D!In("READY") :
         LET b == slots[s].block_id
         IN /\ b \in Blocks
            /\ Cardinality(Received(s)) >= K
            /\ \A f \in Received(s) : store[s][f] = [packet_id |-> b, meta |-> Wire[b][f].meta]

\* Block b is frozen, or has been collecting since instant t.
Frozen(b) == \E s \in D!In("READY") : slots[s].block_id = b
Collecting(b, t) ==
  \E s \in D!In("FILLING") : slots[s].block_id = b /\ slots[s].first = t

\* Nothing occupies a slot for ever: a frozen block gets its verdict
\* (mark_result() "MUST be called after every successful get_ready_block()"), and
\* one whose missing symbols never come is frozen, recycled or evicted, since the
\* tick of every call applies the age limit.
BlocksEnd ==
  \A b \in Blocks :
    /\ Frozen(b) ~> ~Frozen(b)
    /\ \A t \in 0 .. MaxNow - MaxAge : Collecting(b, t) ~> ~Collecting(b, t)

\* drain_ready_blocks(): "The metadata in blk->symbols[i] (packet_id,
\* symbol_index, total_symbols, payload_len) is authoritative".  If so, what is
\* sent to the LAN is a packet the far gateway took from its LAN.
OnlySentPackets ==
  \A b \in Blocks : \A i \in DOMAIN delivered[b] : \A j \in DOMAIN delivered[b][i].packets :
    LET result == delivered[b][i].packets[j]
    IN result.ok => \E p \in DOMAIN Sent[b] : Sent[b][p] = result.bytes
=============================================================================
