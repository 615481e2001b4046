----------------------------- MODULE TxPipeline -----------------------------
(***************************************************************************)
(* The transmit thread, src/tx_pipeline.c, with the block builder          *)
(* (src/block_builder.c) and the interleaver it owns.  One call of         *)
(* tx_pipeline_run_once() is a walk of pc from "recv" back to "recv":      *)
(*                                                                         *)
(*   recv -> [add ...] -> encode -> push -> drain -> tick -> ... -> recv   *)
(*                                                                         *)
(* A frame that is received and not forwarded (receive error, our own MAC, *)
(* an ARP request answered from the cache, a packet with too many          *)
(* fragments) ends the call at once: Skip.                                 *)
(***************************************************************************)
EXTENDS Coding, FiniteSets

CONSTANTS
  Depth,         \* blocks in an interleaver window
  MaxPacket,     \* TX_MAX_PACKET_LEN, bytes
  BlockTimeout,  \* TX_BLOCK_TIMEOUT_MS
  FlushTimeout,  \* TX_INTERLEAVER_FLUSH_TIMEOUT_MS
  IdSpace,       \* 2^32: the wire carries block_id modulo this
  Packets,       \* the packets the LAN may offer
  MaxPackets,    \* bound: packets accepted over a run
  MaxNow         \* bound: last instant of the clock

ASSUME TxAssumption ==
  /\ Depth \in Nat \ {0}
  /\ MaxPacket \in Nat
  /\ BlockTimeout \in Nat /\ FlushTimeout \in Nat
  /\ IdSpace \in Nat \ {0} /\ 2 * Depth <= IdSpace   \* depth is an int
  /\ Packets \subseteq Seq(Nat) \ {<<>>}
  /\ MaxPackets \in Nat /\ MaxNow \in Nat

VARIABLES
  block_id, symbols, first_activity,        \* block_builder_t; symbol_count = Len(symbols)
  matrix, mask, row_key, assigned, blocks,  \* the interleaver
  complete, hasData, start, ready, pop_row, pop_col, owed, out,
  pc,        \* where in tx_pipeline_run_once()
  after,     \* where tick_and_drain_interleaver() returns to
  frags,     \* frag_syms[i ..]: fragments still to be added to a block
  pending,   \* symbols encode_and_drain() has still to push
  accepted,  \* history: packets fragmented, in order
  encoded,   \* history: blocks encoded, in order
  sent,      \* history: <<packet_id, fec_id>> of the symbols on the wire
  recent,    \* history: packet_id of the last Depth symbols on the wire
  skips,     \* history: parity of the calls that skipped their frame
  now

Bodies == [symbol_index : Nat, total_symbols : Nat, payload_len : Nat, data : Seq(Nat)]
Symbols == [packet_id : 0 .. IdSpace - 1, fec_id : 0 .. N - 1, body : Bodies]

IL == INSTANCE Interleaver WITH
        Keys <- 0 .. IdSpace - 1, ZeroKey <- 0,
        Garbage <- [packet_id |-> 0, fec_id |-> 0, body |-> RepairBody(0)]

builder == <<block_id, symbols, first_activity>>
interleaver == <<matrix, mask, row_key, assigned, blocks, complete, hasData, start,
                 ready, pop_row, pop_col, owed, out>>
control == <<pc, after, frags, pending>>
history == <<accepted, encoded, sent, recent, skips>>
vars == <<builder, interleaver, control, history, now>>

-----------------------------------------------------------------------------
(* The block builder                                                         *)

\* block_builder_check_timeout()
TimedOut == symbols # <<>> /\ now - first_activity >= BlockTimeout

\* block_builder_add_symbol() timestamps the first symbol of a block only.
FirstActivity(count) == IF count = 0 THEN now ELSE first_activity

AddSymbol(sym) ==
  /\ Len(symbols) < K
  /\ symbols' = Append(symbols, sym)
  /\ first_activity' = FirstActivity(Len(symbols))
  /\ UNCHANGED block_id

\* block_builder_reset()
ResetBuilder ==
  /\ symbols' = <<>>
  /\ block_id' = IF block_id # 0 THEN block_id + 1 ELSE 1
  /\ first_activity' = 0

-----------------------------------------------------------------------------

Init ==
  /\ block_id = 1 /\ symbols = <<>> /\ first_activity = 0
  /\ IL!Init
  /\ pc = "recv" /\ after = "recv" /\ frags = <<>> /\ pending = <<>>
  /\ accepted = <<>> /\ encoded = <<>> /\ sent = {} /\ recent = <<>> /\ skips = 0

\* tx_pipeline_create(): max_frags_per_packet
MaxFrags == Max({CeilDiv(MaxPacket, SymbolSize), K})

\* Close the current block, padded, and encode it; then go on at ret.
Flush(ret) ==
  /\ symbols' = Padded(symbols)
  /\ pc' = "encode" /\ after' = ret
  /\ UNCHANGED <<block_id, first_activity>>

\* Mutant: the block timeout is only looked at when a packet was received.
Idle_NoTimeout ==
  /\ pc = "recv"
  /\ pc' = "tick" /\ after' = "recv"
  /\ UNCHANGED <<builder, interleaver, frags, pending, history, now>>

\* Nothing received: idle-timeout flush, then tick.
Idle ==
  /\ pc = "recv"
  /\ \/ TimedOut /\ Flush("recv")
     \/ ~TimedOut /\ pc' = "tick" /\ after' = "recv" /\ UNCHANGED builder
  /\ UNCHANGED <<interleaver, frags, pending, history, now>>

\* The call ends before the builder is looked at.
Skip ==
  /\ pc = "recv"
  /\ skips' = 1 - skips
  /\ UNCHANGED <<builder, interleaver, control, accepted, encoded, sent, recent, now>>

\* Mutant: off by one in the room a packet needs.
MustFlush_OffByOne(n) == symbols # <<>> /\ Len(symbols) + n > K + 1

\* "Keep all fragments of one packet in the same FEC block"
MustFlush(n) == symbols # <<>> /\ Len(symbols) + n > K

\* A packet from the LAN is fragmented, and the current block closed if the
\* packet does not fit in it any more.
Accept(pkt) ==
  /\ pc = "recv"
  /\ Len(accepted) < MaxPackets
  /\ ~TooBig(pkt, SymbolSize, MaxFrags)
  /\ accepted' = Append(accepted, pkt)
  /\ frags' = Fragment(pkt, 0, SymbolSize)
  /\ \/ MustFlush(Len(frags')) /\ Flush("add")
     \/ ~MustFlush(Len(frags')) /\ pc' = "add" /\ UNCHANGED <<builder, after>>
  /\ UNCHANGED <<interleaver, pending, encoded, sent, recent, skips, now>>

\* One round of the loop over the fragments: a block that is full is encoded.
AddFragment ==
  /\ pc = "add"
  /\ frags # <<>>
  /\ AddSymbol(Head(frags))
  /\ frags' = Tail(frags)
  /\ \/ Len(symbols) + 1 = K /\ pc' = "encode" /\ after' = "add"
     \/ Len(symbols) + 1 < K /\ UNCHANGED <<pc, after>>
  /\ UNCHANGED <<interleaver, pending, history, now>>

\* After the loop: busy-timeout flush, then tick.
FragmentsDone ==
  /\ pc = "add"
  /\ frags = <<>>
  /\ \/ TimedOut /\ Flush("recv")
     \/ ~TimedOut /\ pc' = "tick" /\ after' = "recv" /\ UNCHANGED builder
  /\ UNCHANGED <<interleaver, frags, pending, history, now>>

\* The wire id: (uint32_t)block_id
WireId == block_id % IdSpace

\* encode_and_drain(), up to the drain of a window left ready
Encode ==
  /\ pc = "encode"
  /\ ~ready
  /\ pending' = Codeword(WireId, symbols)
  /\ encoded' = Append(encoded, symbols)
  /\ pc' = "push"
  /\ UNCHANGED <<builder, interleaver, after, frags, accepted, sent, recent, skips, now>>

\* encode_and_drain(): the next symbol goes to the interleaver; a duplicate is
\* dropped there, an error ends the thread and with it the gateway.
PushNext ==
  LET sym == Head(pending)
  IN /\ pc = "push"
     /\ pending # <<>>
     /\ pending' = Tail(pending)
     /\ IF IL!Rejects(sym) THEN pc' = "fatal" /\ UNCHANGED interleaver
        ELSE /\ IF IL!IsDuplicate(sym) THEN UNCHANGED interleaver ELSE IL!Push(sym)
             /\ pc' = IF Len(pending) = 1 THEN "drain" ELSE "push"
     /\ UNCHANGED <<builder, after, frags, history, now>>

LastOf(s, n) == SubSeq(s, Max({1, Len(s) - n + 1}), Len(s))

\* One round of a drain loop: a symbol of the ready window goes on the wire.
Send ==
  /\ pc \in {"encode", "drain", "flushed"}
  /\ IL!Pop
  /\ sent' = sent \cup {<<IL!PopCell.packet_id, IL!PopCell.fec_id>>}
  /\ recent' = LastOf(Append(recent, IL!PopCell.packet_id), Depth)
  /\ UNCHANGED <<builder, control, accepted, encoded, skips>>

\* encode_and_drain() is through: the builder is reset, the interleaver ticked.
BlockDone ==
  /\ pc = "drain"
  /\ ~ready
  /\ ResetBuilder
  /\ pc' = "tick"
  /\ UNCHANGED <<interleaver, after, frags, pending, history, now>>

\* tick_and_drain_interleaver()
TickInterleaver ==
  /\ pc = "tick"
  /\ \/ IL!Flush /\ pc' = "flushed"
     \/ ~IL!FlushDue /\ pc' = after /\ UNCHANGED <<interleaver, now>>
  /\ UNCHANGED <<builder, after, frags, pending, history>>

FlushDone ==
  /\ pc = "flushed"
  /\ ~ready
  /\ pc' = after
  /\ UNCHANGED <<builder, interleaver, after, frags, pending, history, now>>

\* Time passes between calls.
Advance ==
  /\ now < MaxNow
  /\ now' = now + 1
  /\ pc = "recv"
  /\ UNCHANGED <<builder, interleaver, control, history>>

\* The rest of the call, once the receive has returned
Work == AddFragment \/ FragmentsDone \/ Encode \/ PushNext \/ Send \/ BlockDone
          \/ TickInterleaver \/ FlushDone

\* tx_pipeline_run_once() and what it finds on the LAN
Receive == Idle \/ Skip \/ \E pkt \in Packets : Accept(pkt)

Next == Receive \/ Work \/ Advance

Spec == Init /\ [][Next]_vars

\* tx_thread_func() calls run_once() for ever, and time does not stop.
LoopSpec == Spec /\ WF_vars(Work) /\ WF_vars(Receive) /\ SF_vars(Advance)

\* ... and the LAN falls silent again and again.
FairSpec == LoopSpec /\ SF_vars(Idle)

-----------------------------------------------------------------------------

FragRec == [packet_id : {0}, symbol_index : Nat, total_symbols : Nat,
            payload_len : 0 .. SymbolSize, data : Seq(Nat)]

TypeOK ==
  /\ block_id \in Nat /\ symbols \in Seq(FragRec) /\ Len(symbols) <= K
  /\ first_activity \in 0 .. now
  /\ pc \in {"recv", "add", "encode", "push", "drain", "tick", "flushed"}
  /\ after \in {"recv", "add"}
  /\ frags \in Seq(FragRec)
  /\ pc = "recv" => frags = <<>> /\ pending = <<>> /\ Len(symbols) < K

Fragments(pkt) == Fragment(pkt, 0, SymbolSize)

DataOnly(syms) ==
  FlattenSeq([i \in DOMAIN syms |-> IF syms[i].payload_len > 0 THEN <<syms[i]>> ELSE <<>>])

\* What has been put into blocks, is in the builder, or is still to be added
InOrder ==
  FlattenSeq([i \in DOMAIN encoded |-> DataOnly(encoded[i])])
    \o (IF pc \in {"push", "drain"} THEN <<>> ELSE DataOnly(symbols)) \o frags

\* Every fragment of every packet taken from the LAN goes into exactly one
\* block, in order, whichever timeouts, overflows and full blocks come between.
NothingLostInBlocks ==
  InOrder = FlattenSeq([i \in DOMAIN accepted |-> Fragments(accepted[i])])

\* "Keep all fragments of one packet in the same FEC block so that
\* reassemble_packet always receives a complete set": a packet of at most K
\* fragments starts and ends in one block.
PacketNotSplit ==
  \A b \in DOMAIN encoded : \A i \in 1 .. K :
    LET s == encoded[b][i]
    IN s.payload_len > 0 /\ s.total_symbols <= K =>
         /\ i > s.symbol_index
         /\ i + s.total_symbols - s.symbol_index <= K + 1
         /\ \A j \in 0 .. s.total_symbols - 1 :
              LET t == encoded[b][i - s.symbol_index + j]
              IN t.symbol_index = j /\ t.total_symbols = s.total_symbols

\* encode_and_drain() never fails in the interleaver, which would stop the
\* gateway: it always has a free row for a block and is never still draining.
NeverFatal == pc # "fatal"

\* Between two calls every block encoded is, whole, on the wire or in a complete
\* row: the flush never invents symbols for a block that has real ones.  Block b
\* is block b % IdSpace on the wire.
BlocksGoOutWhole ==
  pc = "recv" =>
    /\ \A r \in IL!Rows : mask[r] \in {{}, IL!Cols}
    /\ \A b \in DOMAIN encoded, f \in IL!Cols :
         \/ <<b % IdSpace, f>> \in sent
         \/ \E sym \in owed : sym.packet_id = b % IdSpace /\ sym.fec_id = f

\* "a physical burst erases at most one symbol per block" - also a burst that
\* falls across two windows.
WireSpread ==
  \A i, j \in DOMAIN recent : i # j /\ recent[i] = recent[j] => recent[i] = 0

\* What is encoded goes out: the interleaver refuses nothing, no row is sent half
\* empty, and neighbours on the wire belong to different blocks.
GoesOutWhole == TypeOK /\ NeverFatal /\ BlocksGoOutWhole /\ WireSpread

\* On a LAN that falls silent now and then, nothing waits for ever: neither a
\* partial block in the builder ("a partial block containing a SYN packet can be
\* stuck indefinitely" without the timeout) nor an encoded one in a half-empty window.
NothingStuck ==
  /\ symbols # <<>> /\ first_activity + BlockTimeout <= MaxNow ~> symbols = <<>>
  /\ owed # {} /\ start + FlushTimeout <= MaxNow ~> owed = {}
=============================================================================
