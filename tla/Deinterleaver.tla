---------------------------- MODULE Deinterleaver ----------------------------
(***************************************************************************)
(* The receiver's block collector, src/deinterleaver.c: a fixed table of   *)
(* slots, each collecting the symbols of one FEC block until the block is  *)
(* frozen for the decoder or given up.                                     *)
(*                                                                         *)
(* Calls that return without changing anything (a NULL argument, an        *)
(* oversized payload, a fec_id out of range, mark_result() on a block that *)
(* is not READY) are stuttering steps.  get_ready_block() is a pure read.  *)
(***************************************************************************)
EXTENDS Integers, FiniteSets

CONSTANTS
  MaxActive,   \* max_active_blocks: number of slots
  N,           \* symbols_per_block
  K,           \* source symbols
  SymbolSize,  \* symbol_size, in abstract payload units
  Stab,        \* stabilization_ms (0: promote as soon as K symbols are in)
  MaxAge,      \* block_max_age_ms (0: blocks never time out by themselves)
  Ids,         \* values packet_id (the block id on the wire) may take
  ZeroId,      \* the value 0 of packet_id, which marks an erasure
  Meta,        \* header fields and payload of a symbol, .payload_len among them
  ZeroMeta,    \* the calloc()ed content of block_pool
  Symbols,     \* the symbols the caller may push
  Overrides,   \* arguments deinterleaver_tick() is called with
  MaxNow,      \* bound: last instant of the clock
  MaxOpened,   \* bound: blocks opened over a run
  MaxDrops     \* bound: symbols dropped over a run

\* The parameter check of deinterleaver_create(), and what the model adds.
ASSUME ParamsAssumption ==
  /\ MaxActive \in Nat \ {0}
  /\ N \in Nat /\ K \in Nat
  /\ 1 <= K /\ K < N
  /\ SymbolSize \in Nat \ {0}
  /\ Stab \in Nat /\ MaxAge \in Nat
  /\ ZeroId \in Ids
  /\ ZeroMeta \in Meta
  /\ \A m \in Meta : m.payload_len \in Nat
  /\ Symbols \subseteq [packet_id : Ids, fec_id : Nat, meta : Meta]
  /\ Overrides \subseteq Int
  /\ MaxNow \in Nat /\ MaxOpened \in Nat /\ MaxDrops \in Nat

VARIABLES
  slots,    \* slot_t: everything but the block
  store,    \* slot->block->symbols[]: packet_id and the rest, per position
  stats,    \* dil_stats_t
  finals,   \* how often final_cb reported each reason
  opened,   \* history: calls of init_slot()
  now       \* CLOCK_MONOTONIC, in milliseconds

vars == <<slots, store, stats, finals, opened, now>>

Slots == 0 .. MaxActive - 1
FecIds == 0 .. N - 1
MaxHoles == N - K

\* deinterleaver_block_final_reason_t, without DIL_BLOCK_FINAL_NONE
Reasons ==
  {"DECODE_SUCCESS", "DECODE_FAILED", "TIMEOUT", "TOO_MANY_HOLES",
   "EVICTED_BEFORE_DECODE", "READY_EVICTED_BEFORE_MARK"}

StatNames ==
  {"duplicate", "frozen", "erasure", "crc_fail", "evicted_filling",
   "evicted_done", "ready", "failed_timeout", "failed_holes"}

SlotRec ==
  [state : {"EMPTY", "FILLING", "READY"}, block_id : Ids, mask : SUBSET FecIds,
   valid : 0 .. N, first : Nat, last : Nat]

Stored == [packet_id : Ids, meta : Meta]

-----------------------------------------------------------------------------

\* slot_reset(): the metadata is cleared, block->symbols[] is not.
SlotReset ==
  [state |-> "EMPTY", block_id |-> ZeroId, mask |-> {}, valid |-> 0,
   first |-> 0, last |-> 0]

\* init_slot(), the slot's half
InitSlot(id) ==
  [state |-> "FILLING", block_id |-> id, mask |-> {}, valid |-> 0,
   first |-> now, last |-> now]

\* Mutant: the packet_id loop of init_slot() is missing.
InitSymbols_NoZeroing(syms) == syms

\* init_slot(), the block's half: every position becomes an erasure for
\* fec_decode_block(), its other fields stay what they were.
InitSymbols(syms) == [f \in FecIds |-> [syms[f] EXCEPT !.packet_id = ZeroId]]

In(state) == {s \in Slots : slots[s].state = state}

\* Mutant: the lookup misses frozen blocks.
FindSlotAny_FillingOnly(id) ==
  {s \in Slots : slots[s].state = "FILLING" /\ slots[s].block_id = id}

\* find_slot_any(): the slots in use for a block id
FindSlotAny(id) ==
  {s \in Slots : slots[s].state # "EMPTY" /\ slots[s].block_id = id}

Lowest(S) == CHOOSE s \in S : \A t \in S : s <= t

\* ... of which find_slot_any() returns the first
SlotOf(id) == Lowest(FindSlotAny(id))

\* The scan of alloc_slot() keeps the first slot with the greatest age.
Oldest(S) ==
  CHOOSE s \in S : \A t \in S :
    slots[s].first < slots[t].first \/ (slots[s].first = slots[t].first /\ s <= t)

\* alloc_slot(): which slot is (re)used for a new block
AllocSlot ==
  IF In("EMPTY") # {} THEN Lowest(In("EMPTY"))
  ELSE IF In("READY") # {} THEN Oldest(In("READY"))
  ELSE Oldest(In("FILLING"))

\* 1.0e15 ms stands for "never": past the end of the modelled time
Never == MaxNow + 1

\* Mutant: a negative override disables the timeout instead of selecting MaxAge.
HardTimeout_NoDefault(override) == IF override >= 0 THEN override ELSE Never

HardTimeout(override) ==
  IF override >= 0 THEN override
  ELSE IF MaxAge > 0 THEN MaxAge ELSE Never

\* Mutant: the timeout branch freezes whatever has been collected.
MaybeFreeze_TimeoutUnchecked(sl, hard) ==
  IF \/ sl.valid = N
     \/ sl.valid >= K /\ (Stab = 0 \/ now - sl.last >= Stab)
     \/ now - sl.first >= hard
  THEN "ready" ELSE "none"

\* Mutant: off by one in the number of symbols the decoder needs.
MaybeFreeze_OneShort(sl, hard) ==
  IF sl.valid = N \/ (sl.valid >= K - 1 /\ now - sl.last >= Stab) THEN "ready"
  ELSE IF now - sl.first >= hard THEN "recycle" ELSE "none"

\* maybe_freeze_slot() on a FILLING slot, in the order of its tests
MaybeFreeze(sl, hard) ==
  LET holes  == N - sl.valid
      stable == sl.valid >= K /\ (Stab = 0 \/ now - sl.last >= Stab)
      aged   == now - sl.first >= hard
  IN IF sl.valid = N THEN "ready"
     ELSE IF stable THEN (IF holes > MaxHoles THEN "recycle" ELSE "ready")
     ELSE IF aged THEN (IF sl.valid >= K /\ holes <= MaxHoles THEN "ready" ELSE "recycle")
     ELSE "none"

\* The reason the caller of maybe_freeze_slot() reports for a recycled slot
RecycleReason(sl) == IF N - sl.valid > MaxHoles THEN "TOO_MANY_HOLES" ELSE "TIMEOUT"

RecycleStat(sl) == IF N - sl.valid > MaxHoles THEN "failed_holes" ELSE "failed_timeout"

\* A slot after maybe_freeze_slot() and, for a recycle, finalize_and_reset_slot()
Settle(sl, outcome) ==
  CASE outcome = "ready"   -> [sl EXCEPT !.state = "READY"]
    [] outcome = "recycle" -> SlotReset
    [] OTHER               -> sl

Plus(b) == IF b THEN 1 ELSE 0

\* counter x of f, increased by n
Bump(f, x, n) == [f EXCEPT ![x] = @ + n]

-----------------------------------------------------------------------------

Init ==
  /\ slots = [s \in Slots |-> SlotReset]
  /\ store = [s \in Slots |-> [f \in FecIds |-> [packet_id |-> ZeroId, meta |-> ZeroMeta]]]
  /\ stats = [n \in StatNames |-> 0]
  /\ finals = [r \in Reasons |-> 0]
  /\ opened = 0
  /\ now = 0

Dropped == stats["duplicate"] + stats["frozen"] + stats["erasure"] + stats["crc_fail"]

Drop(counter) ==
  /\ Dropped < MaxDrops
  /\ stats' = Bump(stats, counter, 1)
  /\ UNCHANGED <<slots, store, finals, opened, now>>

\* The interleaver's empty-row filler: packet_id and payload_len both zero.
IsErasure(sym) == sym.packet_id = ZeroId /\ sym.meta.payload_len = 0

Acceptable(sym) ==
  /\ ~IsErasure(sym)
  /\ sym.meta.payload_len <= SymbolSize
  /\ sym.fec_id \in FecIds

PushErasure(sym) == IsErasure(sym) /\ Drop("erasure")

\* Mutant: the Freeze Rule check of push_symbol() is missing.
Collects_Always(s) == TRUE

\* Freeze Rule: a block that is no longer FILLING takes no symbol.
Collects(s) == slots[s].state = "FILLING"

PushFrozen(sym) ==
  /\ Acceptable(sym)
  /\ FindSlotAny(sym.packet_id) # {}
  /\ ~Collects(SlotOf(sym.packet_id))
  /\ Drop("frozen")

PushDuplicate(sym) ==
  /\ Acceptable(sym)
  /\ FindSlotAny(sym.packet_id) # {}
  /\ Collects(SlotOf(sym.packet_id))
  /\ sym.fec_id \in slots[SlotOf(sym.packet_id)].mask
  /\ Drop("duplicate")

\* The tail of push_symbol(): store the symbol in slot s, evaluate the exit
\* conditions, recycle an irrecoverable block.  sl, syms, st and fi are the
\* slot, its symbols, the counters and the reports as alloc_slot() left them.
StoreIn(s, sl, syms, st, fi, sym) ==
  LET filled  == [sl EXCEPT !.mask = @ \cup {sym.fec_id}, !.valid = @ + 1, !.last = now]
      outcome == MaybeFreeze(filled, HardTimeout(-1))
  IN /\ slots' = [slots EXCEPT ![s] = Settle(filled, outcome)]
     /\ store' = [store EXCEPT ![s] =
                    [syms EXCEPT ![sym.fec_id] =
                       [packet_id |-> sym.packet_id, meta |-> sym.meta]]]
     /\ stats' = Bump(Bump(st, "ready", Plus(outcome = "ready")),
                      RecycleStat(filled), Plus(outcome = "recycle"))
     /\ finals' = Bump(fi, RecycleReason(filled), Plus(outcome = "recycle"))
     /\ UNCHANGED now

\* A symbol of a block that is being collected
PushStore(sym) ==
  LET s == SlotOf(sym.packet_id)
  IN /\ Acceptable(sym)
     /\ FindSlotAny(sym.packet_id) # {}
     /\ Collects(s)
     /\ sym.fec_id \notin slots[s].mask
     /\ StoreIn(s, slots[s], store[s], stats, finals, sym)
     /\ UNCHANGED opened

\* What alloc_slot() counts and reports when it takes slot s from a block
EvictStats(s) ==
  Bump(Bump(stats, "evicted_done", Plus(slots[s].state = "READY")),
       "evicted_filling", Plus(slots[s].state = "FILLING"))

\* Mutant: a frozen block is "recycled silently", without a final report.
EvictFinals_ReadySilent(s) ==
  Bump(finals, "EVICTED_BEFORE_DECODE", Plus(slots[s].state = "FILLING"))

EvictFinals(s) ==
  Bump(Bump(finals, "READY_EVICTED_BEFORE_MARK", Plus(slots[s].state = "READY")),
       "EVICTED_BEFORE_DECODE", Plus(slots[s].state = "FILLING"))

\* The first symbol of a block with no slot: alloc_slot() takes a free slot, or
\* evicts the oldest READY block, or else the oldest FILLING one.
PushOpen(sym) ==
  LET s == AllocSlot
  IN /\ Acceptable(sym)
     /\ FindSlotAny(sym.packet_id) = {}
     /\ opened < MaxOpened
     /\ StoreIn(s, InitSlot(sym.packet_id), InitSymbols(store[s]),
                EvictStats(s), EvictFinals(s), sym)
     /\ opened' = opened + 1

\* deinterleaver_push_symbol()
PushSymbol(sym) ==
  PushErasure(sym) \/ PushFrozen(sym) \/ PushDuplicate(sym) \/ PushStore(sym) \/ PushOpen(sym)

\* deinterleaver_inc_crc_drop(): called instead of push_symbol() on a bad CRC
IncCrcDrop == Drop("crc_fail")

\* deinterleaver_mark_result()
MarkResult(id, success) ==
  /\ FindSlotAny(id) # {}
  /\ slots[SlotOf(id)].state = "READY"
  /\ slots' = [slots EXCEPT ![SlotOf(id)] = SlotReset]
  /\ finals' = Bump(finals, IF success THEN "DECODE_SUCCESS" ELSE "DECODE_FAILED", 1)
  /\ UNCHANGED <<store, stats, opened, now>>

\* deinterleaver_tick(): maybe_freeze_slot() on every FILLING slot
Tick(override) ==
  LET outcome == [s \in Slots |->
                    IF slots[s].state = "FILLING"
                    THEN MaybeFreeze(slots[s], HardTimeout(override)) ELSE "none"]
      ready    == {s \in Slots : outcome[s] = "ready"}
      holes    == {s \in Slots : outcome[s] = "recycle" /\ N - slots[s].valid > MaxHoles}
      timeouts == {s \in Slots : outcome[s] = "recycle" /\ ~(N - slots[s].valid > MaxHoles)}
  IN /\ slots' = [s \in Slots |-> Settle(slots[s], outcome[s])]
     /\ stats' = Bump(Bump(Bump(stats, "ready", Cardinality(ready)),
                           "failed_holes", Cardinality(holes)),
                      "failed_timeout", Cardinality(timeouts))
     /\ finals' = Bump(Bump(finals, "TOO_MANY_HOLES", Cardinality(holes)),
                       "TIMEOUT", Cardinality(timeouts))
     /\ UNCHANGED <<store, opened, now>>

\* Time passes between calls.
Advance ==
  /\ now < MaxNow
  /\ now' = now + 1
  /\ UNCHANGED <<slots, store, stats, finals, opened>>

Next ==
  \/ \E sym \in Symbols : PushSymbol(sym)
  \/ \E id \in Ids, success \in BOOLEAN : MarkResult(id, success)
  \/ \E override \in Overrides : Tick(override)
  \/ IncCrcDrop
  \/ Advance

Spec == Init /\ [][Next]_vars

-----------------------------------------------------------------------------

TypeOK ==
  /\ slots \in [Slots -> SlotRec]
  /\ store \in [Slots -> [FecIds -> Stored]]
  /\ stats \in [StatNames -> Nat]
  /\ finals \in [Reasons -> Nat]
  /\ opened \in Nat
  /\ now \in Nat

\* find_slot_any() and mark_result() address a block by its id: two slots never
\* collect the same block, so no symbol or verdict reaches the wrong one.
UniqueBlocks ==
  \A s, t \in Slots :
    /\ slots[s].state # "EMPTY" /\ slots[t].state # "EMPTY"
    /\ slots[s].block_id = slots[t].block_id
    => s = t

Decodable(sl) ==
  /\ sl.valid = Cardinality(sl.mask)
  /\ sl.state = "READY" => Cardinality(sl.mask) >= K
  /\ sl.state = "FILLING" => sl.mask # {} /\ sl.mask # FecIds

\* "A block with holes > M is unrecoverable ... without ever becoming
\* READY_TO_DECODE": a frozen block has at least K distinct positions, a block
\* still collecting misses at least one, and valid_symbols counts the bitmap.
ReadyDecodable == \A s \in Slots : Decodable(slots[s])

SeesMask(sl, syms) ==
  sl.state # "EMPTY" /\ sl.block_id # ZeroId =>
    \A f \in FecIds :
      syms[f].packet_id = IF f \in sl.mask THEN sl.block_id ELSE ZeroId

\* fec_decode_block() takes the positions with packet_id # 0 for the received
\* ones.  For a slot in use that must be the bitmap, and each must hold a symbol
\* of this block, although slot_reset() leaves the previous block's symbols in
\* place.  (Block id 0 is the erasure sentinel and is never decoded.)
DecoderSeesMask == \A s \in Slots : SeesMask(slots[s], store[s])

\* The books of a collector with the given numbers of blocks opened, in a slot,
\* and READY, its counters and its final reports
Balanced(nOpened, nActive, nReady, st, fi) ==
  /\ nOpened = nActive
       + fi["DECODE_SUCCESS"] + fi["DECODE_FAILED"] + fi["TIMEOUT"] + fi["TOO_MANY_HOLES"]
       + fi["EVICTED_BEFORE_DECODE"] + fi["READY_EVICTED_BEFORE_MARK"]
  /\ st["ready"] = nReady
       + fi["DECODE_SUCCESS"] + fi["DECODE_FAILED"] + fi["READY_EVICTED_BEFORE_MARK"]
  /\ st["failed_holes"] = fi["TOO_MANY_HOLES"]
  /\ st["failed_timeout"] = fi["TIMEOUT"]
  /\ st["evicted_done"] = fi["READY_EVICTED_BEFORE_MARK"]
  /\ st["evicted_filling"] = fi["EVICTED_BEFORE_DECODE"]

\* deinterleaver_active_blocks()
Active == Slots \ In("EMPTY")

\* Every block opened is reported to the final callback exactly once when its
\* slot is given up, and the counters telemetry shows agree with the reports.
BlockAccounting ==
  Balanced(opened, Cardinality(Active), Cardinality(In("READY")), stats, finals)

FrozenBlocksStay ==
  \A s \in Slots : slots[s].state = "READY" =>
    \/ slots'[s] = slots[s] /\ store'[s] = store[s]
    \/ finals' # finals

\* "Once a slot leaves BLOCK_FILLING its received_mask is never written again":
\* the block handed out by get_ready_block() is stable until a final report.
FreezeRule == [][FrozenBlocksStay]_vars

\* The refinement mapping to the per-block lifecycle
PhaseOf == [id \in Ids |->
  IF FindSlotAny(id) = {} THEN "EMPTY" ELSE slots[SlotOf(id)].state]
GotOf == [id \in Ids |->
  IF FindSlotAny(id) = {} THEN {} ELSE slots[SlotOf(id)].mask]

Lifecycle ==
  INSTANCE BlockLifecycle WITH phase <- PhaseOf, got <- GotOf, Capacity <- MaxActive

\* The slot table implements the per-block lifecycle.
ImplementsLifecycle == Lifecycle!Spec
=============================================================================
