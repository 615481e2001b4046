------------------------- MODULE DeinterleaverProofs -------------------------
(***************************************************************************)
(* Proofs about the deinterleaver, for every number of slots, block size,  *)
(* timing parameter and input alphabet.                                    *)
(***************************************************************************)
EXTENDS Deinterleaver, FiniteSetTheorems, FunctionTheorems, WellFoundedInduction, TLAPS

-----------------------------------------------------------------------------
(* The choices of find_slot_any() and alloc_slot()                           *)

\* A nonempty set of naturals has a least element.
LEMMA LeastNatural ==
  ASSUME NEW S, S \subseteq Nat, S # {}
  PROVE  \E x \in S : \A y \in S : x <= y
<1> DEFINE R == OpToRel(<, Nat)
<1>1. IsWellFoundedOn(R, Nat)
  BY NatLessThanWellFounded
<1>2. \A x, y \in Nat : <<x, y>> \in R <=> x < y
  BY DEF OpToRel
<1> HIDE DEF R
<1>3. PICK x \in S : \A y \in S : ~ (<<y, x>> \in R)
  BY <1>1, WFMin
<1>4. ASSUME NEW y \in S PROVE x <= y
  <2>1. x \in Nat /\ y \in Nat
    OBVIOUS
  <2>2. ~ (y < x)
    BY <1>2, <1>3, <2>1
  <2> QED BY <2>1, <2>2
<1> QED BY <1>4

LEMMA SlotsNat == Slots \subseteq Nat /\ IsFiniteSet(Slots) /\ 0 \in Slots
<1>1. 0 \in Int /\ MaxActive - 1 \in Nat
  BY ParamsAssumption
<1> QED BY <1>1, FS_Interval DEF Slots

LEMMA LowestIn ==
  ASSUME NEW S, S \subseteq Nat, S # {}
  PROVE  Lowest(S) \in S
BY LeastNatural DEF Lowest

LEMMA OldestIn ==
  ASSUME slots \in [Slots -> SlotRec], NEW S, S \subseteq Slots, S # {}
  PROVE  Oldest(S) \in S
<1> DEFINE F == {slots[s].first : s \in S}
<1>1. F \subseteq Nat /\ F # {}
  BY DEF SlotRec
<1>2. PICK x \in F : \A y \in F : x <= y
  BY <1>1, LeastNatural
<1> DEFINE T == {s \in S : slots[s].first = x}
<1>3. T \subseteq Nat /\ T # {}
  BY <1>2, SlotsNat
<1>4. PICK m \in T : \A t \in T : m <= t
  BY <1>3, LeastNatural
<1>5. \A t \in S : slots[m].first < slots[t].first
                     \/ (slots[m].first = slots[t].first /\ m <= t)
  <2> TAKE t \in S
  <2>1. slots[m].first = x /\ x \in Nat /\ slots[t].first \in Nat
    BY <1>1, <1>2
  <2>2. x <= slots[t].first
    BY <1>2
  <2>3. slots[t].first = x => m <= t
    BY <1>4
  <2> QED BY <2>1, <2>2, <2>3
<1>6. m \in S
  OBVIOUS
<1> HIDE DEF T
<1> QED BY <1>5, <1>6 DEF Oldest

LEMMA SlotOfIn ==
  ASSUME NEW id, FindSlotAny(id) # {}
  PROVE  SlotOf(id) \in FindSlotAny(id)
<1>1. FindSlotAny(id) \subseteq Nat
  BY SlotsNat DEF FindSlotAny
<1> QED BY <1>1, LowestIn DEF SlotOf

\* alloc_slot() never fails: some slot is EMPTY, READY or FILLING.
LEMMA AllocSlotIn ==
  ASSUME slots \in [Slots -> SlotRec]
  PROVE  AllocSlot \in Slots
<1>1. 0 \in Slots
  BY SlotsNat
<1>2. In("EMPTY") # {} \/ In("READY") # {} \/ In("FILLING") # {}
  BY <1>1 DEF In, SlotRec
<1>3. \A st : In(st) \subseteq Slots /\ In(st) \subseteq Nat
  BY SlotsNat DEF In
<1>4. CASE In("EMPTY") # {}
  BY <1>3, <1>4, LowestIn DEF AllocSlot
<1>5. CASE In("EMPTY") = {} /\ In("READY") # {}
  BY <1>3, <1>5, OldestIn DEF AllocSlot
<1>6. CASE In("EMPTY") = {} /\ In("READY") = {}
  <2>1. In("FILLING") # {}
    BY <1>2, <1>6
  <2> QED BY <1>3, <1>6, <2>1, OldestIn DEF AllocSlot
<1> QED BY <1>4, <1>5, <1>6

-----------------------------------------------------------------------------
(* maybe_freeze_slot()                                                       *)

\* A slot that has just stored a symbol, or was FILLING already
Counted(sl) ==
  /\ sl \in SlotRec
  /\ sl.state = "FILLING"
  /\ sl.valid = Cardinality(sl.mask)
  /\ sl.mask # {}

LEMMA FecIdsFinite == IsFiniteSet(FecIds) /\ Cardinality(FecIds) = N
<1>1. 0 \in Int /\ N - 1 \in Int /\ 0 <= N - 1
  BY ParamsAssumption
<1> QED BY <1>1, FS_Interval, ParamsAssumption DEF FecIds

LEMMA MaskFinite ==
  ASSUME NEW m \in SUBSET FecIds
  PROVE  IsFiniteSet(m) /\ Cardinality(m) \in 0 .. N
<1>1. IsFiniteSet(m) /\ Cardinality(m) <= N
  BY FecIdsFinite, FS_Subset
<1> QED BY <1>1, FS_CardinalityType, ParamsAssumption

LEMMA SlotResetOK == SlotReset \in SlotRec /\ Decodable(SlotReset)
<1>1. {} \in SUBSET FecIds /\ 0 \in 0 .. N /\ 0 \in Nat
  BY ParamsAssumption
<1> QED BY <1>1, FS_EmptySet, ParamsAssumption DEF SlotReset, SlotRec, Decodable

\* Storing a new position keeps the count and the bitmap in step.
LEMMA FilledOK ==
  ASSUME NEW sl \in SlotRec, sl.state = "FILLING", sl.valid = Cardinality(sl.mask),
         NEW f \in FecIds \ sl.mask, now \in Nat
  PROVE  Counted([sl EXCEPT !.mask = @ \cup {f}, !.valid = @ + 1, !.last = now])
<1> DEFINE m == sl.mask \cup {f}
<1>1. sl.mask \in SUBSET FecIds /\ m \in SUBSET FecIds
  BY DEF SlotRec
<1>2. IsFiniteSet(sl.mask) /\ Cardinality(m) \in 0 .. N
  BY <1>1, MaskFinite
<1>3. Cardinality(m) = sl.valid + 1
  BY <1>2, FS_AddElement
<1> HIDE DEF m
<1>4. [sl EXCEPT !.mask = m, !.valid = @ + 1, !.last = now] \in SlotRec
  BY <1>1, <1>2, <1>3 DEF SlotRec
<1> QED BY <1>3, <1>4 DEF Counted, m, SlotRec

\* A slot is frozen only with K symbols, and goes on filling only with a hole.
LEMMA SettleOK ==
  ASSUME NEW sl, Counted(sl), NEW hard \in Int, now \in Nat,
         NEW r, r = Settle(sl, MaybeFreeze(sl, hard))
  PROVE  /\ r \in SlotRec
         /\ Decodable(r)
         /\ r.state # "EMPTY" => r.block_id = sl.block_id /\ r.mask = sl.mask
<1>1. /\ N \in Nat /\ K \in Nat /\ 1 <= K /\ K < N
      /\ Stab \in Nat /\ sl.valid \in 0 .. N /\ sl.last \in Nat /\ sl.first \in Nat
  BY ParamsAssumption DEF Counted, SlotRec
<1>2. sl.mask = FecIds => sl.valid = N
  BY FecIdsFinite DEF Counted
<1>3. CASE MaybeFreeze(sl, hard) = "ready"
  <2>1. sl.valid >= K
    BY <1>1, <1>3 DEF MaybeFreeze
  <2>2. r = [sl EXCEPT !.state = "READY"]
    BY <1>3 DEF Settle
  <2> QED BY <2>1, <2>2 DEF Counted, SlotRec, Decodable
<1>4. CASE MaybeFreeze(sl, hard) = "recycle"
  <2>1. r = SlotReset
    BY <1>4 DEF Settle
  <2>2. SlotReset.state = "EMPTY"
    BY DEF SlotReset
  <2> QED BY <2>1, <2>2, SlotResetOK
<1>5. CASE MaybeFreeze(sl, hard) = "none"
  <2>1. sl.valid # N
    BY <1>5 DEF MaybeFreeze
  <2>2. r = sl
    BY <1>5 DEF Settle
  <2> QED BY <1>2, <2>1, <2>2 DEF Counted, SlotRec, Decodable
<1>6. MaybeFreeze(sl, hard) \in {"ready", "recycle", "none"}
  BY DEF MaybeFreeze
<1> QED BY <1>3, <1>4, <1>5, <1>6

LEMMA HardTimeoutInt == \A o \in Int : HardTimeout(o) \in Int
BY ParamsAssumption DEF HardTimeout, Never

-----------------------------------------------------------------------------
(* The inductive invariant                                                   *)

IInv == TypeOK /\ UniqueBlocks /\ ReadyDecodable /\ DecoderSeesMask

LEMMA InitIInv == Init => IInv
<1> SUFFICES ASSUME Init PROVE IInv
  OBVIOUS
<1>1. slots = [s \in Slots |-> SlotReset]
  BY DEF Init
<1>2. SlotReset.state = "EMPTY"
  BY DEF SlotReset
<1>3. TypeOK
  <2>1. [packet_id |-> ZeroId, meta |-> ZeroMeta] \in Stored
    BY ParamsAssumption DEF Stored
  <2> QED BY <1>1, <2>1, SlotResetOK DEF Init, TypeOK
<1>4. UniqueBlocks
  BY <1>1, <1>2 DEF UniqueBlocks
<1>5. ReadyDecodable
  BY <1>1, SlotResetOK DEF ReadyDecodable
<1>6. DecoderSeesMask
  BY <1>1, <1>2 DEF DecoderSeesMask, SeesMask
<1> QED BY <1>3, <1>4, <1>5, <1>6 DEF IInv

\* Changing one slot keeps the invariant when the new content is good by itself
\* and shares its block id with no other slot.
LEMMA OneSlot ==
  ASSUME IInv, NEW s \in Slots, NEW r \in SlotRec, NEW syms \in [FecIds -> Stored],
         slots' = [slots EXCEPT ![s] = r],
         store' = [store EXCEPT ![s] = syms],
         stats' \in [StatNames -> Nat], finals' \in [Reasons -> Nat],
         opened' \in Nat, now' \in Nat,
         Decodable(r), SeesMask(r, syms),
         r.state # "EMPTY" =>
           \A t \in Slots \ {s} : slots[t].state # "EMPTY" => slots[t].block_id # r.block_id
  PROVE  IInv'
<1>1. TypeOK'
  BY DEF IInv, TypeOK
<1>2. UniqueBlocks'
  BY DEF IInv, TypeOK, UniqueBlocks
<1>3. ReadyDecodable'
  BY DEF IInv, TypeOK, ReadyDecodable, Decodable
<1>4. DecoderSeesMask'
  BY DEF IInv, TypeOK, DecoderSeesMask, SeesMask
<1> QED BY <1>1, <1>2, <1>3, <1>4 DEF IInv

LEMMA CounterType ==
  ASSUME NEW A, NEW f \in [A -> Nat], NEW x \in A, NEW n \in Nat
  PROVE  Bump(f, x, n) \in [A -> Nat]
BY DEF Bump

LEMMA PlusNat == \A b \in BOOLEAN : Plus(b) \in Nat
BY DEF Plus

\* The tail of push_symbol(), shared by PushStore and PushOpen
LEMMA StoreInStep ==
  ASSUME IInv, NEW s \in Slots, NEW sl \in SlotRec, NEW syms \in [FecIds -> Stored],
         NEW st \in [StatNames -> Nat], NEW fi \in [Reasons -> Nat],
         NEW sym \in Symbols, sym.fec_id \in FecIds \ sl.mask,
         sl.state = "FILLING", sl.valid = Cardinality(sl.mask),
         sl.block_id = sym.packet_id, SeesMask(sl, syms),
         \A t \in Slots \ {s} : slots[t].state # "EMPTY" => slots[t].block_id # sl.block_id,
         StoreIn(s, sl, syms, st, fi, sym), opened' \in Nat
  PROVE  IInv'
<1> DEFINE filled  == [sl EXCEPT !.mask = @ \cup {sym.fec_id}, !.valid = @ + 1, !.last = now]
           outcome == MaybeFreeze(filled, HardTimeout(-1))
           r       == Settle(filled, outcome)
           new     == [packet_id |-> sym.packet_id, meta |-> sym.meta]
           syms1   == [syms EXCEPT ![sym.fec_id] = new]
<1>1. now \in Nat
  BY DEF IInv, TypeOK
<1>2. Counted(filled)
  BY <1>1, FilledOK
<1>3. HardTimeout(-1) \in Int
  BY HardTimeoutInt
<1>4. filled.block_id = sl.block_id /\ filled.mask = sl.mask \cup {sym.fec_id}
  BY DEF SlotRec
<1> HIDE DEF filled
<1>5. /\ r \in SlotRec /\ Decodable(r)
      /\ r.state # "EMPTY" => r.block_id = filled.block_id /\ r.mask = filled.mask
  BY <1>1, <1>2, <1>3, SettleOK
<1>6. new \in Stored /\ new.packet_id = sl.block_id
  BY ParamsAssumption DEF Stored
<1>7. syms1 \in [FecIds -> Stored]
  BY <1>6
<1>8. SeesMask(r, syms1)
  BY <1>4, <1>5, <1>6 DEF SeesMask, Stored
<1>9. slots' = [slots EXCEPT ![s] = r] /\ store' = [store EXCEPT ![s] = syms1] /\ now' = now
  BY DEF StoreIn, filled
<1>10. stats' \in [StatNames -> Nat] /\ finals' \in [Reasons -> Nat]
  <2>1. /\ "ready" \in StatNames /\ RecycleStat(filled) \in StatNames
        /\ RecycleReason(filled) \in Reasons
    BY DEF StatNames, Reasons, RecycleStat, RecycleReason
  <2>2. Plus(outcome = "ready") \in Nat /\ Plus(outcome = "recycle") \in Nat
    BY DEF Plus
  <2>3. /\ stats' = Bump(Bump(st, "ready", Plus(outcome = "ready")),
                         RecycleStat(filled), Plus(outcome = "recycle"))
        /\ finals' = Bump(fi, RecycleReason(filled), Plus(outcome = "recycle"))
    BY DEF StoreIn, filled
  <2> HIDE DEF outcome
  <2>4. Bump(st, "ready", Plus(outcome = "ready")) \in [StatNames -> Nat]
    BY <2>1, <2>2, CounterType
  <2> QED BY <2>1, <2>2, <2>3, <2>4, CounterType
<1> HIDE DEF r, syms1
<1> QED BY <1>1, <1>4, <1>5, <1>7, <1>8, <1>9, <1>10, OneSlot

LEMMA DropStep ==
  ASSUME IInv, NEW x \in StatNames, Drop(x)
  PROVE  IInv'
<1>1. stats' \in [StatNames -> Nat]
  BY CounterType DEF Drop, IInv, TypeOK
<1>2. UNCHANGED <<slots, store, finals, opened, now>>
  BY DEF Drop
<1> QED BY <1>1, <1>2 DEF IInv, TypeOK, UniqueBlocks, ReadyDecodable, DecoderSeesMask

LEMMA PushStoreStep ==
  ASSUME IInv, NEW sym \in Symbols, PushStore(sym)
  PROVE  IInv'
<1> DEFINE s == SlotOf(sym.packet_id)
<1>1. s \in Slots /\ slots[s].state # "EMPTY" /\ slots[s].block_id = sym.packet_id
  BY SlotOfIn DEF PushStore, FindSlotAny
<1>2. /\ slots[s].state = "FILLING" /\ sym.fec_id \in FecIds \ slots[s].mask
      /\ StoreIn(s, slots[s], store[s], stats, finals, sym) /\ opened' = opened
  BY DEF PushStore, Acceptable, Collects
<1> HIDE DEF s
<1>3. /\ slots[s] \in SlotRec /\ store[s] \in [FecIds -> Stored]
      /\ stats \in [StatNames -> Nat] /\ finals \in [Reasons -> Nat] /\ opened \in Nat
  BY <1>1 DEF IInv, TypeOK
<1>4. slots[s].valid = Cardinality(slots[s].mask) /\ SeesMask(slots[s], store[s])
  BY <1>1 DEF IInv, ReadyDecodable, Decodable, DecoderSeesMask
<1>5. \A t \in Slots \ {s} : slots[t].state # "EMPTY" => slots[t].block_id # slots[s].block_id
  BY <1>1 DEF IInv, UniqueBlocks
<1> QED BY <1>1, <1>2, <1>3, <1>4, <1>5, StoreInStep

LEMMA PushOpenStep ==
  ASSUME IInv, NEW sym \in Symbols, PushOpen(sym)
  PROVE  IInv'
<1> DEFINE s  == AllocSlot
           sl == InitSlot(sym.packet_id)
           sy == InitSymbols(store[s])
<1>1. s \in Slots
  BY AllocSlotIn DEF IInv, TypeOK
<1>2. /\ sym.packet_id \in Ids /\ sym.fec_id \in FecIds
      /\ FindSlotAny(sym.packet_id) = {}
      /\ StoreIn(s, sl, sy, EvictStats(s), EvictFinals(s), sym)
      /\ opened' = opened + 1
  BY ParamsAssumption DEF PushOpen, Acceptable
<1> HIDE DEF s
<1>3. /\ sl.state = "FILLING" /\ sl.block_id = sym.packet_id /\ sl.mask = {} /\ sl.valid = 0
      /\ sl \in SlotRec
  BY <1>2, ParamsAssumption DEF InitSlot, SlotRec, IInv, TypeOK
<1>4. sl.valid = Cardinality(sl.mask)
  BY <1>3, FS_EmptySet
<1>5. sy \in [FecIds -> Stored] /\ \A f \in FecIds : sy[f].packet_id = ZeroId
  <2>1. store[s] \in [FecIds -> Stored]
    BY <1>1 DEF IInv, TypeOK
  <2> QED BY <2>1, ParamsAssumption DEF InitSymbols, Stored
<1>6. SeesMask(sl, sy)
  BY <1>3, <1>5 DEF SeesMask
<1>7. EvictStats(s) \in [StatNames -> Nat] /\ EvictFinals(s) \in [Reasons -> Nat]
  <2>1. /\ "evicted_done" \in StatNames /\ "evicted_filling" \in StatNames
        /\ "READY_EVICTED_BEFORE_MARK" \in Reasons /\ "EVICTED_BEFORE_DECODE" \in Reasons
    BY DEF StatNames, Reasons
  <2>2. Plus(slots[s].state = "READY") \in Nat /\ Plus(slots[s].state = "FILLING") \in Nat
    BY DEF Plus
  <2>3. /\ Bump(stats, "evicted_done", Plus(slots[s].state = "READY")) \in [StatNames -> Nat]
        /\ Bump(finals, "READY_EVICTED_BEFORE_MARK", Plus(slots[s].state = "READY"))
              \in [Reasons -> Nat]
    BY <2>1, <2>2, CounterType DEF IInv, TypeOK
  <2> QED BY <2>1, <2>2, <2>3, CounterType DEF EvictStats, EvictFinals
<1>8. \A t \in Slots \ {s} : slots[t].state # "EMPTY" => slots[t].block_id # sl.block_id
  BY <1>2, <1>3 DEF FindSlotAny
<1>9. opened' \in Nat
  BY <1>2 DEF IInv, TypeOK
<1> HIDE DEF sl, sy
<1>10. sym.fec_id \in FecIds \ sl.mask
  BY <1>2, <1>3
<1> QED BY <1>1, <1>2, <1>3, <1>4, <1>5, <1>6, <1>7, <1>8, <1>9, <1>10, StoreInStep

LEMMA MarkResultStep ==
  ASSUME IInv, NEW id \in Ids, NEW success \in BOOLEAN, MarkResult(id, success)
  PROVE  IInv'
<1> DEFINE s == SlotOf(id)
<1>1. s \in Slots
  BY SlotOfIn DEF MarkResult, FindSlotAny
<1>2. finals' \in [Reasons -> Nat]
  <2>1. (IF success THEN "DECODE_SUCCESS" ELSE "DECODE_FAILED") \in Reasons
    BY DEF Reasons
  <2> QED BY <2>1, CounterType DEF MarkResult, IInv, TypeOK
<1>3. /\ slots' = [slots EXCEPT ![s] = SlotReset]
      /\ store' = store /\ stats' = stats /\ opened' = opened /\ now' = now
  BY DEF MarkResult
<1> HIDE DEF s
<1>4. store[s] \in [FecIds -> Stored] /\ store' = [store EXCEPT ![s] = store[s]]
  BY <1>1, <1>3 DEF IInv, TypeOK
<1>5. SlotReset.state = "EMPTY" /\ SeesMask(SlotReset, store[s])
  BY DEF SlotReset, SeesMask
<1>6. stats' \in [StatNames -> Nat] /\ opened' \in Nat /\ now' \in Nat
  BY <1>3 DEF IInv, TypeOK
<1> QED BY <1>1, <1>2, <1>3, <1>4, <1>5, <1>6, SlotResetOK, OneSlot

LEMMA TickStep ==
  ASSUME IInv, NEW o \in Int, Tick(o)
  PROVE  IInv'
<1> DEFINE outcome == [s \in Slots |->
                         IF slots[s].state = "FILLING"
                         THEN MaybeFreeze(slots[s], HardTimeout(o)) ELSE "none"]
<1>1. ASSUME NEW s \in Slots
      PROVE  /\ slots'[s] \in SlotRec
             /\ Decodable(slots'[s])
             /\ slots'[s].state # "EMPTY" =>
                  /\ slots[s].state # "EMPTY"
                  /\ slots'[s].block_id = slots[s].block_id
                  /\ slots'[s].mask = slots[s].mask
  <2>1. slots'[s] = Settle(slots[s], outcome[s])
    BY DEF Tick
  <2>2. slots[s] \in SlotRec /\ Decodable(slots[s]) /\ now \in Nat
    BY DEF IInv, TypeOK, ReadyDecodable
  <2>3. CASE slots[s].state = "FILLING"
    <3>1. Counted(slots[s])
      BY <2>2, <2>3 DEF Counted, Decodable
    <3>2. HardTimeout(o) \in Int
      BY HardTimeoutInt
    <3>3. slots'[s] = Settle(slots[s], MaybeFreeze(slots[s], HardTimeout(o)))
      BY <2>1, <2>3
    <3> QED BY <2>2, <2>3, <3>1, <3>2, <3>3, SettleOK
  <2>4. CASE slots[s].state # "FILLING"
    BY <2>1, <2>2, <2>4 DEF Settle
  <2> QED BY <2>3, <2>4
<1>2. slots' = [s \in Slots |-> slots'[s]]
  BY DEF Tick
<1>3. store' = store /\ opened' = opened /\ now' = now
  BY DEF Tick
<1>4. stats' \in [StatNames -> Nat] /\ finals' \in [Reasons -> Nat]
  <2> DEFINE ready    == {s \in Slots : outcome[s] = "ready"}
             holes    == {s \in Slots : outcome[s] = "recycle" /\ N - slots[s].valid > MaxHoles}
             timeouts == {s \in Slots : outcome[s] = "recycle" /\ ~(N - slots[s].valid > MaxHoles)}
  <2>1. \A T \in SUBSET Slots : Cardinality(T) \in Nat
    BY SlotsNat, FS_Subset, FS_CardinalityType
  <2>2. /\ Cardinality(ready) \in Nat /\ Cardinality(holes) \in Nat
        /\ Cardinality(timeouts) \in Nat
    BY <2>1
  <2>3. /\ stats' = Bump(Bump(Bump(stats, "ready", Cardinality(ready)),
                             "failed_holes", Cardinality(holes)),
                        "failed_timeout", Cardinality(timeouts))
        /\ finals' = Bump(Bump(finals, "TOO_MANY_HOLES", Cardinality(holes)),
                         "TIMEOUT", Cardinality(timeouts))
    BY DEF Tick
  <2> HIDE DEF ready, holes, timeouts
  <2>4. /\ {"ready", "failed_holes", "failed_timeout"} \subseteq StatNames
        /\ {"TOO_MANY_HOLES", "TIMEOUT"} \subseteq Reasons
    BY DEF StatNames, Reasons
  <2>5. Bump(stats, "ready", Cardinality(ready)) \in [StatNames -> Nat]
    BY <2>2, <2>4, CounterType DEF IInv, TypeOK
  <2>6. Bump(Bump(stats, "ready", Cardinality(ready)), "failed_holes", Cardinality(holes))
          \in [StatNames -> Nat]
    BY <2>2, <2>4, <2>5, CounterType
  <2>7. Bump(finals, "TOO_MANY_HOLES", Cardinality(holes)) \in [Reasons -> Nat]
    BY <2>2, <2>4, CounterType DEF IInv, TypeOK
  <2> QED BY <2>2, <2>3, <2>4, <2>6, <2>7, CounterType
<1> HIDE DEF outcome
<1>5. TypeOK'
  BY <1>1, <1>2, <1>3, <1>4 DEF IInv, TypeOK
<1>6. UniqueBlocks'
  BY <1>1 DEF IInv, UniqueBlocks
<1>7. ReadyDecodable'
  BY <1>1 DEF ReadyDecodable, Decodable
<1>8. DecoderSeesMask'
  BY <1>1, <1>3 DEF IInv, DecoderSeesMask, SeesMask
<1> QED BY <1>5, <1>6, <1>7, <1>8 DEF IInv

LEMMA NextIInv == IInv /\ [Next]_vars => IInv'
<1> SUFFICES ASSUME IInv, [Next]_vars PROVE IInv'
  OBVIOUS
<1>1. ASSUME NEW sym \in Symbols, PushSymbol(sym) PROVE IInv'
  <2>1. {"erasure", "frozen", "duplicate"} \subseteq StatNames
    BY DEF StatNames
  <2>2. CASE PushErasure(sym)
    BY <2>1, <2>2, DropStep DEF PushErasure
  <2>3. CASE PushFrozen(sym)
    BY <2>1, <2>3, DropStep DEF PushFrozen
  <2>4. CASE PushDuplicate(sym)
    BY <2>1, <2>4, DropStep DEF PushDuplicate
  <2>5. CASE PushStore(sym)
    BY <2>5, PushStoreStep
  <2>6. CASE PushOpen(sym)
    BY <2>6, PushOpenStep
  <2> QED BY <1>1, <2>2, <2>3, <2>4, <2>5, <2>6 DEF PushSymbol
<1>2. ASSUME NEW id \in Ids, NEW success \in BOOLEAN, MarkResult(id, success) PROVE IInv'
  BY <1>2, MarkResultStep
<1>3. ASSUME NEW o \in Overrides, Tick(o) PROVE IInv'
  BY <1>3, TickStep, ParamsAssumption
<1>4. CASE IncCrcDrop
  <2>1. "crc_fail" \in StatNames
    BY DEF StatNames
  <2> QED BY <1>4, <2>1, DropStep DEF IncCrcDrop
<1>5. CASE Advance
  BY <1>5 DEF Advance, IInv, TypeOK, UniqueBlocks, ReadyDecodable, DecoderSeesMask
<1>6. CASE UNCHANGED vars
  BY <1>6 DEF vars, IInv, TypeOK, UniqueBlocks, ReadyDecodable, DecoderSeesMask
<1> QED BY <1>1, <1>2, <1>3, <1>4, <1>5, <1>6 DEF Next

LEMMA SpecIInv == Spec => []IInv
BY InitIInv, NextIInv, PTL DEF Spec

\* Every variable keeps its type, whatever is pushed and however often it is
\* ticked: in particular valid_symbols never exceeds N.
THEOREM TypeCorrect == Spec => []TypeOK
<1>1. IInv => TypeOK
  BY DEF IInv
<1> QED BY <1>1, SpecIInv, PTL

\* No block is ever collected in two slots, across evictions and re-openings.
THEOREM BlocksAreUnique == Spec => []UniqueBlocks
<1>1. IInv => UniqueBlocks
  BY DEF IInv
<1> QED BY <1>1, SpecIInv, PTL

\* maybe_freeze_slot() hands the decoder no block with fewer than K symbols, for
\* any stabilization window, age limit and tick override.
THEOREM FrozenBlocksAreDecodable == Spec => []ReadyDecodable
<1>1. IInv => ReadyDecodable
  BY DEF IInv
<1> QED BY <1>1, SpecIInv, PTL

\* Zeroing packet_id in init_slot() is enough: although slot_reset() leaves the
\* old symbols in place, the decoder never counts one of them as received.
THEOREM DecoderSeesOnlyReceived == Spec => []DecoderSeesMask
<1>1. IInv => DecoderSeesMask
  BY DEF IInv
<1> QED BY <1>1, SpecIInv, PTL

-----------------------------------------------------------------------------
(* Block accounting                                                          *)

LEMMA BumpAt ==
  ASSUME NEW A, NEW f \in [A -> Nat], NEW x \in A, NEW n \in Nat, NEW y \in A
  PROVE  Bump(f, x, n)[y] = IF y = x THEN f[y] + n ELSE f[y]
BY DEF Bump

\* Counting one slot apart from the rest
LEMMA CountRest ==
  ASSUME NEW A \in SUBSET Slots, NEW s \in Slots
  PROVE  /\ Cardinality(A \ {s}) \in Nat
         /\ Cardinality(A) = Cardinality(A \ {s}) + (IF s \in A THEN 1 ELSE 0)
<1> DEFINE C == A \ {s}
<1>1. IsFiniteSet(C)
  BY SlotsNat, FS_Subset
<1>2. Cardinality(C) \in Nat
  BY <1>1, FS_CardinalityType
<1>3. CASE s \in A
  <2>1. A = C \cup {s} /\ s \notin C
    BY <1>3
  <2> HIDE DEF C
  <2>2. Cardinality(C \cup {s}) = Cardinality(C) + 1
    BY <1>1, <2>1, FS_AddElement
  <2>3. Cardinality(A) = Cardinality(C) + (IF s \in A THEN 1 ELSE 0)
    BY <1>3, <2>1, <2>2
  <2> QED BY <1>2, <2>3 DEF C
<1>4. CASE s \notin A
  <2>1. A = C
    BY <1>4
  <2> HIDE DEF C
  <2>2. Cardinality(A) = Cardinality(C) + (IF s \in A THEN 1 ELSE 0)
    BY <1>2, <1>4, <2>1
  <2> QED BY <1>2, <2>2 DEF C
<1> QED BY <1>3, <1>4

\* The number of slots satisfying a condition, when one slot changes
LEMMA CountOne ==
  ASSUME NEW A \in SUBSET Slots, NEW B \in SUBSET Slots, NEW s \in Slots,
         \A t \in Slots \ {s} : t \in A <=> t \in B
  PROVE  /\ Cardinality(A) \in Nat /\ Cardinality(B) \in Nat
         /\ Cardinality(B) + (IF s \in A THEN 1 ELSE 0) = Cardinality(A) + (IF s \in B THEN 1 ELSE 0)
<1> DEFINE C == A \ {s}
<1>1. C = B \ {s}
  OBVIOUS
<1>2. Cardinality(C) \in Nat
  BY CountRest
<1>3. Cardinality(A) = Cardinality(C) + (IF s \in A THEN 1 ELSE 0)
  BY CountRest
<1>4. Cardinality(B) = Cardinality(C) + (IF s \in B THEN 1 ELSE 0)
  BY <1>1, CountRest
<1> HIDE DEF C
<1> QED BY <1>2, <1>3, <1>4

LEMMA CountSlotsNat == Cardinality(Active) \in Nat /\ Cardinality(In("READY")) \in Nat
<1>1. Active \in SUBSET Slots /\ In("READY") \in SUBSET Slots
  BY DEF Active, In
<1> QED BY <1>1, SlotsNat, FS_Subset, FS_CardinalityType

\* The two cardinalities of BlockAccounting, when slot s becomes r
LEMMA CountSlots ==
  ASSUME TypeOK, NEW s \in Slots, NEW r \in SlotRec, slots' = [slots EXCEPT ![s] = r]
  PROVE  /\ Cardinality(Active) \in Nat /\ Cardinality(Active') \in Nat
         /\ Cardinality(In("READY")) \in Nat /\ Cardinality(In("READY")') \in Nat
         /\ Cardinality(Active') + (IF slots[s].state # "EMPTY" THEN 1 ELSE 0)
              = Cardinality(Active) + (IF r.state # "EMPTY" THEN 1 ELSE 0)
         /\ Cardinality(In("READY")') + (IF slots[s].state = "READY" THEN 1 ELSE 0)
              = Cardinality(In("READY")) + (IF r.state = "READY" THEN 1 ELSE 0)
<1>1. \A t \in Slots : slots'[t] = IF t = s THEN r ELSE slots[t]
  BY DEF TypeOK
<1>2. /\ Active \in SUBSET Slots /\ Active' \in SUBSET Slots
      /\ In("READY") \in SUBSET Slots /\ In("READY")' \in SUBSET Slots
  BY DEF Active, In
<1>3. /\ \A t \in Slots \ {s} : t \in Active <=> t \in Active'
      /\ \A t \in Slots \ {s} : t \in In("READY") <=> t \in In("READY")'
  BY <1>1 DEF Active, In
<1>4. /\ s \in Active <=> slots[s].state # "EMPTY"
      /\ s \in Active' <=> r.state # "EMPTY"
      /\ s \in In("READY") <=> slots[s].state = "READY"
      /\ s \in In("READY")' <=> r.state = "READY"
  BY <1>1 DEF Active, In
<1>5. /\ Cardinality(Active) \in Nat /\ Cardinality(Active') \in Nat
      /\ Cardinality(Active') + (IF s \in Active THEN 1 ELSE 0) = Cardinality(Active) + (IF s \in Active' THEN 1 ELSE 0)
  BY <1>2, <1>3, CountOne
<1>6. /\ Cardinality(In("READY")) \in Nat /\ Cardinality(In("READY")') \in Nat
      /\ Cardinality(In("READY")') + (IF s \in In("READY") THEN 1 ELSE 0)
           = Cardinality(In("READY")) + (IF s \in In("READY")' THEN 1 ELSE 0)
  BY <1>2, <1>3, CountOne
<1> QED BY <1>4, <1>5, <1>6

AccInv == IInv /\ BlockAccounting

LEMMA InitAccInv == Init => AccInv
<1> SUFFICES ASSUME Init PROVE BlockAccounting
  BY InitIInv DEF AccInv
<1>1. Active = {} /\ In("READY") = {}
  BY DEF Init, Active, In, SlotReset
<1>2. Cardinality(Active) = 0 /\ Cardinality(In("READY")) = 0
  BY <1>1, FS_EmptySet
<1>3. \A x \in StatNames : stats[x] = 0
  BY DEF Init
<1>4. \A x \in Reasons : finals[x] = 0
  BY DEF Init
<1> QED BY <1>2, <1>3, <1>4 DEF Init, BlockAccounting, Balanced, StatNames, Reasons

\* If the books balance once slot s is taken for a FILLING block, they balance
\* after the symbol is stored and the block possibly frozen or recycled.
LEMMA StoreInAccount ==
  ASSUME TypeOK, NEW s \in Slots, NEW sl \in SlotRec, NEW syms,
         NEW st \in [StatNames -> Nat], NEW fi \in [Reasons -> Nat],
         NEW sym, sl.state = "FILLING", NEW op \in Nat,
         Balanced(op, Cardinality(Active) + (IF slots[s].state # "EMPTY" THEN 0 ELSE 1),
                  Cardinality(In("READY")) - (IF slots[s].state = "READY" THEN 1 ELSE 0),
                  st, fi),
         StoreIn(s, sl, syms, st, fi, sym), opened' = op,
         TypeOK'
  PROVE  BlockAccounting'
<1> DEFINE filled  == [sl EXCEPT !.mask = @ \cup {sym.fec_id}, !.valid = @ + 1, !.last = now]
           outcome == MaybeFreeze(filled, HardTimeout(-1))
           r       == Settle(filled, outcome)
           few     == N - filled.valid > MaxHoles
<1>1. /\ slots' = [slots EXCEPT ![s] = r]
      /\ stats' = Bump(Bump(st, "ready", IF outcome = "ready" THEN 1 ELSE 0),
                       IF few THEN "failed_holes" ELSE "failed_timeout",
                       IF outcome = "recycle" THEN 1 ELSE 0)
      /\ finals' = Bump(fi, IF few THEN "TOO_MANY_HOLES" ELSE "TIMEOUT",
                        IF outcome = "recycle" THEN 1 ELSE 0)
  BY DEF StoreIn, RecycleStat, RecycleReason, Plus
<1>2. r \in SlotRec
  BY <1>1 DEF TypeOK
<1>3. outcome \in {"ready", "recycle", "none"}
  BY DEF MaybeFreeze
<1>4. r.state = CASE outcome = "ready" -> "READY" [] outcome = "recycle" -> "EMPTY"
                  [] OTHER -> "FILLING"
  BY <1>3 DEF Settle, SlotReset, SlotRec
<1> HIDE DEF outcome, few
<1>5. /\ stats'["ready"] = st["ready"] + (IF outcome = "ready" THEN 1 ELSE 0)
      /\ stats'["failed_holes"] = st["failed_holes"]
            + (IF outcome = "recycle" /\ few THEN 1 ELSE 0)
      /\ stats'["failed_timeout"] = st["failed_timeout"]
            + (IF outcome = "recycle" /\ ~few THEN 1 ELSE 0)
      /\ stats'["evicted_done"] = st["evicted_done"]
      /\ stats'["evicted_filling"] = st["evicted_filling"]
  BY <1>1 DEF Bump, StatNames
<1>6. /\ finals'["TOO_MANY_HOLES"] = fi["TOO_MANY_HOLES"]
            + (IF outcome = "recycle" /\ few THEN 1 ELSE 0)
      /\ finals'["TIMEOUT"] = fi["TIMEOUT"] + (IF outcome = "recycle" /\ ~few THEN 1 ELSE 0)
      /\ finals'["DECODE_SUCCESS"] = fi["DECODE_SUCCESS"]
      /\ finals'["DECODE_FAILED"] = fi["DECODE_FAILED"]
      /\ finals'["EVICTED_BEFORE_DECODE"] = fi["EVICTED_BEFORE_DECODE"]
      /\ finals'["READY_EVICTED_BEFORE_MARK"] = fi["READY_EVICTED_BEFORE_MARK"]
  BY <1>1 DEF Bump, Reasons
<1> HIDE DEF r
<1>7. /\ Cardinality(Active) \in Nat /\ Cardinality(Active') \in Nat
      /\ Cardinality(In("READY")) \in Nat /\ Cardinality(In("READY")') \in Nat
      /\ Cardinality(Active') + (IF slots[s].state # "EMPTY" THEN 1 ELSE 0)
           = Cardinality(Active) + (IF r.state # "EMPTY" THEN 1 ELSE 0)
      /\ Cardinality(In("READY")') + (IF slots[s].state = "READY" THEN 1 ELSE 0)
           = Cardinality(In("READY")) + (IF r.state = "READY" THEN 1 ELSE 0)
  BY <1>1, <1>2, CountSlots
<1>8. /\ \A x \in StatNames : st[x] \in Nat
      /\ \A x \in Reasons : fi[x] \in Nat
  OBVIOUS
<1> HIDE DEF filled
<1>9. Balanced(opened', Cardinality(Active'), Cardinality(In("READY")'), stats', finals')
  <2> DEFINE a == Cardinality(Active)
             b == Cardinality(In("READY"))
             i == IF slots[s].state # "EMPTY" THEN 0 ELSE 1
             j == IF slots[s].state = "READY" THEN 1 ELSE 0
  <2>1. /\ a \in Nat /\ b \in Nat /\ i \in {0, 1} /\ j \in {0, 1}
        /\ Balanced(op, a + i, b - j, st, fi)
    BY <1>7
  <2>2. /\ Cardinality(Active') = a + i + (IF outcome = "recycle" THEN -1 ELSE 0)
        /\ Cardinality(In("READY")') = b - j + (IF outcome = "ready" THEN 1 ELSE 0)
    BY <1>3, <1>4, <1>7
  <2> HIDE DEF a, b, i, j
  <2>3. CASE outcome = "ready"
    BY <1>5, <1>6, <1>8, <2>1, <2>2, <2>3 DEF Balanced, StatNames, Reasons
  <2>4. CASE outcome = "recycle" /\ few
    BY <1>5, <1>6, <1>8, <2>1, <2>2, <2>4 DEF Balanced, StatNames, Reasons
  <2>5. CASE outcome = "recycle" /\ ~few
    BY <1>5, <1>6, <1>8, <2>1, <2>2, <2>5 DEF Balanced, StatNames, Reasons
  <2>6. CASE outcome = "none"
    BY <1>5, <1>6, <1>8, <2>1, <2>2, <2>6 DEF Balanced, StatNames, Reasons
  <2> QED BY <1>3, <2>3, <2>4, <2>5, <2>6
<1> QED BY <1>9 DEF BlockAccounting

LEMMA PushOpenAccount ==
  ASSUME AccInv, NEW sym \in Symbols, PushOpen(sym)
  PROVE  BlockAccounting'
<1> DEFINE s  == AllocSlot
           st == EvictStats(s)
           fi == EvictFinals(s)
           done == IF slots[s].state = "READY" THEN 1 ELSE 0
           lost == IF slots[s].state = "FILLING" THEN 1 ELSE 0
<1>1. s \in Slots /\ slots[s] \in SlotRec
  BY AllocSlotIn DEF AccInv, IInv, TypeOK
<1>2. /\ StoreIn(s, InitSlot(sym.packet_id), InitSymbols(store[s]), st, fi, sym)
      /\ opened' = opened + 1 /\ opened \in Nat
  BY DEF PushOpen, AccInv, IInv, TypeOK
<1>3. TypeOK /\ TypeOK'
  BY PushOpenStep DEF AccInv, IInv
<1>4. InitSlot(sym.packet_id) \in SlotRec /\ InitSlot(sym.packet_id).state = "FILLING"
  BY <1>3, ParamsAssumption DEF InitSlot, SlotRec, TypeOK
<1> HIDE DEF s
<1>5. /\ st = Bump(Bump(stats, "evicted_done", done), "evicted_filling", lost)
      /\ fi = Bump(Bump(finals, "READY_EVICTED_BEFORE_MARK", done), "EVICTED_BEFORE_DECODE", lost)
      /\ done \in {0, 1} /\ lost \in {0, 1}
  BY DEF EvictStats, EvictFinals, Plus
<1>6. slots[s].state \in {"EMPTY", "FILLING", "READY"}
  BY <1>1 DEF SlotRec
<1>7. 1 - (IF slots[s].state # "EMPTY" THEN 0 ELSE 1) = done + lost
  BY <1>6
<1> HIDE DEF st, fi, done, lost
<1>8. st \in [StatNames -> Nat] /\ fi \in [Reasons -> Nat]
  BY <1>3, <1>5 DEF Bump, StatNames, Reasons, TypeOK
<1>9. /\ st["ready"] = stats["ready"]
      /\ st["failed_holes"] = stats["failed_holes"]
      /\ st["failed_timeout"] = stats["failed_timeout"]
      /\ st["evicted_done"] = stats["evicted_done"] + done
      /\ st["evicted_filling"] = stats["evicted_filling"] + lost
      /\ fi["DECODE_SUCCESS"] = finals["DECODE_SUCCESS"]
      /\ fi["DECODE_FAILED"] = finals["DECODE_FAILED"]
      /\ fi["TIMEOUT"] = finals["TIMEOUT"]
      /\ fi["TOO_MANY_HOLES"] = finals["TOO_MANY_HOLES"]
      /\ fi["READY_EVICTED_BEFORE_MARK"] = finals["READY_EVICTED_BEFORE_MARK"] + done
      /\ fi["EVICTED_BEFORE_DECODE"] = finals["EVICTED_BEFORE_DECODE"] + lost
  BY <1>3, <1>5 DEF Bump, StatNames, Reasons, TypeOK
<1>10. Balanced(opened + 1,
          Cardinality(Active) + (IF slots[s].state # "EMPTY" THEN 0 ELSE 1),
          Cardinality(In("READY")) - (IF slots[s].state = "READY" THEN 1 ELSE 0), st, fi)
  <2> DEFINE i == IF slots[s].state # "EMPTY" THEN 0 ELSE 1
  <2>1. Balanced(opened, Cardinality(Active), Cardinality(In("READY")), stats, finals)
    BY DEF AccInv, BlockAccounting
  <2>2. Cardinality(Active) \in Nat /\ Cardinality(In("READY")) \in Nat
    BY <1>1, <1>3, CountSlotsNat
  <2>3. i \in {0, 1} /\ 1 - i = done + lost
    BY <1>7
  <2>4. /\ \A x \in StatNames : stats[x] \in Nat
        /\ \A x \in Reasons : finals[x] \in Nat
    BY <1>3 DEF TypeOK
  <2> HIDE DEF i
  <2>5. Balanced(opened + 1, Cardinality(Active) + i, Cardinality(In("READY")) - done, st, fi)
    BY <1>2, <1>5, <1>9, <2>1, <2>2, <2>3, <2>4 DEF Balanced, StatNames, Reasons
  <2> QED BY <2>5 DEF i, done
<1> QED BY <1>1, <1>2, <1>3, <1>4, <1>8, <1>10, StoreInAccount

LEMMA PushStoreAccount ==
  ASSUME AccInv, NEW sym \in Symbols, PushStore(sym)
  PROVE  BlockAccounting'
<1> DEFINE s == SlotOf(sym.packet_id)
<1>1. s \in Slots
  BY SlotOfIn DEF PushStore, FindSlotAny
<1>2. /\ slots[s].state = "FILLING"
      /\ StoreIn(s, slots[s], store[s], stats, finals, sym) /\ opened' = opened
  BY DEF PushStore, Collects
<1> HIDE DEF s
<1>3. TypeOK /\ TypeOK'
  BY PushStoreStep DEF AccInv, IInv
<1>4. /\ slots[s] \in SlotRec /\ opened \in Nat
      /\ stats \in [StatNames -> Nat] /\ finals \in [Reasons -> Nat]
  BY <1>1, <1>3 DEF TypeOK
<1>5. Cardinality(Active) \in Nat /\ Cardinality(In("READY")) \in Nat
  BY <1>1, <1>3, CountSlotsNat
<1>6. /\ Cardinality(Active) + (IF slots[s].state # "EMPTY" THEN 0 ELSE 1) = Cardinality(Active)
      /\ Cardinality(In("READY")) - (IF slots[s].state = "READY" THEN 1 ELSE 0)
           = Cardinality(In("READY"))
  BY <1>2, <1>5
<1>7. Balanced(opened,
          Cardinality(Active) + (IF slots[s].state # "EMPTY" THEN 0 ELSE 1),
          Cardinality(In("READY")) - (IF slots[s].state = "READY" THEN 1 ELSE 0), stats, finals)
  BY <1>6 DEF AccInv, BlockAccounting
<1> QED BY <1>1, <1>2, <1>3, <1>4, <1>7, StoreInAccount

LEMMA MarkResultAccount ==
  ASSUME AccInv, NEW id \in Ids, NEW success \in BOOLEAN, MarkResult(id, success)
  PROVE  BlockAccounting'
<1> DEFINE s == SlotOf(id)
           reason == IF success THEN "DECODE_SUCCESS" ELSE "DECODE_FAILED"
<1>1. s \in Slots
  BY SlotOfIn DEF MarkResult, FindSlotAny
<1>2. /\ slots[s].state = "READY" /\ slots' = [slots EXCEPT ![s] = SlotReset]
      /\ finals' = Bump(finals, reason, 1)
      /\ stats' = stats /\ opened' = opened
  BY DEF MarkResult
<1> HIDE DEF s
<1>3. TypeOK /\ SlotReset.state = "EMPTY"
  BY DEF AccInv, IInv, SlotReset
<1>4. /\ Cardinality(Active) \in Nat /\ Cardinality(Active') \in Nat
      /\ Cardinality(In("READY")) \in Nat /\ Cardinality(In("READY")') \in Nat
      /\ Cardinality(Active') + 1 = Cardinality(Active)
      /\ Cardinality(In("READY")') + 1 = Cardinality(In("READY"))
  <2>1. /\ Cardinality(Active') + (IF slots[s].state # "EMPTY" THEN 1 ELSE 0)
             = Cardinality(Active) + (IF SlotReset.state # "EMPTY" THEN 1 ELSE 0)
        /\ Cardinality(In("READY")') + (IF slots[s].state = "READY" THEN 1 ELSE 0)
             = Cardinality(In("READY")) + (IF SlotReset.state = "READY" THEN 1 ELSE 0)
        /\ Cardinality(Active) \in Nat /\ Cardinality(Active') \in Nat
        /\ Cardinality(In("READY")) \in Nat /\ Cardinality(In("READY")') \in Nat
    BY <1>1, <1>2, <1>3, SlotResetOK, CountSlots
  <2> QED BY <1>2, <1>3, <2>1
<1>5. /\ \A x \in StatNames : stats[x] \in Nat
      /\ \A x \in Reasons : finals[x] \in Nat
      /\ opened \in Nat
  BY <1>3 DEF TypeOK
<1>6. /\ reason \in {"DECODE_SUCCESS", "DECODE_FAILED"}
      /\ \A x \in Reasons : finals'[x] = IF x = reason THEN finals[x] + 1 ELSE finals[x]
  BY <1>2, <1>3 DEF Bump, TypeOK
<1> HIDE DEF reason
<1>7. Balanced(opened', Cardinality(Active'), Cardinality(In("READY")'), stats', finals')
  BY <1>2, <1>4, <1>5, <1>6 DEF AccInv, BlockAccounting, Balanced, StatNames, Reasons
<1> QED BY <1>7 DEF BlockAccounting

LEMMA DisjointUnion ==
  ASSUME NEW S, NEW T, IsFiniteSet(S), IsFiniteSet(T), S \cap T = {}
  PROVE  Cardinality(S \cup T) = Cardinality(S) + Cardinality(T)
<1>1. Cardinality(S \cup T) = Cardinality(S) + Cardinality(T) - Cardinality(S \cap T)
  BY FS_Union
<1>2. Cardinality(S \cap T) = 0
  BY FS_EmptySet
<1>3. Cardinality(S) \in Nat /\ Cardinality(T) \in Nat
  BY FS_CardinalityType
<1> QED BY <1>1, <1>2, <1>3

LEMMA TickAccount ==
  ASSUME AccInv, NEW o \in Int, Tick(o)
  PROVE  BlockAccounting'
<1> DEFINE outcome == [s \in Slots |->
                         IF slots[s].state = "FILLING"
                         THEN MaybeFreeze(slots[s], HardTimeout(o)) ELSE "none"]
           ready    == {s \in Slots : outcome[s] = "ready"}
           holes    == {s \in Slots : outcome[s] = "recycle" /\ N - slots[s].valid > MaxHoles}
           timeouts == {s \in Slots : outcome[s] = "recycle" /\ ~(N - slots[s].valid > MaxHoles)}
<1>1. /\ slots' = [s \in Slots |-> Settle(slots[s], outcome[s])]
      /\ stats' = Bump(Bump(Bump(stats, "ready", Cardinality(ready)),
                           "failed_holes", Cardinality(holes)),
                      "failed_timeout", Cardinality(timeouts))
      /\ finals' = Bump(Bump(finals, "TOO_MANY_HOLES", Cardinality(holes)),
                       "TIMEOUT", Cardinality(timeouts))
      /\ opened' = opened
  BY DEF Tick
<1>2. TypeOK
  BY DEF AccInv, IInv
<1>3. ASSUME NEW s \in Slots
      PROVE  /\ slots[s] \in SlotRec
             /\ outcome[s] \in {"ready", "recycle", "none"}
             /\ outcome[s] # "none" => slots[s].state = "FILLING"
             /\ outcome[s] = "ready" => slots'[s].state = "READY"
             /\ outcome[s] = "recycle" => slots'[s].state = "EMPTY"
             /\ outcome[s] = "none" => slots'[s].state = slots[s].state
  BY <1>1, <1>2 DEF TypeOK, Settle, SlotReset, SlotRec, MaybeFreeze
<1>4. /\ Active' = Active \ (holes \cup timeouts)
      /\ In("READY")' = In("READY") \cup ready
      /\ holes \cup timeouts \subseteq Active
      /\ holes \cap timeouts = {} /\ In("READY") \cap ready = {}
  BY <1>3 DEF Active, In
<1>5. /\ ready \in SUBSET Slots /\ holes \in SUBSET Slots /\ timeouts \in SUBSET Slots
      /\ Active \in SUBSET Slots /\ In("READY") \in SUBSET Slots
  BY DEF Active, In
<1> HIDE DEF outcome, ready, holes, timeouts
<1>6. /\ IsFiniteSet(ready) /\ IsFiniteSet(holes) /\ IsFiniteSet(timeouts)
      /\ IsFiniteSet(Active) /\ IsFiniteSet(In("READY"))
  BY <1>5, SlotsNat, FS_Subset
<1>7. /\ Cardinality(ready) \in Nat /\ Cardinality(holes) \in Nat
      /\ Cardinality(timeouts) \in Nat
      /\ Cardinality(Active) \in Nat /\ Cardinality(In("READY")) \in Nat
  BY <1>6, FS_CardinalityType
<1>8. Cardinality(Active') = Cardinality(Active) - (Cardinality(holes) + Cardinality(timeouts))
  <2>1. Cardinality(holes \cup timeouts) = Cardinality(holes) + Cardinality(timeouts)
    BY <1>4, <1>6, DisjointUnion
  <2>2. Active \cap (holes \cup timeouts) = holes \cup timeouts
    BY <1>4
  <2>3. Cardinality(Active \ (holes \cup timeouts))
          = Cardinality(Active) - Cardinality(Active \cap (holes \cup timeouts))
    BY <1>6, FS_Difference
  <2> QED BY <1>4, <2>1, <2>2, <2>3
<1>9. Cardinality(In("READY")') = Cardinality(In("READY")) + Cardinality(ready)
  BY <1>4, <1>6, DisjointUnion
<1>10. /\ stats'["ready"] = stats["ready"] + Cardinality(ready)
       /\ stats'["failed_holes"] = stats["failed_holes"] + Cardinality(holes)
       /\ stats'["failed_timeout"] = stats["failed_timeout"] + Cardinality(timeouts)
       /\ stats'["evicted_done"] = stats["evicted_done"]
       /\ stats'["evicted_filling"] = stats["evicted_filling"]
  BY <1>1, <1>2, <1>7 DEF Bump, StatNames, TypeOK
<1>11. /\ finals'["TOO_MANY_HOLES"] = finals["TOO_MANY_HOLES"] + Cardinality(holes)
       /\ finals'["TIMEOUT"] = finals["TIMEOUT"] + Cardinality(timeouts)
       /\ \A x \in Reasons \ {"TOO_MANY_HOLES", "TIMEOUT"} : finals'[x] = finals[x]
  BY <1>1, <1>2, <1>7 DEF Bump, Reasons, TypeOK
<1>12. /\ \A x \in StatNames : stats[x] \in Nat
       /\ \A x \in Reasons : finals[x] \in Nat
       /\ opened \in Nat
  BY <1>2 DEF TypeOK
<1>13. Balanced(opened', Cardinality(Active'), Cardinality(In("READY")'), stats', finals')
  <2>1. Balanced(opened, Cardinality(Active), Cardinality(In("READY")), stats, finals)
    BY DEF AccInv, BlockAccounting
  <2> DEFINE nr == Cardinality(ready)
             nh == Cardinality(holes)
             nt == Cardinality(timeouts)
             na == Cardinality(Active)
             nb == Cardinality(In("READY"))
  <2>2. /\ nr \in Nat /\ nh \in Nat /\ nt \in Nat /\ na \in Nat /\ nb \in Nat
        /\ Cardinality(Active') = na - (nh + nt) /\ Cardinality(In("READY")') = nb + nr
    BY <1>7, <1>8, <1>9
  <2> HIDE DEF nr, nh, nt, na, nb
  <2> QED BY <1>1, <1>10, <1>11, <1>12, <2>1, <2>2
      DEF nr, nh, nt, na, nb, Balanced, StatNames, Reasons
<1> QED BY <1>13 DEF BlockAccounting

LEMMA DropAccount ==
  ASSUME AccInv, NEW x \in {"duplicate", "frozen", "erasure", "crc_fail"}, Drop(x)
  PROVE  BlockAccounting'
<1>1. UNCHANGED <<slots, finals, opened>> /\ stats' = Bump(stats, x, 1)
  BY DEF Drop
<1>2. \A y \in {"ready", "failed_holes", "failed_timeout", "evicted_done", "evicted_filling"} :
        stats'[y] = stats[y]
  BY <1>1 DEF Bump, StatNames, AccInv, IInv, TypeOK
<1>3. Active' = Active /\ In("READY")' = In("READY")
  BY <1>1 DEF Active, In
<1> QED BY <1>1, <1>2, <1>3 DEF AccInv, BlockAccounting, Balanced

LEMMA NextAccInv == AccInv /\ [Next]_vars => AccInv'
<1> SUFFICES ASSUME AccInv, [Next]_vars PROVE BlockAccounting'
  BY NextIInv DEF AccInv
<1>1. ASSUME NEW sym \in Symbols, PushSymbol(sym) PROVE BlockAccounting'
  <2>1. CASE PushErasure(sym)
    BY <2>1, DropAccount DEF PushErasure
  <2>2. CASE PushFrozen(sym)
    BY <2>2, DropAccount DEF PushFrozen
  <2>3. CASE PushDuplicate(sym)
    BY <2>3, DropAccount DEF PushDuplicate
  <2>4. CASE PushStore(sym)
    BY <2>4, PushStoreAccount
  <2>5. CASE PushOpen(sym)
    BY <2>5, PushOpenAccount
  <2> QED BY <1>1, <2>1, <2>2, <2>3, <2>4, <2>5 DEF PushSymbol
<1>2. ASSUME NEW id \in Ids, NEW success \in BOOLEAN, MarkResult(id, success)
      PROVE  BlockAccounting'
  BY <1>2, MarkResultAccount
<1>3. ASSUME NEW o \in Overrides, Tick(o) PROVE BlockAccounting'
  BY <1>3, TickAccount, ParamsAssumption
<1>4. CASE IncCrcDrop
  BY <1>4, DropAccount DEF IncCrcDrop
<1>5. CASE Advance \/ UNCHANGED vars
  BY <1>5 DEF Advance, vars, AccInv, BlockAccounting, Active, In
<1> QED BY <1>1, <1>2, <1>3, <1>4, <1>5 DEF Next

\* Whatever the deinterleaver is asked to do, every block it opens is closed by
\* exactly one final report, and blocks_ready, blocks_failed_*, evicted_* in
\* dil_stats_t agree with what was reported.
THEOREM BooksBalance == Spec => []BlockAccounting
<1>1. Spec => []AccInv
  BY InitAccInv, NextAccInv, PTL DEF Spec
<1>2. AccInv => BlockAccounting
  BY DEF AccInv
<1> QED BY <1>1, <1>2, PTL

-----------------------------------------------------------------------------
(* The Freeze Rule                                                           *)

Frozen(s) == slots'[s] = slots[s] /\ store'[s] = store[s]

LEMMA StoreInElsewhere ==
  ASSUME TypeOK, NEW s \in Slots, NEW t \in Slots, t # s,
         NEW sl, NEW syms, NEW st, NEW fi, NEW sym, StoreIn(s, sl, syms, st, fi, sym)
  PROVE  Frozen(t)
BY DEF StoreIn, Frozen, TypeOK

LEMMA FreezeStep ==
  ASSUME IInv, Next, NEW s \in Slots, slots[s].state = "READY"
  PROVE  Frozen(s) \/ finals' # finals
<1>1. ASSUME NEW x, Drop(x) PROVE Frozen(s)
  BY <1>1 DEF Drop, Frozen
<1>2. ASSUME NEW sym \in Symbols, PushStore(sym) PROVE Frozen(s)
  <2>1. /\ SlotOf(sym.packet_id) \in Slots /\ SlotOf(sym.packet_id) # s
    BY <1>2, SlotOfIn DEF PushStore, Collects, FindSlotAny
  <2> QED BY <1>2, <2>1, StoreInElsewhere DEF PushStore, IInv
<1>3. ASSUME NEW sym \in Symbols, PushOpen(sym) PROVE Frozen(s) \/ finals' # finals
  <2>1. AllocSlot \in Slots
    BY AllocSlotIn DEF IInv, TypeOK
  <2>2. CASE AllocSlot # s
    BY <1>3, <2>1, <2>2, StoreInElsewhere DEF PushOpen, IInv
  <2>3. CASE AllocSlot = s
    <3> DEFINE x == "READY_EVICTED_BEFORE_MARK"
               fi == EvictFinals(s)
    <3>1. StoreIn(s, InitSlot(sym.packet_id), InitSymbols(store[s]), EvictStats(s), fi, sym)
      BY <1>3, <2>3 DEF PushOpen
    <3>2. fi = Bump(Bump(finals, x, 1), "EVICTED_BEFORE_DECODE", 0)
      BY DEF EvictFinals, Plus
    <3>3. fi \in [Reasons -> Nat] /\ fi[x] = finals[x] + 1 /\ finals[x] \in Nat
      BY <3>2 DEF Bump, Reasons, IInv, TypeOK
    <3> HIDE DEF fi
    <3>4. finals'[x] = fi[x]
      BY <3>1, <3>3 DEF StoreIn, Bump, RecycleReason, Reasons
    <3> QED BY <3>3, <3>4
  <2> QED BY <2>2, <2>3
<1>4. ASSUME NEW id \in Ids, NEW success \in BOOLEAN, MarkResult(id, success)
      PROVE  finals' # finals
  <2> DEFINE x == IF success THEN "DECODE_SUCCESS" ELSE "DECODE_FAILED"
  <2>1. finals' = Bump(finals, x, 1) /\ x \in Reasons
    BY <1>4 DEF MarkResult, Reasons
  <2> HIDE DEF x
  <2>2. finals'[x] = finals[x] + 1 /\ finals[x] \in Nat
    BY <2>1 DEF Bump, IInv, TypeOK
  <2> QED BY <2>2
<1>5. ASSUME NEW o \in Overrides, Tick(o) PROVE Frozen(s)
  BY <1>5 DEF Tick, Settle, Frozen
<1>6. Advance => Frozen(s)
  BY DEF Advance, Frozen
<1> QED BY <1>1, <1>2, <1>3, <1>4, <1>5, <1>6
    DEF Next, PushSymbol, PushErasure, PushFrozen, PushDuplicate, IncCrcDrop

\* Until it is marked or evicted - both of which are reported - a frozen block
\* is never touched: the pointer get_ready_block() returned stays valid while
\* the pipeline decodes it.
THEOREM FreezeRuleHolds == Spec => FreezeRule
<1>1. IInv /\ [Next]_vars => [FrozenBlocksStay]_vars
  <2> SUFFICES ASSUME IInv, Next PROVE FrozenBlocksStay
    OBVIOUS
  <2> QED BY FreezeStep DEF Frozen, FrozenBlocksStay
<1> QED BY <1>1, SpecIInv, PTL DEF Spec, FreezeRule

-----------------------------------------------------------------------------
(* The refinement: a block has at most one slot, so what the table does to a *)
(* slot is what happens to one block.                                        *)

Holds(s, id) == slots[s].state # "EMPTY" /\ slots[s].block_id = id

\* The phase and the symbols of a block are those of the slot that holds it, and
\* there are no more blocks in hand than slots.
Mapped ==
  /\ \A id \in Ids, s \in Slots : Holds(s, id) =>
       PhaseOf[id] = slots[s].state /\ GotOf[id] = slots[s].mask
  /\ \A id \in Ids : (\A s \in Slots : ~Holds(s, id)) =>
       PhaseOf[id] = "EMPTY" /\ GotOf[id] = {}
  /\ Cardinality({id \in Ids : PhaseOf[id] # "EMPTY"}) <= MaxActive

LEMMA MappedHolds == IInv => Mapped
<1> SUFFICES ASSUME IInv PROVE Mapped
  OBVIOUS
<1>1. ASSUME NEW id \in Ids, NEW s \in Slots, Holds(s, id)
      PROVE  PhaseOf[id] = slots[s].state /\ GotOf[id] = slots[s].mask
  <2>1. s \in FindSlotAny(id)
    BY <1>1 DEF Holds, FindSlotAny
  <2>2. SlotOf(id) \in FindSlotAny(id)
    BY <2>1, SlotOfIn
  <2>3. SlotOf(id) = s
    BY <2>1, <2>2 DEF FindSlotAny, IInv, UniqueBlocks
  <2> QED
    BY <2>1, <2>3 DEF PhaseOf, GotOf
<1>2. ASSUME NEW id \in Ids, \A s \in Slots : ~Holds(s, id)
      PROVE  PhaseOf[id] = "EMPTY" /\ GotOf[id] = {}
  <2>1. FindSlotAny(id) = {}
    BY <1>2 DEF Holds, FindSlotAny
  <2> QED
    BY <2>1 DEF PhaseOf, GotOf
<1>3. Cardinality({id \in Ids : PhaseOf[id] # "EMPTY"}) <= MaxActive
  <2> DEFINE inHand == {id \in Ids : PhaseOf[id] # "EMPTY"}
             f == [id \in inHand |-> SlotOf(id)]
  <2>1. ASSUME NEW id \in inHand PROVE SlotOf(id) \in Slots /\ slots[SlotOf(id)].block_id = id
    <3>1. FindSlotAny(id) # {}
      BY <1>2 DEF Holds, FindSlotAny
    <3> QED
      BY <3>1, SlotOfIn DEF FindSlotAny
  <2>2. f \in [inHand -> Slots] /\ \A i, j \in inHand : f[i] = f[j] => i = j
    BY <2>1
  <2> HIDE DEF f, inHand
  <2>3. f \in Injection(inHand, Slots)
    BY <2>2 DEF Injection, IsInjective
  <2>4. Cardinality(inHand) <= Cardinality(Slots)
    BY <2>3, SlotsNat, FS_Injection
  <2>5. Cardinality(Slots) = MaxActive
    <3>1. 0 \in Int /\ MaxActive - 1 \in Int /\ ~(0 > MaxActive - 1)
      BY ParamsAssumption
    <3>2. Cardinality(0 .. MaxActive - 1) = MaxActive - 1 - 0 + 1
      BY <3>1, FS_Interval
    <3> QED
      BY <3>2, ParamsAssumption DEF Slots
  <2> QED
    BY <2>4, <2>5 DEF inHand
<1> QED
  BY <1>1, <1>2, <1>3 DEF Mapped

\* The two modules count alike.
LEMMA SameCardinality ==
  ASSUME NEW S
  PROVE  Lifecycle!Cardinality(S) = Cardinality(S)
BY DEF Lifecycle!Cardinality, Cardinality

LEMMA InitLifecycle == Init => Lifecycle!Init
<1> SUFFICES ASSUME Init PROVE Lifecycle!Init
  OBVIOUS
<1>1. \A id : FindSlotAny(id) = {}
  BY DEF Init, FindSlotAny, SlotReset
<1> QED
  BY <1>1 DEF Lifecycle!Init, PhaseOf, GotOf

-----------------------------------------------------------------------------
(* What a step may do to a slot                                              *)

Emptied(s) == slots'[s].state = "EMPTY"

Left(s) ==
  /\ slots'[s].state = slots[s].state /\ slots'[s].block_id = slots[s].block_id
  /\ slots'[s].mask = slots[s].mask

\* A block goes on collecting, or is frozen with what it has.
Settled(s) ==
  /\ slots[s].state = "FILLING" /\ slots'[s].state \in {"FILLING", "READY"}
  /\ slots'[s].block_id = slots[s].block_id /\ slots'[s].mask = slots[s].mask

\* ... or stores one symbol before that.
Stores(s) ==
  /\ slots[s].state = "FILLING" /\ slots'[s].state \in {"FILLING", "READY"}
  /\ slots'[s].block_id = slots[s].block_id
  /\ \E f \in FecIds : slots'[s].mask = slots[s].mask \cup {f}

\* A slot is given to a block that had none, with its first symbol.
Opens(s) ==
  /\ slots'[s].state \in {"FILLING", "READY"}
  /\ \A t \in Slots : ~Holds(t, slots'[s].block_id)
  /\ \E f \in FecIds : slots'[s].mask = {f}

Quiet(s) == Emptied(s) \/ Left(s) \/ Settled(s)

\* In a step one slot may take a symbol; the others take none.
SlotStep ==
  \E s \in Slots : /\ Quiet(s) \/ Stores(s) \/ Opens(s)
                   /\ \A t \in Slots \ {s} : Quiet(t)

LEMMA SettleMoves ==
  ASSUME NEW sl, sl \in SlotRec, NEW hard, NEW r, r = Settle(sl, MaybeFreeze(sl, hard))
  PROVE  \/ r.state = "EMPTY"
         \/ /\ r.state \in {sl.state, "READY"}
            /\ r.block_id = sl.block_id /\ r.mask = sl.mask
<1>1. CASE MaybeFreeze(sl, hard) = "ready"
  BY <1>1 DEF Settle, SlotRec
<1>2. CASE MaybeFreeze(sl, hard) = "recycle"
  BY <1>2 DEF Settle, SlotReset
<1>3. CASE MaybeFreeze(sl, hard) \notin {"ready", "recycle"}
  BY <1>3 DEF Settle
<1> QED
  BY <1>1, <1>2, <1>3

\* The tail of push_symbol(), seen from the slot
LEMMA StoreInMoves ==
  ASSUME IInv, NEW s \in Slots, NEW sl \in SlotRec, sl.state = "FILLING",
         NEW syms, NEW st, NEW fi, NEW sym \in Symbols, sym.fec_id \in FecIds \ sl.mask,
         sl.valid = Cardinality(sl.mask),
         StoreIn(s, sl, syms, st, fi, sym)
  PROVE  /\ \A t \in Slots \ {s} : slots'[t] = slots[t]
         /\ \/ slots'[s].state = "EMPTY"
            \/ /\ slots'[s].state \in {"FILLING", "READY"}
               /\ slots'[s].block_id = sl.block_id
               /\ slots'[s].mask = sl.mask \cup {sym.fec_id}
<1> DEFINE filled == [sl EXCEPT !.mask = @ \cup {sym.fec_id}, !.valid = @ + 1, !.last = now]
           r      == Settle(filled, MaybeFreeze(filled, HardTimeout(-1)))
<1>1. slots' = [slots EXCEPT ![s] = r]
  BY DEF StoreIn
<1>2. slots \in [Slots -> SlotRec] /\ now \in Nat
  BY DEF IInv, TypeOK
<1>3. Counted(filled)
  BY <1>2, FilledOK
<1>4. filled \in SlotRec /\ filled.state = "FILLING"
  BY <1>3 DEF Counted
<1>5. filled.block_id = sl.block_id /\ filled.mask = sl.mask \cup {sym.fec_id}
  BY DEF SlotRec
<1> HIDE DEF filled
<1>6. \/ r.state = "EMPTY"
      \/ /\ r.state \in {filled.state, "READY"}
         /\ r.block_id = filled.block_id /\ r.mask = filled.mask
  BY <1>4, SettleMoves
<1> HIDE DEF r
<1>7. slots'[s] = r /\ \A t \in Slots \ {s} : slots'[t] = slots[t]
  BY <1>1, <1>2
<1> QED
  BY <1>4, <1>5, <1>6, <1>7

LEMMA SlotMoves == IInv /\ [Next]_vars => SlotStep
<1> SUFFICES ASSUME IInv, [Next]_vars PROVE SlotStep
  OBVIOUS
<1>1. slots \in [Slots -> SlotRec] /\ 0 \in Slots
  BY SlotsNat DEF IInv, TypeOK
<1>2. ASSUME \A t \in Slots : Quiet(t) PROVE SlotStep
  BY <1>1, <1>2 DEF SlotStep
<1>3. ASSUME slots' = slots PROVE SlotStep
  BY <1>2, <1>3 DEF Quiet, Left
<1>4. ASSUME NEW sym \in Symbols, PushStore(sym) PROVE SlotStep
  <2> DEFINE s == SlotOf(sym.packet_id)
  <2>1. s \in Slots
    BY <1>4, SlotOfIn DEF PushStore, FindSlotAny
  <2>2. /\ slots[s].state = "FILLING" /\ sym.fec_id \in FecIds \ slots[s].mask
        /\ StoreIn(s, slots[s], store[s], stats, finals, sym)
    BY <1>4 DEF PushStore, Collects, Acceptable
  <2> HIDE DEF s
  <2>3. slots[s] \in SlotRec /\ slots[s].valid = Cardinality(slots[s].mask)
    BY <1>1, <2>1 DEF IInv, ReadyDecodable, Decodable
  <2>4. /\ \A t \in Slots \ {s} : slots'[t] = slots[t]
        /\ \/ slots'[s].state = "EMPTY"
           \/ /\ slots'[s].state \in {"FILLING", "READY"}
              /\ slots'[s].block_id = slots[s].block_id
              /\ slots'[s].mask = slots[s].mask \cup {sym.fec_id}
    BY <2>1, <2>2, <2>3, StoreInMoves
  <2>5. \A t \in Slots \ {s} : Quiet(t)
    BY <2>4 DEF Quiet, Left
  <2>6. Quiet(s) \/ Stores(s)
    BY <2>2, <2>4 DEF Quiet, Emptied, Stores
  <2> QED
    BY <2>1, <2>5, <2>6 DEF SlotStep
<1>5. ASSUME NEW sym \in Symbols, PushOpen(sym) PROVE SlotStep
  <2> DEFINE s  == AllocSlot
             sl == InitSlot(sym.packet_id)
  <2>1. s \in Slots
    BY <1>1, AllocSlotIn
  <2>2. /\ sym.packet_id \in Ids /\ sym.fec_id \in FecIds
        /\ FindSlotAny(sym.packet_id) = {}
        /\ StoreIn(s, sl, InitSymbols(store[s]), EvictStats(s), EvictFinals(s), sym)
    BY <1>5, ParamsAssumption DEF PushOpen, Acceptable
  <2> HIDE DEF s
  <2>3. /\ sl.state = "FILLING" /\ sl.block_id = sym.packet_id /\ sl.mask = {} /\ sl.valid = 0
        /\ sl \in SlotRec
    BY <2>2, ParamsAssumption DEF InitSlot, SlotRec, IInv, TypeOK
  <2> HIDE DEF sl
  <2>4. sl.valid = Cardinality(sl.mask)
    BY <2>3, FS_EmptySet
  <2>5. sym.fec_id \in FecIds \ sl.mask
    BY <2>2, <2>3
  <2>6. /\ \A t \in Slots \ {s} : slots'[t] = slots[t]
        /\ \/ slots'[s].state = "EMPTY"
           \/ /\ slots'[s].state \in {"FILLING", "READY"}
              /\ slots'[s].block_id = sl.block_id
              /\ slots'[s].mask = sl.mask \cup {sym.fec_id}
    <3>1. s \in Slots /\ sl \in SlotRec /\ sl.state = "FILLING" /\ sl.valid = Cardinality(sl.mask)
      BY <2>1, <2>3, <2>4
    <3> QED BY <1>1, <1>5, <2>2, <2>5, <3>1, StoreInMoves, SMTT(30)
  <2>7. \A t \in Slots \ {s} : Quiet(t)
    BY <2>6 DEF Quiet, Left
  <2>8. \A t \in Slots : ~Holds(t, sym.packet_id)
    BY <2>2 DEF FindSlotAny, Holds
  <2>9. Quiet(s) \/ Opens(s)
    <3>1. CASE slots'[s].state = "EMPTY"
      BY <3>1 DEF Quiet, Emptied
    <3>2. CASE slots'[s].state # "EMPTY"
      <4>1. /\ slots'[s].state \in {"FILLING", "READY"}
            /\ slots'[s].block_id = sym.packet_id /\ slots'[s].mask = {sym.fec_id}
        BY <2>3, <2>6, <3>2
      <4> QED
        BY <2>2, <2>8, <4>1 DEF Opens
    <3> QED
      BY <3>1, <3>2
  <2> QED
    BY <2>1, <2>7, <2>9 DEF SlotStep
<1>6. ASSUME NEW id \in Ids, NEW success \in BOOLEAN, MarkResult(id, success) PROVE SlotStep
  <2>1. slots' = [slots EXCEPT ![SlotOf(id)] = SlotReset] /\ SlotReset.state = "EMPTY"
    BY <1>6 DEF MarkResult, SlotReset
  <2>2. \A t \in Slots : slots'[t] = slots[t] \/ slots'[t].state = "EMPTY"
    BY <1>1, <2>1
  <2> QED
    BY <1>2, <2>2 DEF Quiet, Emptied, Left
<1>7. ASSUME NEW o \in Overrides, Tick(o) PROVE SlotStep
  <2>1. ASSUME NEW t \in Slots PROVE Quiet(t)
    <3>1. slots[t] \in SlotRec
      BY <1>1
    <3>2. CASE slots[t].state = "FILLING"
      <4>1. slots'[t] = Settle(slots[t], MaybeFreeze(slots[t], HardTimeout(o)))
        BY <1>7, <3>2 DEF Tick
      <4>2. \/ slots'[t].state = "EMPTY"
            \/ /\ slots'[t].state \in {slots[t].state, "READY"}
               /\ slots'[t].block_id = slots[t].block_id /\ slots'[t].mask = slots[t].mask
        BY <3>1, <4>1, SettleMoves
      <4> QED
        BY <3>2, <4>2 DEF Quiet, Emptied, Settled
    <3>3. CASE slots[t].state # "FILLING"
      <4>1. slots'[t] = slots[t]
        BY <1>7, <3>3 DEF Tick, Settle
      <4> QED
        BY <4>1 DEF Quiet, Left
    <3> QED
      BY <3>2, <3>3
  <2> QED
    BY <1>2, <2>1
<1>8. CASE IncCrcDrop \/ Advance \/ UNCHANGED vars
  BY <1>3, <1>8 DEF IncCrcDrop, Drop, Advance, vars
<1>9. ASSUME NEW sym \in Symbols, PushErasure(sym) \/ PushFrozen(sym) \/ PushDuplicate(sym)
      PROVE  SlotStep
  BY <1>3, <1>9 DEF PushErasure, PushFrozen, PushDuplicate, Drop
<1> QED
  BY <1>4, <1>5, <1>6, <1>7, <1>8, <1>9 DEF Next, PushSymbol

-----------------------------------------------------------------------------
(* What that does to a block                                                 *)

BlockMove(id) == Lifecycle!Collect(id) \/ Lifecycle!Close(id) \/ Lifecycle!Keep(id)

\* A block in a slot goes on there or is closed; one that was in none may be opened.
LEMMA BlockMoves ==
  ASSUME IInv, IInv', Mapped, Mapped', SlotStep, NEW id \in Ids
  PROVE  BlockMove(id)
<1>0. PICK s \in Slots : /\ Quiet(s) \/ Stores(s) \/ Opens(s)
                         /\ \A t \in Slots \ {s} : Quiet(t)
  BY DEF SlotStep
<1>1. CASE \A t \in Slots : ~Holds(t, id)'
  <2>1. PhaseOf'[id] = "EMPTY" /\ GotOf'[id] = {}
    BY <1>1 DEF Mapped
  <2> QED
    BY <2>1 DEF BlockMove, Lifecycle!Close
<1>2. ASSUME NEW t \in Slots, Holds(t, id)' PROVE BlockMove(id)
  <2>1. PhaseOf'[id] = slots'[t].state /\ GotOf'[id] = slots'[t].mask
    BY <1>2 DEF Mapped
  <2>2. slots'[t].state # "EMPTY" /\ slots'[t].block_id = id
    BY <1>2 DEF Holds
  <2>3. slots'[t].state = "READY" => Cardinality(slots'[t].mask) >= K
    BY DEF IInv, ReadyDecodable, Decodable
  <2>4. slots'[t].state = "FILLING" => slots'[t].mask # {}
    BY DEF IInv, ReadyDecodable, Decodable
  <2>5. slots'[t].state = "READY" => slots'[t].mask # {}
    <3>1. Cardinality({}) = 0 /\ K \in Nat /\ K >= 1
      BY FS_EmptySet, ParamsAssumption
    <3> QED
      BY <2>3, <3>1
  <2>6. slots'[t].state \in {"EMPTY", "FILLING", "READY"}
    BY DEF IInv, TypeOK, SlotRec
  <2>7. ASSUME PhaseOf[id] \in {"EMPTY", "FILLING"}, Lifecycle!Accepts(id)
        PROVE  BlockMove(id)
    BY <2>1, <2>2, <2>3, <2>4, <2>5, <2>6, <2>7, SameCardinality
       DEF BlockMove, Lifecycle!Collect
  <2>8. CASE Left(t)
    <3>1. Holds(t, id)
      BY <2>2, <2>8 DEF Left, Holds
    <3>2. PhaseOf[id] = slots[t].state /\ GotOf[id] = slots[t].mask
      BY <3>1 DEF Mapped
    <3> QED
      BY <2>1, <2>8, <3>2 DEF Left, BlockMove, Lifecycle!Keep
  <2>9. CASE Settled(t) \/ Stores(t)
    <3>1. Holds(t, id) /\ slots[t].state = "FILLING"
      BY <2>2, <2>9 DEF Settled, Stores, Holds
    <3>2. PhaseOf[id] = "FILLING" /\ GotOf[id] = slots[t].mask
      BY <3>1 DEF Mapped
    <3>3. Lifecycle!Accepts(id)
      BY <2>1, <2>9, <3>2 DEF Settled, Stores, Lifecycle!Accepts
    <3> QED
      BY <2>7, <3>2, <3>3
  <2>10. CASE Opens(t)
    <3>1. PhaseOf[id] = "EMPTY" /\ GotOf[id] = {}
      BY <2>2, <2>10 DEF Opens, Mapped
    <3>2. Lifecycle!Accepts(id)
      BY <2>1, <2>10, <3>1 DEF Opens, Lifecycle!Accepts
    <3> QED
      BY <2>7, <3>1, <3>2
  <2> QED
    BY <1>0, <2>2, <2>8, <2>9, <2>10 DEF Quiet, Emptied
<1> QED
  BY <1>1, <1>2

\* Only the block of the slot that takes a symbol gains one.
LEMMA OneGains ==
  ASSUME IInv, Mapped, Mapped', SlotStep,
         NEW i \in Ids, NEW j \in Ids, Lifecycle!Gains(i), Lifecycle!Gains(j)
  PROVE  i = j
<1>0. PICK s \in Slots : \A t \in Slots \ {s} : Quiet(t)
  BY DEF SlotStep
<1>1. ASSUME NEW id \in Ids, Lifecycle!Gains(id) PROVE Holds(s, id)'
  <2>1. ~(GotOf'[id] \subseteq GotOf[id])
    BY <1>1 DEF Lifecycle!Gains
  <2>2. PICK t \in Slots : Holds(t, id)'
    BY <2>1 DEF Mapped
  <2>3. GotOf'[id] = slots'[t].mask
    BY <2>2 DEF Mapped
  <2>4. ASSUME t # s PROVE FALSE
    <3>1. Left(t) \/ Settled(t)
      BY <1>0, <2>2, <2>4 DEF Quiet, Emptied, Holds
    <3>2. Holds(t, id) /\ slots'[t].mask = slots[t].mask
      BY <2>2, <3>1 DEF Left, Settled, Holds
    <3>3. GotOf[id] = slots[t].mask
      BY <3>2 DEF Mapped
    <3> QED
      BY <2>1, <2>3, <3>2, <3>3
  <2> QED
    BY <2>2, <2>4
<1>2. Holds(s, i)' /\ Holds(s, j)'
  BY <1>1
<1> QED
  BY <1>2 DEF Holds

LEMMA NextLifecycle == IInv /\ IInv' /\ [Next]_vars => Lifecycle!Next
<1> SUFFICES ASSUME IInv, IInv', [Next]_vars PROVE Lifecycle!Next
  OBVIOUS
<1>1. Mapped /\ Mapped'
  BY MappedHolds, PTL
<1>2. SlotStep
  BY SlotMoves
<1>3. \A id \in Ids : Lifecycle!Collect(id) \/ Lifecycle!Close(id) \/ Lifecycle!Keep(id)
  BY <1>1, <1>2, BlockMoves DEF BlockMove
<1>4. \A i, j \in Ids : Lifecycle!Gains(i) /\ Lifecycle!Gains(j) => i = j
  BY <1>1, <1>2, OneGains
<1>5. Cardinality({id \in Ids : PhaseOf'[id] # "EMPTY"}) <= MaxActive
  BY <1>1 DEF Mapped
<1> QED
  BY <1>3, <1>4, <1>5, SameCardinality DEF Lifecycle!Next

\* The slot table implements the lifecycle that include/deinterleaver.h draws:
\* whichever slots blocks are moved through, evicted from and given again, a
\* block collects, is frozen decodable and stays as it is until it is closed.
THEOREM TableImplementsLifecycle == Spec => ImplementsLifecycle
<1>1. Init => Lifecycle!Init
  BY InitLifecycle
<1>2. IInv /\ IInv' /\ [Next]_vars => [Lifecycle!Next]_(Lifecycle!vars)
  BY NextLifecycle
<1> QED
  BY <1>1, <1>2, SpecIInv, PTL DEF Spec, ImplementsLifecycle, Lifecycle!Spec

-----------------------------------------------------------------------------
(* What a call does to the symbols of a block, for the pipeline that calls   *)

\* A block stays in its slot, with the symbols it has.
Kept(t) ==
  /\ slots[t].state # "EMPTY" /\ slots'[t].block_id = slots[t].block_id
  /\ slots'[t].mask = slots[t].mask /\ store'[t] = store[t]

\* Symbol sym is stored in slot t, its first or one more.
Takes(t, sym) ==
  /\ Acceptable(sym) /\ slots'[t].block_id = sym.packet_id
  /\ store'[t][sym.fec_id] = [packet_id |-> sym.packet_id, meta |-> sym.meta]
  /\ \/ slots'[t].mask = {sym.fec_id}
     \/ /\ slots[t].state # "EMPTY" /\ slots[t].block_id = sym.packet_id
        /\ slots'[t].mask = slots[t].mask \cup {sym.fec_id} /\ sym.fec_id \notin slots[t].mask
        /\ \A f \in FecIds \ {sym.fec_id} : store'[t][f] = store[t][f]

\* deinterleaver_push_symbol() stores the symbol with its own block, if at all.
LEMMA PushMoves ==
  ASSUME IInv, NEW sym \in Symbols, PushSymbol(sym),
         NEW t \in Slots, slots'[t].state # "EMPTY"
  PROVE  Kept(t) \/ Takes(t, sym)
<1>1. slots \in [Slots -> SlotRec] /\ store \in [Slots -> [FecIds -> Stored]]
  BY DEF IInv, TypeOK
<1>2. CASE slots' = slots /\ store' = store
  BY <1>2 DEF Kept
<1>3. CASE PushErasure(sym) \/ PushFrozen(sym) \/ PushDuplicate(sym)
  BY <1>2, <1>3 DEF PushErasure, PushFrozen, PushDuplicate, Drop
<1>4. CASE PushStore(sym)
  <2> DEFINE s == SlotOf(sym.packet_id)
  <2>1. s \in Slots /\ slots[s].block_id = sym.packet_id
    BY <1>4, SlotOfIn DEF PushStore, FindSlotAny
  <2>2. /\ slots[s].state = "FILLING" /\ sym.fec_id \in FecIds \ slots[s].mask
        /\ Acceptable(sym)
        /\ StoreIn(s, slots[s], store[s], stats, finals, sym)
    BY <1>4 DEF PushStore, Collects, Acceptable
  <2> HIDE DEF s
  <2>3. slots[s] \in SlotRec /\ slots[s].valid = Cardinality(slots[s].mask)
    BY <1>1, <2>1 DEF IInv, ReadyDecodable, Decodable
  <2>4. /\ \A u \in Slots \ {s} : slots'[u] = slots[u]
        /\ \/ slots'[s].state = "EMPTY"
           \/ /\ slots'[s].state \in {"FILLING", "READY"}
              /\ slots'[s].block_id = slots[s].block_id
              /\ slots'[s].mask = slots[s].mask \cup {sym.fec_id}
    BY <2>1, <2>2, <2>3, StoreInMoves
  <2>5. store' = [store EXCEPT ![s] = [store[s] EXCEPT ![sym.fec_id] =
                    [packet_id |-> sym.packet_id, meta |-> sym.meta]]]
    BY <2>2 DEF StoreIn
  <2>6. CASE t # s
    <3>1. slots'[t] = slots[t] /\ store'[t] = store[t]
      BY <1>1, <2>4, <2>5, <2>6
    <3> QED BY <3>1 DEF Kept
  <2>7. CASE t = s
    <3>1. store'[s] = [store[s] EXCEPT ![sym.fec_id] = [packet_id |-> sym.packet_id, meta |-> sym.meta]]
      BY <1>1, <2>1, <2>5
    <3>2. store[s] \in [FecIds -> Stored]
      BY <1>1, <2>1
    <3>3. /\ store'[s][sym.fec_id] = [packet_id |-> sym.packet_id, meta |-> sym.meta]
          /\ \A f \in FecIds \ {sym.fec_id} : store'[s][f] = store[s][f]
      BY <2>2, <3>1, <3>2
    <3> QED BY <2>1, <2>2, <2>4, <2>7, <3>3 DEF Takes
  <2> QED BY <2>6, <2>7
<1>5. CASE PushOpen(sym)
  <2> DEFINE s  == AllocSlot
             sl == InitSlot(sym.packet_id)
             sy == InitSymbols(store[s])
  <2>1. s \in Slots
    BY <1>1, AllocSlotIn
  <2>2. /\ sym.packet_id \in Ids /\ sym.fec_id \in FecIds /\ Acceptable(sym)
        /\ StoreIn(s, sl, sy, EvictStats(s), EvictFinals(s), sym)
    BY <1>5, ParamsAssumption DEF PushOpen, Acceptable
  <2> HIDE DEF s
  <2>3. /\ sl.state = "FILLING" /\ sl.block_id = sym.packet_id /\ sl.mask = {} /\ sl.valid = 0
        /\ sl \in SlotRec
    BY <2>2, ParamsAssumption DEF InitSlot, SlotRec, IInv, TypeOK
  <2>4. DOMAIN sy = FecIds
    BY DEF InitSymbols
  <2> HIDE DEF sl, sy
  <2>5. sl.valid = Cardinality(sl.mask)
    BY <2>3, FS_EmptySet
  <2>6. sym.fec_id \in FecIds \ sl.mask
    BY <2>2, <2>3
  <2>7. /\ \A u \in Slots \ {s} : slots'[u] = slots[u]
        /\ \/ slots'[s].state = "EMPTY"
           \/ /\ slots'[s].state \in {"FILLING", "READY"}
              /\ slots'[s].block_id = sl.block_id
              /\ slots'[s].mask = sl.mask \cup {sym.fec_id}
    BY <2>1, <2>2, <2>3, <2>5, <2>6, StoreInMoves
  <2>8. store' = [store EXCEPT ![s] = [sy EXCEPT ![sym.fec_id] =
                    [packet_id |-> sym.packet_id, meta |-> sym.meta]]]
    BY <2>2 DEF StoreIn
  <2>9. CASE t # s
    <3>1. slots'[t] = slots[t] /\ store'[t] = store[t]
      BY <1>1, <2>7, <2>8, <2>9
    <3> QED BY <3>1 DEF Kept
  <2>10. CASE t = s
    <3>1. store'[s] = [sy EXCEPT ![sym.fec_id] = [packet_id |-> sym.packet_id, meta |-> sym.meta]]
      BY <1>1, <2>1, <2>8
    <3>2. store'[s][sym.fec_id] = [packet_id |-> sym.packet_id, meta |-> sym.meta]
      BY <2>2, <2>4, <3>1
    <3> QED BY <2>2, <2>3, <2>7, <2>10, <3>2 DEF Takes
  <2> QED BY <2>9, <2>10
<1> QED BY <1>3, <1>4, <1>5 DEF PushSymbol

\* No other call stores anything.
LEMMA OtherMoves ==
  ASSUME IInv, NEW t \in Slots, slots'[t].state # "EMPTY",
         \/ \E o \in Overrides : Tick(o)
         \/ \E id \in Ids, success \in BOOLEAN : MarkResult(id, success)
         \/ IncCrcDrop \/ Advance \/ UNCHANGED vars
  PROVE  Kept(t)
<1>1. slots \in [Slots -> SlotRec]
  BY DEF IInv, TypeOK
<1>2. ASSUME NEW o \in Overrides, Tick(o) PROVE Kept(t)
  <2>1. slots[t] \in SlotRec /\ store'[t] = store[t]
    BY <1>1, <1>2 DEF Tick
  <2>2. CASE slots[t].state = "FILLING"
    <3>1. slots'[t] = Settle(slots[t], MaybeFreeze(slots[t], HardTimeout(o)))
      BY <1>2, <2>2 DEF Tick
    <3>2. slots'[t].block_id = slots[t].block_id /\ slots'[t].mask = slots[t].mask
      BY <2>1, <3>1, SettleMoves
    <3> QED BY <2>1, <2>2, <3>2 DEF Kept
  <2>3. CASE slots[t].state # "FILLING"
    <3>1. slots'[t] = slots[t]
      BY <1>2, <2>3 DEF Tick, Settle
    <3> QED BY <2>1, <3>1 DEF Kept
  <2> QED BY <2>2, <2>3
<1>3. ASSUME NEW id \in Ids, NEW success \in BOOLEAN, MarkResult(id, success) PROVE Kept(t)
  <2>1. /\ slots' = [slots EXCEPT ![SlotOf(id)] = SlotReset] /\ SlotReset.state = "EMPTY"
        /\ store' = store
    BY <1>3 DEF MarkResult, SlotReset
  <2>2. slots'[t] = slots[t]
    BY <1>1, <2>1
  <2> QED BY <2>1, <2>2 DEF Kept
<1>4. CASE IncCrcDrop \/ Advance \/ UNCHANGED vars
  BY <1>4 DEF IncCrcDrop, Drop, Advance, vars, Kept
<1> QED BY <1>2, <1>3, <1>4
=============================================================================
