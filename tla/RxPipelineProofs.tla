--------------------------- MODULE RxPipelineProofs ---------------------------
(***************************************************************************)
(* The receive pipeline, for every block, number of slots, timing and link *)
(* that loses, delays, reorders, corrupts or repeats symbols: what the     *)
(* decoder is given, how often a block is decoded and what a whole block   *)
(* yields; and, for packets and symbols of any size, that a packet cut is  *)
(* put together again.                                                     *)
(***************************************************************************)
EXTENDS RxPipeline, FragmentationCheck, DataLemmas, FiniteSetTheorems

\* What is proved of the deinterleaver by itself
DP == INSTANCE DeinterleaverProofs WITH
        Ids <- {0} \cup Blocks, ZeroId <- 0, Meta <- Metas, ZeroMeta <- Padding,
        Symbols <- Frames, Overrides <- {-1}, MaxOpened <- MaxFrames, MaxDrops <- MaxFrames

-----------------------------------------------------------------------------
(* The invariant                                                             *)

InHand(s) == slots[s].state # "EMPTY"

\* What a slot holds of a block is what was sent of it; no slot is ever given to
\* block id 0, since the only frame with that id is the filler.
SentInv ==
  \A s \in DP!Slots : InHand(s) =>
    /\ slots[s].block_id \in Blocks
    /\ \A f \in slots[s].mask : store[s][f].meta = Wire[slots[s].block_id][f].meta

Inv == DP!IInv /\ TypeOK /\ sym \in Frames /\ SentInv

-----------------------------------------------------------------------------
(* Symbols on the wire                                                       *)

\* The sizes the pipeline is created with
LEMMA Sizes ==
  /\ K \in Nat \ {0} /\ M \in Nat \ {0} /\ N = K + M /\ N \in Nat \ {0} /\ K < N
  /\ SymbolSize \in Nat \ {0}
BY CodingAssumption DEF N

\* A fragment as some packet may be cut into
AnyFragment == {FragmentAt(p, 0, SymbolSize, n, i) : p \in Seq(Nat), n \in Nat, i \in Nat}

LEMMA AnyFragmentIs == ASSUME NEW x \in AnyFragment PROVE x.payload_len \in Nat
<1>1. PICK p \in Seq(Nat), n \in Nat, i \in Nat : x = FragmentAt(p, 0, SymbolSize, n, i)
  BY DEF AnyFragment
<1>2. x.payload_len = Len(Slice(p, SymbolSize, i))
  BY <1>1 DEF FragmentAt
<1> DEFINE from == i * SymbolSize
           to   == IF (i + 1) * SymbolSize < Len(p) THEN (i + 1) * SymbolSize ELSE Len(p)
<1>3. from \in Nat /\ to \in Int
  BY Sizes
<1>4. Slice(p, SymbolSize, i) = SubSeq(p, from + 1, to)
  BY DEF Slice
<1> HIDE DEF from, to
<1>5. Len(SubSeq(p, from + 1, to)) \in Nat
  BY <1>3
<1> QED BY <1>2, <1>4, <1>5

LEMMA FragmentsType == ASSUME NEW p \in Seq(Nat) PROVE Fragments(p) \in Seq(AnyFragment)
<1> DEFINE n == NumFragments(Len(p), SymbolSize)
<1>1. n \in Int
  BY Sizes DEF NumFragments, CeilDiv
<1>2. Fragments(p) = [i \in 1 .. n |-> FragmentAt(p, 0, SymbolSize, n, i - 1)]
  BY DEF Fragments, Fragment
<1> HIDE DEF n
<1>3. ASSUME NEW i \in 1 .. n PROVE FragmentAt(p, 0, SymbolSize, n, i - 1) \in AnyFragment
  BY <1>1 DEF AnyFragment
<1>4. CASE n \in Nat
  BY <1>2, <1>3, <1>4
<1>5. CASE n \notin Nat
  <2>1. 1 .. n = {}
    BY <1>1, <1>5
  <2>2. Fragments(p) = <<>>
    BY <1>2, <2>1
  <2> QED BY <2>2
<1> QED BY <1>4, <1>5

LEMMA BlocksAre == Blocks \subseteq Nat \ {0} /\ \A b \in Blocks : Sent[b] \in Seq(Seq(Nat))
BY RxAssumption DEF Blocks

\* Every symbol of a block says how much payload it has.
LEMMA WireMeta ==
  ASSUME NEW b \in Blocks, NEW f \in 0 .. N - 1
  PROVE  Wire[b][f].meta.payload_len \in Nat
<1> DEFINE cut  == [i \in DOMAIN Sent[b] |-> Fragments(Sent[b][i])]
           flat == FlattenSeq(cut)
<1>1. Sent[b] \in Seq(Seq(Nat))
  BY BlocksAre
<1>2. cut \in Seq(Seq(AnyFragment))
  <2>1. DOMAIN Sent[b] = 1 .. Len(Sent[b]) /\ Len(Sent[b]) \in Nat
    BY <1>1
  <2>2. \A i \in 1 .. Len(Sent[b]) : Fragments(Sent[b][i]) \in Seq(AnyFragment)
    BY <1>1, FragmentsType
  <2> QED BY <2>1, <2>2
<1> HIDE DEF cut
<1>3. flat \in Seq(AnyFragment)
  BY <1>2, FlattenType
<1>4. Source[b] = Padded(flat)
  BY DEF Source, cut
<1> HIDE DEF flat
<1>5. /\ f + 1 \in 1 .. N
      /\ Wire[b][f].meta = Codeword(b, Source[b])[f + 1].body
  <2>1. f + 1 \in 1 .. N
    BY Sizes
  <2> QED BY <2>1 DEF Wire
<1>6. CASE f + 1 <= K
  <2>1. Source[b][f + 1] = IF f + 1 <= Len(flat) THEN flat[f + 1] ELSE PaddingSymbol
    BY <1>4, <1>6, Sizes DEF Padded
  <2>2. Source[b][f + 1].payload_len \in Nat
    <3>1. CASE f + 1 <= Len(flat)
      <4>1. flat[f + 1] \in AnyFragment
        BY <1>3, <3>1
      <4> QED BY <2>1, <3>1, <4>1, AnyFragmentIs
    <3>2. CASE ~(f + 1 <= Len(flat))
      BY <2>1, <3>2 DEF PaddingSymbol
    <3> QED BY <3>1, <3>2
  <2>3. Codeword(b, Source[b])[f + 1].body = Body(Source[b][f + 1])
    BY <1>5, <1>6 DEF Codeword
  <2> QED BY <1>5, <2>2, <2>3 DEF Body
<1>7. CASE ~(f + 1 <= K)
  <2>1. Codeword(b, Source[b])[f + 1].body.payload_len = SymbolSize
    BY <1>5, <1>7 DEF Codeword, RepairBody
  <2> QED BY <1>5, <2>1, Sizes
<1> QED BY <1>6, <1>7

LEMMA WireIs ==
  ASSUME NEW b \in Blocks, NEW f \in 0 .. N - 1
  PROVE  /\ Wire[b][f].packet_id = b /\ Wire[b][f].fec_id = f
         /\ Wire[b][f] \in Frames /\ Wire[b][f].meta \in Metas
         /\ Wire[b][f] \in [packet_id : {0} \cup Blocks, fec_id : Nat, meta : Metas]
<1>1. Wire[b][f].meta \in Metas /\ Wire[b][f] \in Frames
  BY DEF Metas, Frames
<1>2. Wire[b][f] = [packet_id |-> b, fec_id |-> f, meta |-> Codeword(b, Source[b])[f + 1].body]
  BY DEF Wire
<1>3. Wire[b][f].meta = Codeword(b, Source[b])[f + 1].body /\ Wire[b][f].packet_id = b
      /\ Wire[b][f].fec_id = f
  BY <1>2
<1>4. f \in Nat
  BY Sizes
<1> QED BY <1>1, <1>2, <1>3, <1>4

LEMMA FrameIs ==
  ASSUME NEW x \in Frames
  PROVE  /\ x \in [packet_id : {0} \cup Blocks, fec_id : Nat, meta : Metas]
         /\ x # Filler => x.packet_id \in Blocks /\ x.fec_id \in 0 .. N - 1
                          /\ x.meta = Wire[x.packet_id][x.fec_id].meta
<1>1. CASE x = Filler
  <2>1. Padding \in Metas
    BY DEF Metas
  <2> QED BY <1>1, <2>1 DEF Filler
<1>2. CASE x # Filler
  <2>1. PICK b \in Blocks, f \in 0 .. N - 1 : x = Wire[b][f]
    BY <1>2 DEF Frames
  <2> QED BY <2>1, WireIs
<1> QED BY <1>1, <1>2

\* What rx_pipeline_create() passes to deinterleaver_create() is in order.
LEMMA SlotsAssumption == DP!ParamsAssumption
<1>1. MaxFrames \in Nat
  <2>1. Len(Sent) \in Nat /\ MaxCopies \in Nat /\ MaxNoise \in Nat /\ N \in Nat
    BY RxAssumption, Sizes
  <2>2. MaxCopies * N \in Nat
    BY <2>1
  <2>3. MaxCopies * N * Len(Sent) \in Nat
    BY <2>1, <2>2
  <2> QED BY <2>1, <2>3 DEF MaxFrames
<1>2. \A m \in Metas : m.payload_len \in Nat
  BY WireMeta DEF Metas, Padding
<1>3. Frames \subseteq [packet_id : {0} \cup Blocks, fec_id : Nat, meta : Metas]
  BY FrameIs
<1>4. Padding \in Metas
  BY DEF Metas
<1>5. /\ MaxActive \in Nat \ {0} /\ Stab \in Nat /\ MaxAge \in Nat /\ MaxNow \in Nat
      /\ N \in Nat /\ K \in Nat /\ 1 <= K /\ K < N /\ SymbolSize \in Nat \ {0}
  BY RxAssumption, Sizes
<1> QED BY <1>1, <1>2, <1>3, <1>4, <1>5 DEF DP!ParamsAssumption

-----------------------------------------------------------------------------
(* The deinterleaver in the pipeline                                         *)

LEMMA SameSlots ==
  /\ D!Slots = DP!Slots /\ D!FecIds = 0 .. N - 1 /\ DP!FecIds = 0 .. N - 1
  /\ D!vars = collector /\ DP!vars = collector
  /\ \A st : D!In(st) = DP!In(st)
BY DEF D!Slots, DP!Slots, D!FecIds, DP!FecIds, D!vars, DP!vars, collector, D!In, DP!In

LEMMA SameTypes == D!TypeOK <=> DP!TypeOK
BY SameSlots DEF D!TypeOK, DP!TypeOK, D!SlotRec, DP!SlotRec, D!Stored, DP!Stored, D!FecIds, DP!FecIds,
   D!StatNames, DP!StatNames, D!Reasons, DP!Reasons

LEMMA SameLookup == \A id : D!FindSlotAny(id) = DP!FindSlotAny(id) /\ D!SlotOf(id) = DP!SlotOf(id)
BY SameSlots DEF D!FindSlotAny, DP!FindSlotAny, D!SlotOf, DP!SlotOf, D!Lowest, DP!Lowest

LEMMA SameInit == D!Init <=> DP!Init
BY SameSlots DEF D!Init, DP!Init, D!SlotReset, DP!SlotReset, D!StatNames, DP!StatNames,
   D!Reasons, DP!Reasons

LEMMA SameDrop == \A x : D!Drop(x) <=> DP!Drop(x)
BY DEF D!Drop, DP!Drop, D!Dropped, DP!Dropped, D!Bump, DP!Bump

LEMMA SameMark == \A id, success : D!MarkResult(id, success) <=> DP!MarkResult(id, success)
BY SameLookup DEF D!MarkResult, DP!MarkResult, D!SlotReset, DP!SlotReset, D!Bump, DP!Bump

LEMMA SameFreeze ==
  \A sl, o : /\ D!MaybeFreeze(sl, o) = DP!MaybeFreeze(sl, o)
             /\ D!HardTimeout(o) = DP!HardTimeout(o)
             /\ D!Settle(sl, o) = DP!Settle(sl, o)
             /\ D!RecycleStat(sl) = DP!RecycleStat(sl)
             /\ D!RecycleReason(sl) = DP!RecycleReason(sl)
BY DEF D!MaybeFreeze, DP!MaybeFreeze, D!MaxHoles, DP!MaxHoles, D!HardTimeout, DP!HardTimeout,
   D!Never, DP!Never, D!Settle, DP!Settle, D!SlotReset, DP!SlotReset,
   D!RecycleStat, DP!RecycleStat, D!RecycleReason, DP!RecycleReason

LEMMA SameCardinality == \A S : /\ D!Cardinality(S) = Cardinality(S)
                                /\ DP!Cardinality(S) = Cardinality(S)
BY DEF D!Cardinality, DP!Cardinality, Cardinality, D!IsFiniteSet, DP!IsFiniteSet, IsFiniteSet

LEMMA SameTick == \A o : D!Tick(o) <=> DP!Tick(o)
BY DEF D!Tick, DP!Tick, D!Bump, DP!Bump, D!MaxHoles, DP!MaxHoles, D!Slots, DP!Slots,
   D!MaybeFreeze, DP!MaybeFreeze, D!HardTimeout, DP!HardTimeout, D!Never, DP!Never,
   D!Settle, DP!Settle, D!SlotReset, DP!SlotReset,
   D!Cardinality, DP!Cardinality, D!IsFiniteSet, DP!IsFiniteSet

LEMMA SameStore ==
  \A s, sl, syms, st, fi, x : D!StoreIn(s, sl, syms, st, fi, x) <=> DP!StoreIn(s, sl, syms, st, fi, x)
BY SameFreeze DEF D!StoreIn, DP!StoreIn, D!Bump, DP!Bump, D!Plus, DP!Plus

LEMMA SameAccept ==
  \A x : /\ D!IsErasure(x) <=> DP!IsErasure(x)
         /\ D!Acceptable(x) <=> DP!Acceptable(x)
BY SameSlots DEF D!IsErasure, DP!IsErasure, D!Acceptable, DP!Acceptable

LEMMA SameAlloc == D!AllocSlot = DP!AllocSlot
<1>1. \A S : D!Lowest(S) = DP!Lowest(S) /\ D!Oldest(S) = DP!Oldest(S)
  BY DEF D!Lowest, DP!Lowest, D!Oldest, DP!Oldest
<1> QED BY <1>1, SameSlots DEF D!AllocSlot, DP!AllocSlot

LEMMA SameOpen == \A x : D!PushOpen(x) <=> DP!PushOpen(x)
<1>1. \A id, s : /\ D!InitSlot(id) = DP!InitSlot(id)
                 /\ D!InitSymbols(s) = DP!InitSymbols(s)
                 /\ D!EvictStats(s) = DP!EvictStats(s)
                 /\ D!EvictFinals(s) = DP!EvictFinals(s)
  BY SameSlots DEF D!InitSlot, DP!InitSlot, D!InitSymbols, DP!InitSymbols,
     D!EvictStats, DP!EvictStats, D!EvictFinals, DP!EvictFinals, D!Bump, DP!Bump, D!Plus, DP!Plus
<1> QED BY <1>1, SameAccept, SameLookup, SameAlloc, SameStore DEF D!PushOpen, DP!PushOpen

LEMMA SamePush == \A x : D!PushSymbol(x) <=> DP!PushSymbol(x)
<1>1. \A x : D!PushErasure(x) <=> DP!PushErasure(x)
  BY SameAccept, SameDrop DEF D!PushErasure, DP!PushErasure
<1>2. \A x : D!PushFrozen(x) <=> DP!PushFrozen(x)
  BY SameAccept, SameDrop, SameLookup DEF D!PushFrozen, DP!PushFrozen, D!Collects, DP!Collects
<1>3. \A x : D!PushDuplicate(x) <=> DP!PushDuplicate(x)
  BY SameAccept, SameDrop, SameLookup DEF D!PushDuplicate, DP!PushDuplicate, D!Collects, DP!Collects
<1>4. \A x : D!PushStore(x) <=> DP!PushStore(x)
  BY SameAccept, SameStore, SameLookup DEF D!PushStore, DP!PushStore, D!Collects, DP!Collects
<1> QED BY <1>1, <1>2, <1>3, <1>4, SameOpen DEF D!PushSymbol, DP!PushSymbol

LEMMA SameRest == (D!IncCrcDrop <=> DP!IncCrcDrop) /\ (D!Advance <=> DP!Advance)
BY SameDrop DEF D!IncCrcDrop, DP!IncCrcDrop, D!Advance, DP!Advance

\* A step of the deinterleaver in the pipeline is a step of the deinterleaver.
LEMMA SlotsKept ==
  ASSUME DP!IInv,
         \/ \E x \in Frames : D!PushSymbol(x)
         \/ \E id \in {0} \cup Blocks, success \in BOOLEAN : D!MarkResult(id, success)
         \/ D!Tick(-1) \/ D!IncCrcDrop \/ D!Advance
         \/ UNCHANGED collector
  PROVE  DP!IInv'
<1>1. ASSUME NEW x \in Frames, D!PushSymbol(x) PROVE DP!Next
  BY <1>1, SamePush DEF DP!Next
<1>2. ASSUME NEW id \in {0} \cup Blocks, NEW success \in BOOLEAN, D!MarkResult(id, success)
      PROVE  DP!Next
  BY <1>2, SameMark DEF DP!Next
<1>3. D!Tick(-1) => DP!Next
  BY SameTick DEF DP!Next
<1>4. D!IncCrcDrop \/ D!Advance => DP!Next
  BY SameRest DEF DP!Next
<1>5. UNCHANGED collector => UNCHANGED DP!vars
  BY DEF collector, DP!vars
<1>6. [DP!Next]_(DP!vars)
  BY <1>1, <1>2, <1>3, <1>4, <1>5
<1> QED BY <1>6, SlotsAssumption, DP!NextIInv

-----------------------------------------------------------------------------
(* The steps of the pipeline                                                 *)

\* What is called between two pushes
OtherCall ==
  \/ \E id \in {0} \cup Blocks, success \in BOOLEAN : D!MarkResult(id, success)
  \/ D!Tick(-1) \/ D!IncCrcDrop \/ D!Advance
  \/ UNCHANGED collector

LEMMA OthersKeep ==
  ASSUME DP!IInv, OtherCall, NEW t \in DP!Slots, InHand(t)'
  PROVE  DP!Kept(t)
<1>1. slots'[t].state # "EMPTY"
  BY DEF InHand
<1>2. \/ \E o \in {-1} : DP!Tick(o)
      \/ \E id \in {0} \cup Blocks, success \in BOOLEAN : DP!MarkResult(id, success)
      \/ DP!IncCrcDrop \/ DP!Advance \/ UNCHANGED DP!vars
  <2>1. D!Tick(-1) => \E o \in {-1} : DP!Tick(o)
    BY SameTick
  <2>2. UNCHANGED collector => UNCHANGED DP!vars
    BY DEF collector, DP!vars
  <2> QED BY <2>1, <2>2, SameMark, SameRest DEF OtherCall
<1> QED BY <1>1, <1>2, SlotsAssumption, DP!OtherMoves

LEMMA PushStores ==
  ASSUME DP!IInv, sym \in Frames, D!PushSymbol(sym), NEW t \in DP!Slots, InHand(t)'
  PROVE  DP!Kept(t) \/ DP!Takes(t, sym)
<1>1. slots'[t].state # "EMPTY"
  BY DEF InHand
<1> QED BY <1>1, SamePush, SlotsAssumption, DP!PushMoves

\* A symbol that is stored is not the filler.
LEMMA TakesSent ==
  ASSUME sym \in Frames, NEW t, DP!Takes(t, sym)
  PROVE  /\ sym.packet_id \in Blocks /\ sym.fec_id \in 0 .. N - 1
         /\ sym.meta = Wire[sym.packet_id][sym.fec_id].meta
<1>1. DP!IsErasure(Filler)
  BY DEF DP!IsErasure, Filler, Padding
<1>2. sym # Filler
  BY <1>1 DEF DP!Takes, DP!Acceptable
<1> QED BY <1>2, FrameIs

LEMMA SlotsStep ==
  ASSUME Inv, D!PushSymbol(sym) \/ OtherCall
  PROVE  DP!IInv' /\ SentInv'
<1>1. DP!IInv /\ sym \in Frames
  BY DEF Inv
<1>2. DP!IInv'
  BY <1>1, SlotsKept DEF OtherCall
<1>3. ASSUME NEW s \in DP!Slots, InHand(s)'
      PROVE  /\ slots'[s].block_id \in Blocks
             /\ \A f \in slots'[s].mask : store'[s][f].meta = Wire[slots'[s].block_id][f].meta
  <2>1. CASE DP!Kept(s)
    <3>1. InHand(s)
      BY <2>1 DEF DP!Kept, InHand
    <3> QED BY <2>1, <3>1 DEF DP!Kept, Inv, SentInv
  <2>2. CASE DP!Takes(s, sym)
    <3>1. /\ sym.packet_id \in Blocks /\ sym.fec_id \in 0 .. N - 1
          /\ sym.meta = Wire[sym.packet_id][sym.fec_id].meta
      BY <1>1, <2>2, TakesSent
    <3>2. slots'[s].block_id = sym.packet_id /\ store'[s][sym.fec_id].meta = sym.meta
      BY <2>2 DEF DP!Takes
    <3>3. CASE slots'[s].mask = {sym.fec_id}
      BY <3>1, <3>2, <3>3
    <3>4. CASE slots'[s].mask # {sym.fec_id}
      <4>1. /\ InHand(s) /\ slots[s].block_id = sym.packet_id
            /\ slots'[s].mask = slots[s].mask \cup {sym.fec_id}
            /\ \A f \in DP!FecIds \ {sym.fec_id} : store'[s][f] = store[s][f]
        BY <2>2, <3>4 DEF DP!Takes, InHand
      <4>2. slots[s].mask \subseteq DP!FecIds
        BY <1>1 DEF DP!IInv, DP!TypeOK, DP!SlotRec
      <4>3. ASSUME NEW f \in slots'[s].mask, f # sym.fec_id
            PROVE  store'[s][f].meta = Wire[sym.packet_id][f].meta
        <5>1. f \in slots[s].mask /\ store'[s][f] = store[s][f]
          BY <4>1, <4>2, <4>3
        <5> QED BY <4>1, <5>1 DEF Inv, SentInv
      <4> QED BY <3>1, <3>2, <4>3
    <3> QED BY <3>3, <3>4
  <2> QED BY <1>1, <1>3, <2>1, <2>2, OthersKeep, PushStores
<1> QED BY <1>2, <1>3 DEF SentInv, DP!Slots

LEMMA InitInv == Init => Inv
<1> SUFFICES ASSUME Init PROVE Inv
  OBVIOUS
<1>1. DP!Init /\ DP!IInv
  BY SameInit, SlotsAssumption, DP!InitIInv DEF Init
<1>2. D!TypeOK
  BY <1>1, SameTypes DEF DP!IInv
<1>3. TypeOK
  BY <1>2, RxAssumption DEF Init, TypeOK
<1>4. SentInv
  BY <1>1 DEF DP!Init, DP!SlotReset, SentInv, InHand
<1> QED BY <1>1, <1>3, <1>4 DEF Inv, Init, NoSym, Frames

LEMMA SlotsTyped == DP!IInv' => D!TypeOK'
<1>1. DP!IInv => D!TypeOK
  BY SameTypes DEF DP!IInv
<1> QED BY <1>1, PTL

\* The receive and the tick that follows it
LEMMA ReceiveStep ==
  ASSUME Inv, NEW next \in {"recv", "push", "crc", "drain"}, NEW s \in Frames,
         next = "recv" \/ next = "drain" => s = NoSym,
         Receive(next, s), noise' \in 0 .. MaxNoise,
         copies' \in [Blocks -> [0 .. N - 1 -> 0 .. MaxCopies]]
  PROVE  Inv'
<1>1. D!Tick(-1) /\ pc' = next /\ sym' = s
  BY DEF Receive
<1>2. DP!IInv' /\ SentInv'
  BY <1>1, SlotsStep DEF OtherCall
<1>3. D!TypeOK'
  BY <1>2, SlotsTyped
<1>4. TypeOK'
  BY <1>1, <1>3 DEF TypeOK, NoSym
<1> QED BY <1>1, <1>2, <1>4 DEF Inv, Frames

LEMMA FillerIs == Filler \in Frames /\ NoSym = Filler
BY DEF Frames, NoSym

LEMMA DeliverStep ==
  ASSUME Inv, NEW b \in Blocks, NEW f \in 0 .. N - 1, NEW next \in {"push", "crc"}, Deliver(b, f, next)
  PROVE  Inv'
<1>1. /\ copies' = [copies EXCEPT ![b][f] = @ + 1] /\ copies[b][f] < MaxCopies
      /\ Receive(next, Wire[b][f]) /\ noise' = noise
  BY DEF Deliver
<1>2. copies \in [Blocks -> [0 .. N - 1 -> 0 .. MaxCopies]] /\ noise \in 0 .. MaxNoise
  BY DEF Inv, TypeOK
<1>3. copies[b][f] + 1 \in 0 .. MaxCopies
  <2>1. copies[b][f] \in 0 .. MaxCopies /\ copies[b][f] < MaxCopies
    BY <1>1, <1>2
  <2> QED BY <2>1, RxAssumption
<1>4. copies' \in [Blocks -> [0 .. N - 1 -> 0 .. MaxCopies]]
  BY <1>1, <1>2, <1>3
<1>5. Wire[b][f] \in Frames
  BY WireIs
<1> QED BY <1>1, <1>2, <1>4, <1>5, ReceiveStep

\* Every other step
LEMMA RestStep ==
  ASSUME Inv, D!PushSymbol(sym) \/ OtherCall,
         copies' = copies, noise' = noise,
         pc' \in {"recv", "push", "crc", "drain"},
         sym' = NoSym \/ (sym' = sym /\ pc' = pc)
  PROVE  Inv'
<1>1. DP!IInv' /\ SentInv'
  BY SlotsStep
<1>2. D!TypeOK'
  BY <1>1, SlotsTyped
<1>3. TypeOK'
  BY <1>2 DEF Inv, TypeOK, NoSym
<1> QED BY <1>1, <1>3, FillerIs DEF Inv, Frames

\* drain_ready_blocks() marks the block it was given.
LEMMA DrainView ==
  ASSUME Inv, DrainBlock
  PROVE  /\ ReadySlot \in DP!Slots /\ slots[ReadySlot].state = "READY"
         /\ slots[ReadySlot].block_id \in Blocks
         /\ UNCHANGED <<pc, sym, copies, noise>>
         /\ \E decoded \in BOOLEAN :
              /\ D!MarkResult(slots[ReadySlot].block_id, decoded)
              /\ decoded => \E x : delivered' =
                   [delivered EXCEPT ![slots[ReadySlot].block_id] = Append(@, x)]
              /\ ~decoded => delivered' = delivered
<1>1. D!In("READY") # {} /\ D!In("READY") \subseteq DP!Slots /\ DP!Slots \subseteq Nat
  BY SameSlots, SlotsAssumption, DP!SlotsNat DEF DrainBlock, DP!In
<1>2. D!Lowest(D!In("READY")) \in D!In("READY")
  <2>1. \E x \in D!In("READY") : \A y \in D!In("READY") : x <= y
    <3>1. D!In("READY") \subseteq Nat
      BY <1>1
    <3> QED BY <1>1, <3>1, LeastOf
  <2> QED BY <2>1 DEF D!Lowest
<1>3. ReadySlot \in DP!Slots /\ slots[ReadySlot].state = "READY"
  BY <1>1, <1>2 DEF ReadySlot, D!In
<1>4. slots[ReadySlot].block_id \in Blocks
  BY <1>3 DEF Inv, SentInv, InHand
<1>5. DecodeResults(ReadySlot) \subseteq BOOLEAN
  BY DEF DecodeResults
<1>6. PICK decoded \in DecodeResults(ReadySlot) :
        /\ D!MarkResult(slots[ReadySlot].block_id, decoded)
        /\ delivered' =
             IF decoded
             THEN [delivered EXCEPT ![slots[ReadySlot].block_id] = Append(@,
                    [whole |-> SourceComplete(ReadySlot),
                     packets |-> PacketsOf(slots[ReadySlot].block_id, ReadySlot)])]
             ELSE delivered
  BY DEF DrainBlock
<1>7. UNCHANGED <<pc, sym, copies, noise>>
  BY DEF DrainBlock
<1>8. decoded => \E x : delivered' =
        [delivered EXCEPT ![slots[ReadySlot].block_id] = Append(@, x)]
  BY <1>6
<1>9. ~decoded => delivered' = delivered
  BY <1>6
<1> QED BY <1>3, <1>4, <1>5, <1>6, <1>7, <1>8, <1>9

LEMMA NextInv == Inv /\ [Next]_vars => Inv'
<1> SUFFICES ASSUME Inv, [Next]_vars PROVE Inv'
  OBVIOUS
<1>1. copies \in [Blocks -> [0 .. N - 1 -> 0 .. MaxCopies]] /\ noise \in 0 .. MaxNoise /\ MaxNoise \in Nat
  BY RxAssumption DEF Inv, TypeOK
<1>2. Idle => Inv'
  BY <1>1, FillerIs, ReceiveStep DEF Idle
<1>3. Ignore => Inv'
  BY <1>1, FillerIs, ReceiveStep DEF Ignore
<1>4. ReceiveFiller => Inv'
  BY <1>1, FillerIs, ReceiveStep DEF ReceiveFiller
<1>5. ASSUME NEW b \in Blocks, NEW f \in 0 .. N - 1, ReceiveSymbol(b, f) \/ ReceiveCorrupt(b, f)
      PROVE  Inv'
  BY <1>5, DeliverStep DEF ReceiveSymbol, ReceiveCorrupt
<1>6. CountCrcDrop => Inv'
  BY RestStep DEF OtherCall, CountCrcDrop
<1>7. Push => Inv'
  BY RestStep DEF Push
<1>8. ASSUME DrainBlock PROVE Inv'
  <2>1. /\ slots[ReadySlot].block_id \in Blocks /\ UNCHANGED <<pc, sym, copies, noise>>
        /\ \E decoded \in BOOLEAN : D!MarkResult(slots[ReadySlot].block_id, decoded)
    BY <1>8, DrainView
  <2>2. \E id \in {0} \cup Blocks, success \in BOOLEAN : D!MarkResult(id, success)
    BY <2>1
  <2>3. pc' \in {"recv", "push", "crc", "drain"}
    BY <2>1 DEF Inv, TypeOK
  <2> QED BY <2>1, <2>2, <2>3, RestStep DEF OtherCall
<1>9. DrainDone => Inv'
  <2> SUFFICES ASSUME DrainDone PROVE Inv'
    OBVIOUS
  <2>1. UNCHANGED collector /\ pc' = "recv" /\ pc = "drain" /\ sym' = sym /\ copies' = copies /\ noise' = noise
    BY DEF DrainDone
  <2>2. sym' = NoSym
    BY <2>1 DEF Inv, TypeOK
  <2> QED BY <2>1, <2>2, RestStep DEF OtherCall
<1>10. Advance => Inv'
  BY RestStep DEF OtherCall, Advance, Inv, TypeOK
<1>11. UNCHANGED vars => Inv'
  BY RestStep DEF OtherCall, vars, Inv, TypeOK
<1> QED BY <1>2, <1>3, <1>4, <1>5, <1>6, <1>7, <1>8, <1>9, <1>10, <1>11 DEF Next

LEMMA SpecInv == Spec => []Inv
BY InitInv, NextInv, PTL DEF Spec

-----------------------------------------------------------------------------
(* What the decoder is given                                                 *)

LEMMA InvDecoderInput == Inv => DecoderInput
<1> SUFFICES ASSUME Inv PROVE DecoderInput
  OBVIOUS
<1>1. ASSUME NEW s \in D!In("READY")
      PROVE  LET b == slots[s].block_id
             IN /\ b \in Blocks
                /\ Cardinality(Received(s)) >= K
                /\ \A f \in Received(s) : store[s][f] = [packet_id |-> b, meta |-> Wire[b][f].meta]
  <2> DEFINE b == slots[s].block_id
  <2>1. s \in DP!Slots /\ slots[s].state = "READY"
    BY <1>1, SameSlots DEF D!In
  <2>2. InHand(s)
    BY <2>1 DEF InHand
  <2>3. b \in Blocks /\ b # 0 /\ \A f \in slots[s].mask : store[s][f].meta = Wire[b][f].meta
    BY <2>1, <2>2, BlocksAre DEF Inv, SentInv
  <2>4. slots[s] \in DP!SlotRec /\ store[s] \in [0 .. N - 1 -> DP!Stored]
    BY <2>1, SameSlots DEF Inv, DP!IInv, DP!TypeOK
  <2>5. slots[s].mask \subseteq 0 .. N - 1
    BY <2>4, SameSlots DEF DP!SlotRec
  <2>6. \A f \in 0 .. N - 1 : store[s][f].packet_id = IF f \in slots[s].mask THEN b ELSE 0
    BY <2>1, <2>2, <2>3, SameSlots DEF Inv, DP!IInv, DP!DecoderSeesMask, DP!SeesMask, InHand
  <2>7. Received(s) = slots[s].mask
    BY <2>3, <2>5, <2>6 DEF Received
  <2>8. Cardinality(slots[s].mask) >= K
    BY <2>1, SameCardinality DEF Inv, DP!IInv, DP!ReadyDecodable, DP!Decodable
  <2>9. ASSUME NEW f \in slots[s].mask
        PROVE  store[s][f] = [packet_id |-> b, meta |-> Wire[b][f].meta]
    <3>1. store[s][f] \in DP!Stored /\ store[s][f].packet_id = b
          /\ store[s][f].meta = Wire[b][f].meta
      BY <2>3, <2>4, <2>5, <2>6, <2>9
    <3> HIDE DEF b
    <3> QED BY <3>1 DEF DP!Stored
  <2> QED BY <2>3, <2>7, <2>8, <2>9
<1>2. TypeOK
  BY DEF Inv
<1> QED BY <1>1, <1>2 DEF DecoderInput

\* Whatever the link does - loses, delays, reorders, corrupts, repeats - and
\* whichever slots blocks are evicted from, the decoder gets at least K symbols
\* of one block, each in its position and with the content it was sent with:
\* nothing that an earlier block left in the slot, no filler, no frame twice.
THEOREM DecoderGetsWhatWasSent == Spec => []DecoderInput
BY SpecInv, InvDecoderInput, PTL

-----------------------------------------------------------------------------
(* No block is decoded twice: on a link that does not duplicate, a decoding  *)
(* uses up K of the N symbols a block has.                                   *)

NoDuplication == MaxCopies <= 1 /\ M < K

\* The symbols of block b that the link has delivered
Used(b) == {f \in 0 .. N - 1 : copies[b][f] > 0}

Pushing(b) == IF pc = "push" /\ sym.packet_id = b THEN 1 ELSE 0

\* What the decodings of block b and the push under way need
Spent(b) == K * Len(delivered[b]) + Pushing(b)

Holds(s, b) == InHand(s) /\ slots[s].block_id = b

\* They are paid for, and so are the symbols in the slot that collects it now.
Budget(b) ==
  /\ Spent(b) <= Cardinality(Used(b))
  /\ \A s \in DP!Slots : Holds(s, b) => Spent(b) + Cardinality(slots[s].mask) <= Cardinality(Used(b))

BudgetInv ==
  /\ DOMAIN delivered = Blocks
  /\ \A b \in Blocks : (\E S : delivered[b] \in Seq(S)) /\ Budget(b)

LEMMA PositionsAre ==
  \A P \in SUBSET (0 .. N - 1) :
    IsFiniteSet(P) /\ Cardinality(P) \in Nat /\ Cardinality(P) <= N
<1>1. IsFiniteSet(0 .. N - 1) /\ Cardinality(0 .. N - 1) = N
  <2>1. 0 \in Int /\ N - 1 \in Int /\ 0 <= N - 1 /\ N - 1 - 0 + 1 = N
    BY Sizes
  <2> QED BY <2>1, FS_Interval
<1>2. ASSUME NEW P \in SUBSET (0 .. N - 1)
      PROVE  IsFiniteSet(P) /\ Cardinality(P) \in Nat /\ Cardinality(P) <= N
  <2>1. IsFiniteSet(P) /\ Cardinality(P) <= Cardinality(0 .. N - 1)
    BY <1>1, <1>2, FS_Subset
  <2>2. Cardinality(P) \in Nat
    BY <2>1, FS_CardinalityType
  <2> QED BY <1>1, <2>1, <2>2
<1> QED BY <1>2

LEMMA UsedIs ==
  ASSUME NEW b
  PROVE  /\ Used(b) \in SUBSET (0 .. N - 1) /\ Cardinality(Used(b)) \in Nat
         /\ Used(b)' \in SUBSET (0 .. N - 1) /\ Cardinality(Used(b)') \in Nat
<1>1. Used(b) \in SUBSET (0 .. N - 1) /\ Used(b)' \in SUBSET (0 .. N - 1)
  BY DEF Used
<1> QED BY <1>1, PositionsAre

LEMMA MaskIs ==
  ASSUME Inv, NEW s \in DP!Slots
  PROVE  IsFiniteSet(slots[s].mask) /\ Cardinality(slots[s].mask) \in Nat
<1>1. slots[s].mask \in SUBSET (0 .. N - 1)
  BY SameSlots DEF Inv, DP!IInv, DP!TypeOK, DP!SlotRec
<1> QED BY <1>1, PositionsAre

LEMMA SpentIs ==
  ASSUME BudgetInv, NEW b \in Blocks
  PROVE  /\ Len(delivered[b]) \in Nat /\ K * Len(delivered[b]) \in Nat
         /\ Pushing(b) \in 0 .. 1 /\ Spent(b) = K * Len(delivered[b]) + Pushing(b)
<1>1. Len(delivered[b]) \in Nat
  BY DEF BudgetInv
<1> QED BY <1>1, Sizes DEF Pushing, Spent

PushDone == D!PushSymbol(sym) /\ pc = "push" /\ pc' # "push" /\ copies' = copies

\* The budget holds after a step in which nothing is decoded and no block's push
\* is begun without a symbol from the link.
LEMMA BudgetKept ==
  ASSUME Inv, BudgetInv, delivered' = delivered, NEW b \in Blocks,
         OtherCall \/ PushDone,
         Cardinality(Used(b)') - Pushing(b)' >= Cardinality(Used(b)) - Pushing(b)
  PROVE  Budget(b)'
<1>1. /\ Spent(b) = K * Len(delivered[b]) + Pushing(b) /\ Spent(b)' = K * Len(delivered[b]) + Pushing(b)'
      /\ K * Len(delivered[b]) \in Nat /\ Pushing(b) \in 0 .. 1 /\ Pushing(b)' \in 0 .. 1
      /\ Cardinality(Used(b)) \in Nat /\ Cardinality(Used(b)') \in Nat
  BY SpentIs, UsedIs DEF Spent, Pushing
<1>2. Spent(b) <= Cardinality(Used(b))
  BY DEF BudgetInv, Budget
<1>3. Spent(b)' <= Cardinality(Used(b)')
  BY ONLY <1>1, <1>2, Cardinality(Used(b)') - Pushing(b)' >= Cardinality(Used(b)) - Pushing(b)
<1>4. ASSUME NEW s \in DP!Slots, Holds(s, b)'
      PROVE  Spent(b)' + Cardinality(slots'[s].mask) <= Cardinality(Used(b)')
  <2>0. InHand(s)' /\ slots'[s].block_id = b
    BY <1>4 DEF Holds
  <2>1. DP!Kept(s) \/ (PushDone /\ DP!Takes(s, sym))
    BY <2>0, OthersKeep, PushStores DEF Inv, PushDone
  <2>2. CASE DP!Kept(s)
    <3>1. Holds(s, b) /\ slots'[s].mask = slots[s].mask
      BY <2>0, <2>2 DEF DP!Kept, Holds, InHand
    <3>2. Spent(b) + Cardinality(slots[s].mask) <= Cardinality(Used(b)) /\ Cardinality(slots[s].mask) \in Nat
      BY <3>1, MaskIs DEF BudgetInv, Budget
    <3>3. Spent(b)' + Cardinality(slots[s].mask) <= Cardinality(Used(b)')
      BY ONLY <1>1, <3>2, Cardinality(Used(b)') - Pushing(b)' >= Cardinality(Used(b)) - Pushing(b)
    <3> QED BY <3>1, <3>3
  <2>3. CASE PushDone /\ DP!Takes(s, sym)
    <3>1. sym.packet_id = b /\ pc = "push" /\ pc' # "push" /\ copies' = copies
      BY <2>0, <2>3 DEF DP!Takes, PushDone
    <3>2. Pushing(b) = 1 /\ Pushing(b)' = 0 /\ Used(b)' = Used(b)
      BY <3>1 DEF Pushing, Used
    <3>3. CASE slots'[s].mask = {sym.fec_id}
      <4>1. Cardinality(slots'[s].mask) = 1
        BY <3>3, FS_Singleton
      <4> QED BY ONLY <1>1, <1>2, <3>2, <4>1
    <3>4. CASE slots'[s].mask # {sym.fec_id}
      <4>1. /\ Holds(s, b) /\ sym.fec_id \notin slots[s].mask
            /\ slots'[s].mask = slots[s].mask \cup {sym.fec_id}
        BY <2>3, <3>1, <3>4 DEF DP!Takes, Holds, InHand
      <4>2. Cardinality(slots'[s].mask) = Cardinality(slots[s].mask) + 1 /\ Cardinality(slots[s].mask) \in Nat
        BY <4>1, MaskIs, FS_AddElement
      <4>3. Spent(b) + Cardinality(slots[s].mask) <= Cardinality(Used(b))
        BY <4>1 DEF BudgetInv, Budget
      <4> QED BY ONLY <1>1, <3>2, <4>2, <4>3
    <3> QED BY <3>3, <3>4
  <2> QED BY <2>1, <2>2, <2>3
<1> QED BY <1>3, <1>4 DEF Budget, DP!Slots

LEMMA InitBudget == Init => BudgetInv
<1> SUFFICES ASSUME Init PROVE BudgetInv
  OBVIOUS
<1>1. delivered = [b \in Blocks |-> <<>>] /\ pc = "recv"
  BY DEF Init
<1>2. ASSUME NEW b \in Blocks PROVE (\E S : delivered[b] \in Seq(S)) /\ Budget(b)
  <2>1. delivered[b] = <<>> /\ Len(delivered[b]) = 0 /\ delivered[b] \in Seq({})
    BY <1>1
  <2>2. Spent(b) = 0
    BY <1>1, <2>1, Sizes DEF Spent, Pushing
  <2>3. \A s \in DP!Slots : ~Holds(s, b)
    BY SameInit DEF Init, DP!Init, DP!SlotReset, Holds, InHand
  <2> QED BY <2>1, <2>2, <2>3, UsedIs DEF Budget
<1> QED BY <1>1, <1>2 DEF BudgetInv

\* What a step does that decodes nothing.
LEMMA BudgetGoesOn ==
  ASSUME Inv, BudgetInv, delivered' = delivered, OtherCall \/ PushDone,
         \A b \in Blocks :
           Cardinality(Used(b)') - Pushing(b)' >= Cardinality(Used(b)) - Pushing(b)
  PROVE  BudgetInv'
<1>1. \A b \in Blocks : Budget(b)'
  BY BudgetKept
<1> QED BY <1>1 DEF BudgetInv

\* ... and pushes nothing new.
LEMMA SameBudget ==
  ASSUME Inv, BudgetInv, delivered' = delivered, copies' = copies, OtherCall \/ PushDone,
         pc' # "push" \/ (pc' = pc /\ sym' = sym) \/ sym'.packet_id \notin Blocks
  PROVE  BudgetInv'
<1>1. ASSUME NEW b \in Blocks
      PROVE  Cardinality(Used(b)') - Pushing(b)' >= Cardinality(Used(b)) - Pushing(b)
  <2>1. Used(b)' = Used(b) /\ Cardinality(Used(b)) \in Nat
    BY UsedIs DEF Used
  <2>2. Pushing(b)' <= Pushing(b) /\ Pushing(b)' \in 0 .. 1 /\ Pushing(b) \in 0 .. 1
    BY DEF Pushing
  <2> QED BY ONLY <2>1, <2>2
<1> QED BY <1>1, BudgetGoesOn

\* One more symbol of block b from the link
LEMMA DeliverBudget ==
  ASSUME Inv, BudgetInv, NoDuplication,
         NEW b \in Blocks, NEW f \in 0 .. N - 1, NEW next, Deliver(b, f, next)
  PROVE  BudgetInv'
<1>1. /\ copies' = [copies EXCEPT ![b][f] = @ + 1] /\ copies[b][f] < MaxCopies
      /\ D!Tick(-1) /\ pc = "recv" /\ sym' = Wire[b][f] /\ delivered' = delivered
  BY DEF Deliver, Receive
<1>2. copies \in [Blocks -> [0 .. N - 1 -> 0 .. MaxCopies]]
  BY DEF Inv, TypeOK
<1>3. copies[b][f] = 0
  <2>1. copies[b][f] \in 0 .. MaxCopies /\ copies[b][f] < MaxCopies /\ MaxCopies \in Nat /\ MaxCopies <= 1
    BY <1>1, <1>2, RxAssumption DEF NoDuplication
  <2> QED BY ONLY <2>1
<1>4. ASSUME NEW c \in Blocks
      PROVE  Cardinality(Used(c)') - Pushing(c)' >= Cardinality(Used(c)) - Pushing(c)
  <2>1. Pushing(c) = 0 /\ Pushing(c)' \in 0 .. 1 /\ Cardinality(Used(c)) \in Nat
    BY <1>1, UsedIs DEF Pushing
  <2>2. CASE c = b
    <3>1. copies'[b] = [copies[b] EXCEPT ![f] = 1]
      BY <1>1, <1>2, <1>3
    <3>2. copies[b] \in [0 .. N - 1 -> 0 .. MaxCopies]
      BY <1>2
    <3>3. Used(b)' = Used(b) \cup {f} /\ f \notin Used(b)
      <4>1. /\ Used(b)' = {g \in 0 .. N - 1 : copies'[b][g] > 0}
            /\ Used(b) = {g \in 0 .. N - 1 : copies[b][g] > 0}
        BY DEF Used
      <4>2. \A g \in 0 .. N - 1 : copies'[b][g] = IF g = f THEN 1 ELSE copies[b][g]
        BY <3>1, <3>2
      <4> QED BY <1>3, <4>1, <4>2
    <3>4. Cardinality(Used(b)') = Cardinality(Used(b)) + 1
      BY <3>3, UsedIs, PositionsAre, FS_AddElement
    <3> QED BY ONLY <2>1, <2>2, <3>4
  <2>3. CASE c # b
    <3>1. copies'[c] = copies[c]
      BY <1>1, <1>2, <2>3
    <3>2. Used(c)' = Used(c)
      BY <3>1 DEF Used
    <3>3. Pushing(c)' = 0
      BY <1>1, <2>3, WireIs DEF Pushing
    <3> QED BY ONLY <2>1, <3>2, <3>3
  <2> QED BY <2>2, <2>3
<1> QED BY <1>1, <1>4, BudgetGoesOn DEF OtherCall

\* A decoding takes K symbols with it.
LEMMA DrainBudget == ASSUME Inv, BudgetInv, DrainBlock PROVE BudgetInv'
<1>0. \E x \in DP!Slots, y \in Blocks : x = ReadySlot /\ y = slots[ReadySlot].block_id
  BY DrainView
<1> PICK s \in DP!Slots, b \in Blocks : s = ReadySlot /\ b = slots[ReadySlot].block_id
  BY <1>0
<1>1. /\ slots[s].state = "READY" /\ slots[s].block_id = b
      /\ UNCHANGED <<pc, sym, copies, noise>>
  BY DrainView
<1>2. PICK decoded \in BOOLEAN :
        /\ D!MarkResult(b, decoded)
        /\ decoded => \E x : delivered' = [delivered EXCEPT ![b] = Append(@, x)]
        /\ ~decoded => delivered' = delivered
  BY DrainView
<1>3. OtherCall
  BY <1>2 DEF OtherCall
<1>4. CASE ~decoded
  BY <1>1, <1>2, <1>3, <1>4, SameBudget
<1>5. CASE decoded
  <2>1. PICK x : delivered' = [delivered EXCEPT ![b] = Append(@, x)]
    BY <1>2, <1>5
  <2>2. \A c \in Blocks : Used(c)' = Used(c) /\ Pushing(c)' = Pushing(c)
    BY <1>1 DEF Used, Pushing
  <2>3. DOMAIN delivered = Blocks /\ DOMAIN delivered' = Blocks /\ delivered'[b] = Append(delivered[b], x)
        /\ \A c \in Blocks \ {b} : delivered'[c] = delivered[c]
    BY <1>1, <2>1 DEF BudgetInv
  <2>4. ASSUME NEW c \in Blocks, c # b PROVE (\E S : delivered'[c] \in Seq(S)) /\ Budget(c)'
    <3>1. delivered'[c] = delivered[c] /\ Spent(c)' = Spent(c)
      BY <2>2, <2>3, <2>4 DEF Spent
    <3>2. \A t \in DP!Slots : Holds(t, c)' => Holds(t, c) /\ slots'[t].mask = slots[t].mask
      BY <1>3, OthersKeep DEF Inv, Holds, InHand, DP!Kept
    <3> QED BY <2>2, <3>1, <3>2 DEF BudgetInv, Budget, DP!Slots
  <2>5. \E S : delivered'[b] \in Seq(S) /\ Len(delivered'[b]) = Len(delivered[b]) + 1
    <3>1. PICK S : delivered[b] \in Seq(S)
      BY <1>1 DEF BudgetInv
    <3> DEFINE T == S \cup {x}
    <3>2. delivered[b] \in Seq(T) /\ x \in T
      BY <3>1
    <3> HIDE DEF T
    <3>3. Append(delivered[b], x) \in Seq(T) /\ Len(Append(delivered[b], x)) = Len(delivered[b]) + 1
      BY <3>2
    <3> QED BY <2>3, <3>3
  <2>6. Holds(s, b)
    BY <1>1 DEF Holds, InHand
  <2>7. Spent(b) + Cardinality(slots[s].mask) <= Cardinality(Used(b))
    BY <1>1, <2>6 DEF BudgetInv, Budget
  <2>8. Cardinality(slots[s].mask) >= K
    BY <1>1, SameCardinality DEF Inv, DP!IInv, DP!ReadyDecodable, DP!Decodable
  <2>9. Spent(b)' = Spent(b) + K /\ Spent(b) \in Nat
    <3>1. Spent(b) = K * Len(delivered[b]) + Pushing(b) /\ Len(delivered[b]) \in Nat
          /\ Pushing(b) \in 0 .. 1 /\ K * Len(delivered[b]) \in Nat
      BY <1>1, SpentIs
    <3>2. Spent(b)' = K * Len(delivered'[b]) + Pushing(b)
      BY <1>1, <2>2 DEF Spent
    <3>3. K * (Len(delivered[b]) + 1) = K * Len(delivered[b]) + K
      BY <3>1, Sizes
    <3>4. Len(delivered'[b]) = Len(delivered[b]) + 1 /\ K \in Nat
      BY <2>5, Sizes
    <3> DEFINE c == K * Len(delivered[b])
               d == K * (Len(delivered[b]) + 1)
    <3>5. Spent(b)' = d + Pushing(b)
      BY <3>2, <3>4
    <3>6. Spent(b) = c + Pushing(b) /\ c \in Nat /\ d = c + K /\ Pushing(b) \in Nat
      BY <3>1, <3>3
    <3> HIDE DEF c, d
    <3> QED BY <3>4, <3>5, <3>6
  <2>10. Spent(b)' <= Cardinality(Used(b)')
    <3>1. Cardinality(Used(b)) \in Nat /\ Cardinality(slots[s].mask) \in Nat /\ K \in Nat
      BY <1>1, UsedIs, MaskIs, Sizes
    <3>2. Used(b)' = Used(b)
      BY <1>1, <2>2
    <3> QED BY ONLY <2>7, <2>8, <2>9, <3>1, <3>2
  <2>11. ASSUME NEW t \in DP!Slots, Holds(t, b)' PROVE FALSE
    <3>1. DP!MarkResult(b, decoded)
      BY <1>2, SameMark
    <3>2. DP!SlotOf(b) \in DP!FindSlotAny(b) /\ slots' = [slots EXCEPT ![DP!SlotOf(b)] = DP!SlotReset]
      BY <3>1, SlotsAssumption, DP!SlotOfIn DEF DP!MarkResult
    <3>3. DP!SlotOf(b) \in DP!Slots /\ Holds(DP!SlotOf(b), b)
      BY <3>2 DEF DP!FindSlotAny, Holds, InHand
    <3>4. Holds(t, b)
      BY <1>3, <2>11, OthersKeep DEF Inv, Holds, InHand, DP!Kept
    <3>5. t = DP!SlotOf(b)
      BY <3>3, <3>4 DEF Holds, InHand, Inv, DP!IInv, DP!UniqueBlocks
    <3>6. slots'[t] = DP!SlotReset
      BY <3>2, <3>3, <3>5 DEF Inv, DP!IInv, DP!TypeOK
    <3> QED BY <2>11, <3>6 DEF Holds, InHand, DP!SlotReset
  <2>12. Budget(b)'
    BY <2>10, <2>11 DEF Budget, DP!Slots
  <2> QED BY <2>3, <2>4, <2>5, <2>12 DEF BudgetInv
<1> QED BY <1>4, <1>5

LEMMA NextBudget == NoDuplication /\ Inv /\ BudgetInv /\ [Next]_vars => BudgetInv'
<1> SUFFICES ASSUME NoDuplication, Inv, BudgetInv, [Next]_vars PROVE BudgetInv'
  OBVIOUS
<1>1. Idle \/ Ignore => BudgetInv'
  BY SameBudget DEF Idle, Ignore, Receive, OtherCall
<1>2. ReceiveFiller => BudgetInv'
  <2>1. Filler.packet_id \notin Blocks
    BY BlocksAre DEF Filler
  <2> QED BY <2>1, SameBudget DEF ReceiveFiller, Receive, OtherCall
<1>3. ASSUME NEW b \in Blocks, NEW f \in 0 .. N - 1, ReceiveSymbol(b, f) \/ ReceiveCorrupt(b, f)
      PROVE  BudgetInv'
  BY <1>3, DeliverBudget DEF ReceiveSymbol, ReceiveCorrupt
<1>4. CountCrcDrop => BudgetInv'
  BY SameBudget DEF CountCrcDrop, OtherCall
<1>5. Push => BudgetInv'
  BY SameBudget DEF Push, PushDone
<1>6. DrainBlock => BudgetInv'
  BY DrainBudget
<1>7. DrainDone \/ Advance \/ UNCHANGED vars => BudgetInv'
  BY SameBudget DEF DrainDone, Advance, vars, OtherCall
<1> QED BY <1>1, <1>2, <1>3, <1>4, <1>5, <1>6, <1>7 DEF Next

LEMMA BudgetDelivered == NoDuplication /\ Inv /\ BudgetInv => DeliveredOnce
<1> SUFFICES ASSUME NoDuplication, BudgetInv, NEW b \in Blocks PROVE Len(delivered[b]) <= 1
  BY DEF DeliveredOnce
<1>1. /\ Len(delivered[b]) \in Nat /\ K * Len(delivered[b]) \in Nat
      /\ K * Len(delivered[b]) <= Cardinality(Used(b)) /\ Cardinality(Used(b)) \in Nat
  BY SpentIs, UsedIs DEF BudgetInv, Budget
<1>2. Cardinality(Used(b)) <= N
  BY UsedIs, PositionsAre
<1>3. ASSUME Len(delivered[b]) >= 2 PROVE FALSE
  <2>1. K * 2 <= K * Len(delivered[b])
    BY <1>1, <1>3, Sizes, TimesGrows
  <2> QED BY <1>1, <1>2, <2>1, Sizes DEF NoDuplication
<1> QED BY <1>1, <1>3

\* On a link that delivers no symbol twice, and with more source than repair
\* symbols in a block, no block is decoded twice, although symbols that come late
\* open a block again after its verdict: they are too few.
THEOREM DecodedAtMostOnce ==
  ASSUME NoDuplication
  PROVE  Spec => []DeliveredOnce
<1>1. Init => BudgetInv
  BY InitBudget
<1>2. Inv /\ BudgetInv /\ [Next]_vars => BudgetInv'
  BY NextBudget
<1>3. Inv /\ BudgetInv => DeliveredOnce
  BY BudgetDelivered
<1> QED BY <1>1, <1>2, <1>3, SpecInv, PTL DEF Spec

-----------------------------------------------------------------------------
(* Packets and their fragments                                               *)

LEMMA CeilDivIs ==
  ASSUME NEW a \in Nat \ {0}, NEW b \in Nat \ {0}
  PROVE  /\ CeilDiv(a, b) \in Nat \ {0}
         /\ (CeilDiv(a, b) - 1) * b < a /\ a <= CeilDiv(a, b) * b
<1> DEFINE c == a + b - 1
           q == c \div b
           r == c % b
<1>1. c \in Int
  OBVIOUS
<1> HIDE DEF c
<1>2. c = q * b + r /\ q \in Int
  BY <1>1
<1>3. r \in 0 .. b - 1
  BY <1>1, ModRange
<1> HIDE DEF q, r
<1>4. q * b \in Int /\ (q - 1) * b = q * b - b
  BY <1>2
<1>5. a <= q * b /\ (q - 1) * b < a
  BY <1>2, <1>3, <1>4 DEF c
<1>6. q >= 1
  <2>1. CASE q <= 0
    <3>1. q * b <= 0 * b /\ 0 * b = 0
      BY <1>2, <2>1, TimesGrows
    <3> QED BY <1>4, <1>5, <3>1
  <2> QED BY <1>2, <2>1
<1> QED BY <1>2, <1>5, <1>6 DEF CeilDiv, c, q

\* What a symbol carries that is fragment i of n of a packet: how much of it, and
\* which bytes.
Carries(f, pkt, size, n, i) ==
  /\ f.symbol_index = i /\ f.total_symbols = n
  /\ f.payload_len \in Nat \ {0}
  /\ i * size \in Nat /\ i * size + f.payload_len <= Len(pkt)
  /\ i = n - 1 => i * size + f.payload_len = Len(pkt)
  /\ i # n - 1 => f.payload_len = size
  /\ f.data \in Seq(Nat) /\ f.payload_len <= Len(f.data)
  /\ \A p \in 1 .. f.payload_len : f.data[p] = pkt[i * size + p]

LEMMA FragmentCarries ==
  ASSUME NEW pkt \in Seq(Nat), NEW S \in Nat \ {0}, Len(pkt) >= 1, NEW id, NEW n,
         n = NumFragments(Len(pkt), S), NEW i \in 0 .. n - 1
  PROVE  Carries(FragmentAt(pkt, id, S, n, i), pkt, S, n, i)
<1> DEFINE f == FragmentAt(pkt, id, S, n, i)
           L == Len(pkt)
           from == i * S
           next == (i + 1) * S
           to == IF next < L THEN next ELSE L
           bytes == SubSeq(pkt, from + 1, to)
           zeros == Zeros(S - Len(bytes))
<1>1. L \in Nat \ {0} /\ n \in Nat \ {0} /\ (n - 1) * S < L /\ L <= n * S
  BY CeilDivIs DEF NumFragments
<1>2. i \in Nat /\ from \in Nat /\ next = from + S /\ next \in Nat /\ S \in Nat \ {0}
  BY <1>1
<1>3. i = n - 1 => from < L /\ L <= next
  BY <1>1, SMTT(30)
<1>4. i # n - 1 => next < L
  <2>1. CASE i # n - 1
    <3>0. n \in Nat /\ i \in Nat
      BY <1>1, <1>2
    <3>1. i + 1 <= n - 1 /\ i + 1 \in Int /\ n - 1 \in Int
      BY <2>1, <3>0
    <3>2. (i + 1) * S <= (n - 1) * S /\ (n - 1) * S \in Int
      BY <1>2, <3>1, TimesGrows
    <3> QED BY <1>1, <1>2, <3>2
  <2> QED BY <2>1
<1> HIDE DEF L, from, next
<1>5. /\ to \in Nat /\ from < to /\ to <= L /\ to - from <= S
      /\ i = n - 1 => to = L
      /\ i # n - 1 => to = from + S
  BY <1>1, <1>2, <1>3, <1>4
<1> HIDE DEF to
<1>6. /\ bytes \in Seq(Nat) /\ Len(bytes) = to - from
      /\ \A p \in 1 .. to - from : bytes[p] = pkt[from + p]
  <2>1. from + 1 \in 1 .. Len(pkt) /\ to \in 1 .. Len(pkt) /\ from + 1 <= to
    BY <1>1, <1>2, <1>5 DEF L
  <2>2. bytes \in Seq(Nat) /\ Len(bytes) = to - (from + 1) + 1
    BY <2>1
  <2>3. \A p \in 1 .. to - (from + 1) + 1 : bytes[p] = pkt[(from + 1) + p - 1]
    BY <2>1
  <2> HIDE DEF bytes
  <2>4. to - (from + 1) + 1 = to - from
    BY <1>2, <1>5
  <2>5. \A p \in 1 .. to - from : (from + 1) + p - 1 = from + p
    BY <1>2, <1>5
  <2> QED BY <2>2, <2>3, <2>4, <2>5
<1> HIDE DEF bytes
<1>7. zeros \in Seq(Nat) /\ Len(zeros) \in Nat
  <2>1. S - Len(bytes) \in Nat
    BY <1>2, <1>5, <1>6
  <2> QED BY <2>1 DEF Zeros
<1> HIDE DEF zeros
<1>8. /\ bytes \o zeros \in Seq(Nat) /\ Len(bytes) <= Len(bytes \o zeros)
      /\ \A p \in 1 .. Len(bytes) : (bytes \o zeros)[p] = bytes[p]
  BY <1>6, <1>7
<1>9. f = [packet_id |-> id, symbol_index |-> i, total_symbols |-> n,
           payload_len |-> Len(bytes), data |-> bytes \o zeros]
  BY DEF FragmentAt, Slice, bytes, zeros, from, next, to, L
<1> HIDE DEF f
<1>10. /\ f.symbol_index = i /\ f.total_symbols = n
       /\ f.payload_len = Len(bytes) /\ f.data = bytes \o zeros
  BY <1>9
<1>11. /\ f.payload_len \in Nat \ {0} /\ from + f.payload_len = to
       /\ f.data \in Seq(Nat) /\ f.payload_len <= Len(f.data)
       /\ \A p \in 1 .. f.payload_len : f.data[p] = pkt[from + p]
  BY <1>2, <1>5, <1>6, <1>8, <1>10
<1>12. /\ from + f.payload_len <= Len(pkt)
       /\ i = n - 1 => from + f.payload_len = Len(pkt)
       /\ i # n - 1 => f.payload_len = S
  <2> DEFINE m == f.payload_len
  <2>1. m \in Nat /\ from + m = to
    BY <1>11
  <2> HIDE DEF m
  <2>2. /\ from + m <= L
        /\ i = n - 1 => from + m = L
        /\ i # n - 1 => m = S
    BY <1>1, <1>2, <1>5, <2>1
  <2> QED BY <2>2 DEF L, m
<1>13. Carries(f, pkt, S, n, i)
  BY <1>2, <1>10, <1>11, <1>12 DEF Carries, from
<1> QED BY <1>13 DEF f

LEMMA GreatestOf ==
  ASSUME NEW n \in Nat, NEW T, T \subseteq 0 .. n, T # {}
  PROVE  \E x \in T : \A y \in T : y <= x
<1> DEFINE R == {n - x : x \in T}
<1>1. R \subseteq Nat /\ R # {}
  <2>1. \A x \in T : n - x \in Nat
    OBVIOUS
  <2> QED BY <2>1
<1>2. PICK m \in R : \A k \in R : m <= k
  <2> HIDE DEF R
  <2> QED BY <1>1, LeastOf
<1>3. PICK x \in T : m = n - x
  BY <1>2
<1>4. ASSUME NEW y \in T PROVE y <= x
  <2>1. n - y \in R
    BY <1>4
  <2> HIDE DEF R
  <2>2. x \in Int /\ y \in Int
    BY <1>4
  <2>3. n - x <= n - y
    BY <1>2, <1>3, <2>1
  <2> QED BY <2>2, <2>3
<1> QED BY <1>4

\* The fragment a byte is in
LEMMA ByteIsIn ==
  ASSUME NEW S \in Nat \ {0}, NEW n \in Nat, NEW L \in Nat, L <= n * S, NEW p \in 1 .. L
  PROVE  \E i \in 0 .. n - 1 : i * S < p /\ p <= i * S + S
<1> DEFINE q == (p - 1) \div S
           r == (p - 1) % S
<1>1. p - 1 \in Int /\ p - 1 = q * S + r /\ q \in Int /\ r \in 0 .. S - 1
  BY ModRange
<1> HIDE DEF q, r
<1>2. q * S \in Int /\ q * S < p /\ p <= q * S + S
  BY <1>1
<1>3. q >= 0
  <2>1. CASE q <= -1
    <3>1. q * S <= (-1) * S /\ (-1) * S = -S
      BY <1>1, <2>1, TimesGrows
    <3> QED BY <1>2, <3>1
  <2> QED BY <1>1, <2>1
<1>4. q <= n - 1
  <2>1. CASE q >= n
    <3>1. n * S <= q * S
      BY <1>1, <2>1, TimesGrows
    <3>2. n * S \in Int
      OBVIOUS
    <3> QED BY <1>2, <3>1, <3>2
  <2> QED BY <1>1, <2>1
<1> QED BY <1>1, <1>2, <1>3, <1>4

\* The symbols of a packet of one fragment or of more
LEMMA StrideIs ==
  ASSUME NEW n \in Nat \ {0}, NEW syms, DOMAIN syms = 1 .. n,
         syms[1].total_symbols = n, \A j \in 1 .. n : syms[j].symbol_index \in 0 .. n - 1,
         n # 1 => \E j \in 1 .. n : syms[j].symbol_index = 0
  PROVE  /\ n = 1 => FirstNonLast(syms) = 0
         /\ n # 1 => /\ FirstNonLast(syms) \in 1 .. n
                     /\ syms[FirstNonLast(syms)].symbol_index # n - 1
<1> DEFINE found == {i \in DOMAIN syms : syms[i].symbol_index # n - 1}
<1>1. FirstNonLast(syms) =
        IF found = {} THEN 0 ELSE CHOOSE i \in found : \A j \in found : i <= j
  BY DEF FirstNonLast
<1>2. CASE n = 1
  <2>1. found = {}
    BY <1>2
  <2> QED BY <1>1, <1>2, <2>1
<1>3. CASE n # 1
  <2>1. found # {} /\ found \subseteq Nat
    BY <1>3
  <2> HIDE DEF found
  <2>2. \E i \in found : \A j \in found : i <= j
    BY <2>1, LeastOf
  <2>3. FirstNonLast(syms) \in found
    BY <1>1, <2>1, <2>2
  <2> QED BY <1>3, <2>3 DEF found
<1> QED BY <1>2, <1>3

\* The n symbols of a packet, each once and in some order, by what they carry
AllOf(syms, pkt, size, n) ==
  /\ DOMAIN syms = 1 .. n
  /\ \A j \in 1 .. n : /\ syms[j].symbol_index \in 0 .. n - 1
                       /\ Carries(syms[j], pkt, size, n, syms[j].symbol_index)
  /\ \A i \in 0 .. n - 1 : \E j \in 1 .. n : syms[j].symbol_index = i

\* What the copies leave in the buffer
LEMMA LayoutIs ==
  ASSUME NEW pkt \in Seq(Nat), NEW S \in Nat \ {0}, NEW n \in Nat \ {0},
         Len(pkt) <= n * S, NEW syms, AllOf(syms, pkt, S, n)
  PROVE  Layout(syms, S) = pkt
<1> DEFINE L == Len(pkt)
           ends == {EndOf(syms, S, i) : i \in DOMAIN syms}
           len == CHOOSE e \in ends : \A d \in ends : d <= e
           Writers(p) == {i \in DOMAIN syms : Offset(syms, S, i) < p /\ p <= EndOf(syms, S, i)}
           byte(p) == IF Writers(p) = {} THEN 0
                      ELSE LET i == CHOOSE i \in Writers(p) : \A j \in Writers(p) : j <= i
                           IN syms[i].data[p - Offset(syms, S, i)]
<1>0. /\ DOMAIN syms = 1 .. n
      /\ \A j \in 1 .. n : /\ syms[j].symbol_index \in 0 .. n - 1
                           /\ Carries(syms[j], pkt, S, n, syms[j].symbol_index)
      /\ \A i \in 0 .. n - 1 : \E j \in 1 .. n : syms[j].symbol_index = i
  BY DEF AllOf
<1> USE <1>0
<1>1. L \in Nat /\ L <= n * S
  OBVIOUS
<1> HIDE DEF L
<1>2. ASSUME NEW j \in 1 .. n
      PROVE  /\ Offset(syms, S, j) \in Nat /\ EndOf(syms, S, j) \in Nat
             /\ Offset(syms, S, j) = syms[j].symbol_index * S
             /\ EndOf(syms, S, j) = Offset(syms, S, j) + syms[j].payload_len
             /\ EndOf(syms, S, j) <= L
             /\ syms[j].symbol_index = n - 1 => EndOf(syms, S, j) = L
             /\ syms[j].symbol_index # n - 1 => syms[j].payload_len = S
             /\ syms[j].payload_len \in Nat
             /\ \A p \in 1 .. syms[j].payload_len :
                  syms[j].data[p] = pkt[Offset(syms, S, j) + p]
  <2> DEFINE o == syms[j].symbol_index * S
             f == syms[j]
  <2>1. /\ o \in Nat /\ o + f.payload_len <= L /\ f.payload_len \in Nat
        /\ f.symbol_index = n - 1 => o + f.payload_len = L
        /\ f.symbol_index # n - 1 => f.payload_len = S
        /\ \A p \in 1 .. f.payload_len : f.data[p] = pkt[o + p]
    BY <1>2 DEF Carries, L
  <2>2. Offset(syms, S, j) = o /\ EndOf(syms, S, j) = o + f.payload_len
    BY DEF Offset, EndOf
  <2> HIDE DEF o, f
  <2>3. /\ Offset(syms, S, j) \in Nat /\ EndOf(syms, S, j) \in Nat
        /\ EndOf(syms, S, j) = Offset(syms, S, j) + f.payload_len
        /\ EndOf(syms, S, j) <= L
        /\ f.symbol_index = n - 1 => EndOf(syms, S, j) = L
        /\ \A p \in 1 .. f.payload_len : f.data[p] = pkt[Offset(syms, S, j) + p]
    BY <1>1, <2>1, <2>2
  <2> QED BY <2>1, <2>2, <2>3 DEF o, f
<1>2a. len = L
  <2>1. \A e \in ends : e \in Nat /\ e <= L
    BY <1>2
  <2>2. PICK j \in 1 .. n : syms[j].symbol_index = n - 1
    <3>1. n - 1 \in 0 .. n - 1
      OBVIOUS
    <3> QED BY <3>1
  <2>3. L \in ends
    BY <1>2, <2>2
  <2> HIDE DEF ends
  <2>4. \A e \in ends : (\A d \in ends : d <= e) => e = L
    BY <1>1, <2>1, <2>3
  <2> QED BY <2>1, <2>3, <2>4
<1>3. ASSUME NEW p \in 1 .. L PROVE byte(p) = pkt[p]
  <2>1. PICK i \in 0 .. n - 1 : i * S < p /\ p <= i * S + S
    <3>1. L <= n * S /\ p \in 1 .. L /\ L \in Nat /\ n \in Nat
      BY <1>1, <1>3
    <3> QED BY <3>1, ByteIsIn, Zenon
  <2>2. PICK j \in 1 .. n : syms[j].symbol_index = i
    BY <2>1
  <2>3. j \in Writers(p)
    <3> DEFINE o == Offset(syms, S, j)
               m == syms[j].payload_len
    <3>1. o < p /\ p <= o + S
      BY <1>2, <2>1, <2>2
    <3>2. /\ o \in Nat /\ m \in Nat /\ EndOf(syms, S, j) = o + m
          /\ i = n - 1 => EndOf(syms, S, j) = L
          /\ i # n - 1 => m = S
      BY <1>2, <2>2
    <3> HIDE DEF o, m
    <3>3. p <= EndOf(syms, S, j)
      BY <3>1, <3>2
    <3> QED BY <3>1, <3>3 DEF o
  <2>4. Writers(p) \subseteq 0 .. n /\ Writers(p) # {}
    <3>1. Writers(p) \subseteq DOMAIN syms
      OBVIOUS
    <3>2. DOMAIN syms \subseteq 0 .. n
      OBVIOUS
    <3> HIDE DEF Writers
    <3> QED BY <2>3, <3>1, <3>2
  <2> DEFINE w == CHOOSE k \in Writers(p) : \A m \in Writers(p) : m <= k
             W == Writers(p)
  <2>5. w \in W
    <3>1. W \subseteq 0 .. n /\ W # {}
      BY <2>4
    <3> HIDE DEF W
    <3>2. \E k \in W : \A m \in W : m <= k
      BY <3>1, GreatestOf
    <3>3. w = CHOOSE k \in W : \A m \in W : m <= k
      BY DEF W
    <3> HIDE DEF w
    <3> QED BY <3>2, <3>3
  <2>6. /\ w \in 1 .. n /\ Offset(syms, S, w) < p /\ p <= EndOf(syms, S, w)
    BY <2>5
  <2>7. byte(p) = syms[w].data[p - Offset(syms, S, w)]
    BY <2>4
  <2> HIDE DEF w, byte
  <2> DEFINE o == Offset(syms, S, w)
             m == syms[w].payload_len
  <2>8. o \in Nat /\ o < p /\ p <= o + m /\ m \in Nat
    BY <1>2, <2>6
  <2>9. \A k \in 1 .. m : syms[w].data[k] = pkt[o + k]
    BY <1>2, <2>6
  <2> HIDE DEF o, m
  <2>10. p - o \in 1 .. m /\ o + (p - o) = p
    BY <1>1, <2>8
  <2> QED BY <2>7, <2>9, <2>10 DEF o
<1>4. Layout(syms, S) = [p \in 1 .. len |-> byte(p)]
  BY DEF Layout
<1> HIDE DEF byte, len
<1>5. Layout(syms, S) = [p \in 1 .. Len(pkt) |-> pkt[p]]
  BY <1>2a, <1>3, <1>4 DEF L
<1> QED BY <1>5

\* The fragments of a packet, each once and in some order
Shuffled(syms, pkt, id, size, n) ==
  /\ n = NumFragments(Len(pkt), size)
  /\ DOMAIN syms = 1 .. n /\ Len(syms) = n
  /\ \A j \in 1 .. n : \E i \in 0 .. n - 1 : syms[j] = FragmentAt(pkt, id, size, n, i)
  /\ \A i \in 0 .. n - 1 : \E j \in 1 .. n : syms[j] = FragmentAt(pkt, id, size, n, i)

LEMMA PutTogether ==
  ASSUME NEW pkt \in Seq(Nat), NEW S \in Nat \ {0}, Len(pkt) >= 1, NEW id, NEW n,
         NEW syms, Shuffled(syms, pkt, id, S, n), NEW max \in Nat, Len(pkt) <= max
  PROVE  Reassemble(syms, max) = Succeed(pkt)
<1>0. /\ n = NumFragments(Len(pkt), S) /\ DOMAIN syms = 1 .. n /\ Len(syms) = n
      /\ \A j \in 1 .. n : \E i \in 0 .. n - 1 : syms[j] = FragmentAt(pkt, id, S, n, i)
      /\ \A i \in 0 .. n - 1 : \E j \in 1 .. n : syms[j] = FragmentAt(pkt, id, S, n, i)
  BY DEF Shuffled
<1> USE <1>0
<1>1. n \in Nat \ {0} /\ Len(pkt) \in Nat \ {0} /\ Len(pkt) <= n * S
  BY CeilDivIs DEF NumFragments
<1>2. ASSUME NEW j \in 1 .. n
      PROVE  /\ syms[j].symbol_index \in 0 .. n - 1
             /\ syms[j].packet_id = id /\ syms[j].total_symbols = n
             /\ Carries(syms[j], pkt, S, n, syms[j].symbol_index)
  <2>1. PICK i \in 0 .. n - 1 : syms[j] = FragmentAt(pkt, id, S, n, i)
    BY <1>2
  <2>2. Carries(FragmentAt(pkt, id, S, n, i), pkt, S, n, i)
    BY FragmentCarries
  <2>3. syms[j].packet_id = id
    BY <2>1 DEF FragmentAt
  <2>4. syms[j].symbol_index = i /\ syms[j].total_symbols = n
    BY <2>1, <2>2 DEF Carries
  <2> QED BY <2>1, <2>2, <2>3, <2>4
<1>3. \A i \in 0 .. n - 1 : \E j \in 1 .. n : syms[j].symbol_index = i
  <2> TAKE i \in 0 .. n - 1
  <2>1. PICK j \in 1 .. n : syms[j] = FragmentAt(pkt, id, S, n, i)
    OBVIOUS
  <2>2. syms[j].symbol_index = i
    BY <2>1 DEF FragmentAt
  <2> QED BY <2>2
<1>4. 1 \in 1 .. n /\ 0 \in 0 .. n - 1 /\ syms # <<>>
  BY <1>1
<1>5. /\ n = 1 => FirstNonLast(syms) = 0
      /\ n # 1 => /\ FirstNonLast(syms) \in 1 .. n
                  /\ syms[FirstNonLast(syms)].symbol_index # n - 1
  <2>1. /\ syms[1].total_symbols = n /\ \A j \in 1 .. n : syms[j].symbol_index \in 0 .. n - 1
        /\ \E j \in 1 .. n : syms[j].symbol_index = 0
    BY <1>2, <1>3, <1>4
  <2> QED BY <1>1, <2>1, StrideIs
<1> DEFINE first == FirstNonLast(syms)
           stop == IF first = 0 THEN n ELSE first
<1>6. Consistent(syms)
  <2>1. stop \in 1 .. n
    <3>1. n \in 1 .. n
      BY <1>1
    <3>2. first = 0 \/ first \in 1 .. n
      BY <1>5
    <3> HIDE DEF first
    <3> QED BY <3>1, <3>2
  <2>2. \A i \in 1 .. n : /\ syms[i].symbol_index < syms[1].total_symbols
                          /\ syms[i].packet_id = syms[1].packet_id
                          /\ syms[i].total_symbols = syms[1].total_symbols
    <3>1. TAKE i \in 1 .. n
    <3>2. /\ syms[i].symbol_index \in 0 .. n - 1
          /\ syms[i].packet_id = id /\ syms[i].total_symbols = n
      BY <1>2
    <3>3. syms[1].packet_id = id /\ syms[1].total_symbols = n
      BY <1>2, <1>4
    <3>4. syms[i].symbol_index < n
      <4> HIDE <1>0
      <4> QED BY <1>1, <3>2
    <3> QED BY <3>2, <3>3, <3>4
  <2>3. stop \in Nat /\ stop <= n
    BY <1>1, <2>1
  <2> HIDE DEF stop
  <2>4. \A i \in 1 .. stop : i \in 1 .. n
    BY <1>1, <2>3
  <2>5. \A i \in 1 .. stop : /\ syms[i].symbol_index < syms[1].total_symbols
                             /\ syms[i].packet_id = syms[1].packet_id
                             /\ syms[i].total_symbols = syms[1].total_symbols
    BY <2>2, <2>4
  <2> QED BY <2>5 DEF Consistent, stop
<1>7. /\ syms # <<>> /\ syms[1].total_symbols = n /\ n # 0 /\ Len(syms) = n
  BY <1>1, <1>2, <1>4
<1> HIDE DEF first
<1>8. CASE n = 1
  <2> DEFINE f == syms[1]
             d == f.data
             m == f.payload_len
  <2>1. first = 0
    BY <1>5, <1>8 DEF first
  <2>2. f.symbol_index = 0 /\ 0 = n - 1 /\ Carries(f, pkt, S, n, f.symbol_index)
    BY <1>2, <1>4, <1>8
  <2>3. Carries(f, pkt, S, n, 0)
    BY <2>2
  <2> HIDE DEF f
  <2>4. /\ d \in Seq(Nat) /\ m \in Nat /\ m <= Len(d) /\ 0 * S + m = Len(pkt)
        /\ \A p \in 1 .. m : d[p] = pkt[0 * S + p]
    BY <2>2, <2>3 DEF Carries
  <2> HIDE DEF d, m
  <2>5. 0 * S = 0
    OBVIOUS
  <2>6. m = Len(pkt) /\ \A p \in 1 .. m : d[p] = pkt[p]
    <3>1. m = Len(pkt)
      BY <1>1, <2>4, <2>5
    <3>2. \A p \in 1 .. m : d[p] = pkt[0 + p] /\ 0 + p = p
      BY <2>4, <2>5
    <3> QED BY <3>1, <3>2
  <2>7. SubSeq(d, 1, m) = pkt
    <3>1. SubSeq(d, 1, m) = [p \in 1 .. m |-> d[p]]
      BY <2>4
    <3>2. [p \in 1 .. m |-> d[p]] = [p \in 1 .. Len(pkt) |-> pkt[p]]
      BY <2>6
    <3>3. [p \in 1 .. Len(pkt) |-> pkt[p]] = pkt
      OBVIOUS
    <3> QED BY <3>1, <3>2, <3>3
  <2>8. ~(m > max)
    BY <1>1, <2>6
  <2> QED BY <1>6, <1>7, <2>1, <2>7, <2>8 DEF Reassemble, first, d, m, f
<1>9. CASE n # 1
  <2>1. first \in 1 .. n /\ first # 0 /\ syms[first].symbol_index # n - 1
    BY <1>1, <1>5, <1>9 DEF first
  <2>2. syms[first].payload_len = S
    <3>1. Carries(syms[first], pkt, S, n, syms[first].symbol_index)
      BY <1>2, <2>1
    <3> QED BY <2>1, <3>1 DEF Carries
  <2>3. ASSUME NEW i \in 1 .. n PROVE ~(EndOf(syms, S, i) > max)
    <3> DEFINE o == syms[i].symbol_index * S
               m == syms[i].payload_len
    <3>1. o \in Nat /\ m \in Nat /\ o + m <= Len(pkt)
      BY <1>2, <2>3 DEF Carries
    <3>2. EndOf(syms, S, i) = o + m
      BY DEF EndOf, Offset
    <3> HIDE DEF o, m
    <3> QED BY <1>1, <3>1, <3>2
  <2>4. Layout(syms, S) = pkt
    <3>1. \A j \in 1 .. n : /\ syms[j].symbol_index \in 0 .. n - 1
                            /\ Carries(syms[j], pkt, S, n, syms[j].symbol_index)
      BY <1>2
    <3>2. AllOf(syms, pkt, S, n)
      BY <1>3, <3>1 DEF AllOf
    <3> QED BY <1>1, <3>2, LayoutIs
  <2>5. S # 0
    OBVIOUS
  <2> QED BY <1>6, <1>7, <2>1, <2>2, <2>3, <2>4, <2>5 DEF Reassemble, first
<1> QED BY <1>8, <1>9

-----------------------------------------------------------------------------
(* The fragmenter and the reassembler against each other                    *)

\* What is handed over are symbols of one packet or the other, that had room.
GivenInv ==
  /\ lens \in [1 .. 2 -> 1 .. MaxLen]
  /\ given \in Seq(ToSet(Frags(1)) \cup ToSet(Frags(2)))
  /\ \A j \in 1 .. Len(given) : \E id \in 1 .. 2 :
       given[j] \in ToSet(Frags(id)) /\ ~TooBig(Packet(id), FragSize, MaxFrags)

LEMMA PacketIs ==
  ASSUME lens \in [1 .. 2 -> 1 .. MaxLen], NEW id \in 1 .. 2
  PROVE  /\ Packet(id) \in Seq(Nat) /\ Len(Packet(id)) = lens[id] /\ lens[id] \in 1 .. MaxLen
         /\ NumFragments(lens[id], FragSize) \in Nat \ {0}
         /\ Frags(id) = [i \in 1 .. NumFragments(lens[id], FragSize) |->
                           FragmentAt(Packet(id), id, FragSize,
                                      NumFragments(lens[id], FragSize), i - 1)]
<1>1. lens[id] \in 1 .. MaxLen /\ lens[id] \in Nat \ {0}
  BY FragAssumption DEF FragAssumption
<1>2. Packet(id) \in Seq(Nat) /\ Len(Packet(id)) = lens[id]
  BY <1>1 DEF Packet
<1>3. NumFragments(lens[id], FragSize) \in Nat \ {0}
  BY <1>1, CeilDivIs, FragAssumption DEF NumFragments, FragAssumption
<1> QED BY <1>1, <1>2, <1>3 DEF Frags, Fragment

LEMMA GivenStep == GivenInv /\ [FragNext]_fragVars => GivenInv'
<1> SUFFICES ASSUME GivenInv, [FragNext]_fragVars PROVE GivenInv'
  OBVIOUS
<1>1. CASE UNCHANGED fragVars
  BY <1>1 DEF fragVars, GivenInv, Frags, Packet
<1>2. ASSUME NEW id \in 1 .. 2, NEW i \in DOMAIN Frags(id), Give(id, i) PROVE GivenInv'
  <2> DEFINE All == ToSet(Frags(1)) \cup ToSet(Frags(2))
             x == Frags(id)[i]
  <2>1. lens' = lens /\ given' = Append(given, x)
    BY <1>2 DEF Give
  <2>2. \A k \in 1 .. 2 : Frags(k)' = Frags(k) /\ Packet(k)' = Packet(k)
    BY <2>1 DEF Frags, Packet
  <2>3. x \in ToSet(Frags(id)) /\ x \in All
    BY <1>2 DEF ToSet
  <2>4. given \in Seq(All)
    BY DEF GivenInv
  <2> HIDE DEF All, x
  <2>5. /\ given' \in Seq(All) /\ Len(given') = Len(given) + 1 /\ Len(given) \in Nat
        /\ \A j \in 1 .. Len(given) : given'[j] = given[j]
        /\ given'[Len(given) + 1] = x
    BY <2>1, <2>3, <2>4
  <2>6. All' = All
    BY <2>2 DEF All
  <2>7. ASSUME NEW j \in 1 .. Len(given')
        PROVE  \E k \in 1 .. 2 : /\ given'[j] \in ToSet(Frags(k))
                                 /\ ~TooBig(Packet(k), FragSize, MaxFrags)
    <3>1. CASE j = Len(given) + 1
      BY <1>2, <2>3, <2>5, <3>1 DEF Give
    <3>2. CASE j # Len(given) + 1
      <4>1. j \in 1 .. Len(given)
        BY <2>5, <3>2
      <4> QED BY <2>5, <4>1 DEF GivenInv
    <3> QED BY <3>1, <3>2
  <2>8. given' \in Seq(All')
    BY <2>5, <2>6
  <2>9. lens' \in [1 .. 2 -> 1 .. MaxLen]
    BY <2>1 DEF GivenInv
  <2> QED BY <2>2, <2>7, <2>8, <2>9 DEF GivenInv, All
<1> QED BY <1>1, <1>2 DEF FragNext

LEMMA OneEachComesBack ==
  ASSUME GivenInv, NEW id \in 1 .. 2, OneEach(id)
  PROVE  Reassemble(given, OutMax) = Succeed(Packet(id))
<1> DEFINE pkt == Packet(id)
           n == NumFragments(lens[id], FragSize)
           F(i) == FragmentAt(pkt, id, FragSize, n, i)
<1>1. /\ pkt \in Seq(Nat) /\ Len(pkt) = lens[id] /\ lens[id] \in 1 .. MaxLen
      /\ n \in Nat \ {0} /\ Frags(id) = [i \in 1 .. n |-> F(i - 1)]
  BY PacketIs DEF GivenInv
<1>2. FragSize \in Nat \ {0} /\ OutMax \in Nat /\ MaxLen \in Nat
  BY FragAssumption DEF FragAssumption
<1>3. Len(Frags(id)) = n /\ DOMAIN Frags(id) = 1 .. n
  BY <1>1
<1>4. Len(given) = n /\ DOMAIN given = 1 .. n
  <2>1. given \in Seq(ToSet(Frags(1)) \cup ToSet(Frags(2)))
    BY DEF GivenInv
  <2> QED BY <1>3, <2>1 DEF OneEach
<1>5. ToSet(Frags(id)) = {F(i) : i \in 0 .. n - 1}
  <2>1. \A j \in 1 .. n : Frags(id)[j] = F(j - 1) /\ j - 1 \in 0 .. n - 1
    BY <1>1
  <2>2. \A i \in 0 .. n - 1 : Frags(id)[i + 1] = F(i) /\ i + 1 \in 1 .. n
    BY <1>1
  <2> HIDE DEF F, n
  <2> QED BY <1>3, <2>1, <2>2 DEF ToSet
<1> HIDE DEF F
<1>6. \A j \in 1 .. n : \E i \in 0 .. n - 1 : given[j] = F(i)
  BY <1>4, <1>5 DEF OneEach, ToSet
<1>7. \A i \in 0 .. n - 1 : \E j \in 1 .. n : given[j] = F(i)
  BY <1>4, <1>5 DEF OneEach, ToSet
<1>8. Len(pkt) <= OutMax
  <2>1. 1 \in 1 .. Len(given)
    BY <1>1, <1>4
  <2>2. PICK k \in 1 .. 2 : /\ given[1] \in ToSet(Frags(k))
                            /\ ~TooBig(Packet(k), FragSize, MaxFrags)
    BY <2>1 DEF GivenInv
  <2>3. given[1].packet_id = id
    BY <1>1, <1>6, <2>1, <1>4 DEF F, FragmentAt
  <2>4. given[1].packet_id = k
    <3>1. /\ NumFragments(lens[k], FragSize) \in Nat
          /\ Frags(k) = [i \in 1 .. NumFragments(lens[k], FragSize) |->
                           FragmentAt(Packet(k), k, FragSize,
                                      NumFragments(lens[k], FragSize), i - 1)]
      BY PacketIs DEF GivenInv
    <3>2. PICK i \in 1 .. NumFragments(lens[k], FragSize) :
            given[1] = FragmentAt(Packet(k), k, FragSize, NumFragments(lens[k], FragSize), i - 1)
      BY <2>2, <3>1 DEF ToSet
    <3> QED BY <3>2 DEF FragmentAt
  <2>5. NumFragments(lens[id], FragSize) <= MaxFrags
    <3>1. ~(NumFragments(Len(Packet(id)), FragSize) > MaxFrags)
      BY <2>2, <2>3, <2>4 DEF TooBig
    <3>2. MaxFrags \in Nat
      BY FragAssumption DEF FragAssumption
    <3> QED BY <1>1, <3>1, <3>2
  <2> QED BY <1>1, <2>5, FragAssumption DEF FragAssumption
<1>9. n = NumFragments(Len(pkt), FragSize) /\ Len(pkt) >= 1
  BY <1>1
<1>10. /\ \A j \in 1 .. n : \E i \in 0 .. n - 1 :
            given[j] = FragmentAt(pkt, id, FragSize, n, i)
       /\ \A i \in 0 .. n - 1 : \E j \in 1 .. n :
            given[j] = FragmentAt(pkt, id, FragSize, n, i)
  BY <1>6, <1>7 DEF F
<1> HIDE DEF n, pkt
<1>11. Reassemble(given, OutMax) = Succeed(pkt)
  <2>1. Shuffled(given, pkt, id, FragSize, n)
    BY <1>4, <1>9, <1>10 DEF Shuffled
  <2> QED BY <1>1, <1>2, <1>8, <1>9, <2>1, PutTogether
<1> QED BY <1>11 DEF pkt

\* "Exact byte-level reassembly" for packets and symbols of any size: from its symbols,
\* each once and in any order, reassemble_packet() makes the packet fragment_packet()
\* was given.
THEOREM PacketsComeBack == FragSpec => []RoundTrip
<1>1. FragInit => GivenInv
  <2> SUFFICES ASSUME FragInit PROVE GivenInv
    OBVIOUS
  <2>1. given = <<>> /\ lens \in [1 .. 2 -> 1 .. MaxLen]
    BY DEF FragInit
  <2> QED BY <2>1 DEF GivenInv
<1>2. GivenInv => RoundTrip
  BY OneEachComesBack DEF RoundTrip
<1> QED BY <1>1, <1>2, GivenStep, PTL DEF FragSpec

-----------------------------------------------------------------------------
(* A block that arrived whole yields its packets.                            *)

\* How many symbols packet q of block b takes
Count(b, q) == NumFragments(Len(Sent[b][q]), SymbolSize)

\* Fragment c of packet q of block b, with the id the block was sent under
Piece(b, q, c) == FragmentAt(Sent[b][q], b, SymbolSize, Count(b, q), c - 1)

\* base[q] source symbols of block b are before those of packet q + 1; what is
\* after the last packet is padding.
Places(b, base) ==
  /\ base \in [0 .. Len(Sent[b]) -> Nat] /\ base[0] = 0 /\ base[Len(Sent[b])] <= K
  /\ \A q \in 1 .. Len(Sent[b]) :
       /\ base[q] = base[q - 1] + Count(b, q) /\ base[q] <= base[Len(Sent[b])]
       /\ \A c \in 1 .. Count(b, q) :
            Source[b][base[q - 1] + c] = FragmentAt(Sent[b][q], 0, SymbolSize, Count(b, q), c - 1)
  /\ \A i \in 1 .. K : i > base[Len(Sent[b])] => Source[b][i] = PaddingSymbol

LEMMA PacketsAre ==
  ASSUME NEW b \in Blocks, NEW q \in 1 .. Len(Sent[b])
  PROVE  /\ Sent[b][q] \in Seq(Nat) /\ Len(Sent[b][q]) \in 1 .. BufSize /\ BufSize \in Nat
         /\ Count(b, q) \in Nat \ {0}
         /\ Len(Fragments(Sent[b][q])) = Count(b, q)
         /\ \A c \in 1 .. Count(b, q) :
              Fragments(Sent[b][q])[c] = FragmentAt(Sent[b][q], 0, SymbolSize, Count(b, q), c - 1)
<1>1. Sent[b] \in Seq(Seq(Nat))
  BY BlocksAre
<1>2. Sent[b][q] \in Seq(Nat) /\ q \in DOMAIN Sent[b]
  BY <1>1
<1>3. Len(Sent[b][q]) \in 1 .. BufSize /\ BufSize \in Nat
  BY <1>2, SentAssumption, RxAssumption
<1>4. Count(b, q) \in Nat \ {0}
  <2>1. Len(Sent[b][q]) \in Nat \ {0}
    BY <1>3
  <2> QED BY <2>1, Sizes, CeilDivIs DEF Count, NumFragments
<1>5. Fragments(Sent[b][q]) =
        [c \in 1 .. Count(b, q) |-> FragmentAt(Sent[b][q], 0, SymbolSize, Count(b, q), c - 1)]
  BY DEF Fragments, Fragment, Count
<1> QED BY <1>2, <1>3, <1>4, <1>5

LEMMA PlacesAre ==
  ASSUME NEW b \in Blocks
  PROVE  \E base : Places(b, base)
<1> DEFINE cut == [i \in DOMAIN Sent[b] |-> Fragments(Sent[b][i])]
           flat == FlattenSeq(cut)
           p == Len(Sent[b])
<1>1. Sent[b] \in Seq(Seq(Nat)) /\ p \in Nat /\ DOMAIN Sent[b] = 1 .. p
  BY BlocksAre
<1>2. cut \in Seq(Seq(AnyFragment)) /\ Len(cut) = p
      /\ \A q \in 1 .. p : cut[q] = Fragments(Sent[b][q])
  <2>1. \A q \in 1 .. p : Fragments(Sent[b][q]) \in Seq(AnyFragment)
    BY <1>1, FragmentsType
  <2> QED BY <1>1, <2>1
<1>3. Source[b] = [i \in 1 .. K |-> IF i <= Len(flat) THEN flat[i] ELSE PaddingSymbol]
  BY DEF Source, Padded
<1>4. Len(flat) <= K
  BY SentAssumption
<1> HIDE DEF cut
<1>a. PICK base \in [0 .. Len(cut) -> Nat] :
        /\ base[0] = 0 /\ base[Len(cut)] = Len(flat)
        /\ \A q \in 1 .. Len(cut) :
             /\ base[q] = base[q - 1] + Len(cut[q]) /\ base[q] <= base[Len(cut)]
             /\ \A c \in 1 .. Len(cut[q]) : flat[base[q - 1] + c] = cut[q][c]
  BY <1>2, FlattenPieces, Zenon
<1> HIDE DEF p, flat
<1>5. /\ base \in [0 .. p -> Nat] /\ base[0] = 0 /\ base[p] = Len(flat)
      /\ \A q \in 1 .. p :
           /\ base[q] = base[q - 1] + Len(cut[q]) /\ base[q] <= base[p]
           /\ \A c \in 1 .. Len(cut[q]) : flat[base[q - 1] + c] = cut[q][c]
  BY <1>2, <1>a
<1>6. ASSUME NEW q \in 1 .. p
      PROVE  /\ base[q] = base[q - 1] + Count(b, q) /\ base[q] <= base[p]
             /\ \A c \in 1 .. Count(b, q) :
                  Source[b][base[q - 1] + c] = FragmentAt(Sent[b][q], 0, SymbolSize, Count(b, q), c - 1)
  <2>1. /\ Len(cut[q]) = Count(b, q) /\ Count(b, q) \in Nat \ {0}
        /\ \A c \in 1 .. Count(b, q) :
             cut[q][c] = FragmentAt(Sent[b][q], 0, SymbolSize, Count(b, q), c - 1)
    BY <1>2, <1>6, PacketsAre DEF p
  <2>2. base[q - 1] \in Nat /\ base[q] \in Nat /\ base[p] \in Nat
    BY <1>1, <1>5
  <2>3. ASSUME NEW c \in 1 .. Count(b, q)
        PROVE  Source[b][base[q - 1] + c] = FragmentAt(Sent[b][q], 0, SymbolSize, Count(b, q), c - 1)
    <3>1. base[q - 1] + c \in 1 .. K /\ base[q - 1] + c <= Len(flat)
      <4>1. /\ base[q] = base[q - 1] + Count(b, q) /\ base[q] <= base[p] /\ base[p] = Len(flat)
            /\ K \in Nat /\ c \in 1 .. Count(b, q)
        BY <1>5, <1>6, <2>1, Sizes
      <4>2. c \in Nat \ {0} /\ c <= Count(b, q)
        BY <2>1, <4>1
      <4>3. Count(b, q) \in Nat
        BY <2>1
      <4> QED BY ONLY <1>4, <2>2, <4>1, <4>2, <4>3
    <3>2. Source[b][base[q - 1] + c] = flat[base[q - 1] + c]
      BY <1>3, <3>1
    <3> QED BY <1>5, <1>6, <2>1, <3>2
  <2> QED BY <1>5, <1>6, <2>1, <2>3
<1>7. \A i \in 1 .. K : i > base[p] => Source[b][i] = PaddingSymbol
  <2>1. Len(flat) \in Nat
    BY <1>1, <1>5
  <2> QED BY <1>3, <1>5, <2>1, Sizes
<1> QED BY <1>4, <1>5, <1>6, <1>7 DEF Places, p

\* What a slot that has all source symbols of block b hands to the loop
HoldsWhole(b, s) ==
  \A f \in 0 .. K - 1 : store[s][f] = [packet_id |-> b, meta |-> Wire[b][f].meta]

LEMMA SymbolIs ==
  ASSUME NEW b \in Blocks, NEW s, HoldsWhole(b, s), NEW i \in 1 .. K
  PROVE  /\ Source[b][i] = PaddingSymbol => Reconstructed(b, s, i).payload_len = 0
         /\ \A p, n, j : Source[b][i] = FragmentAt(p, 0, SymbolSize, n, j) =>
              Reconstructed(b, s, i) = FragmentAt(p, b, SymbolSize, n, j)
<1>1. i - 1 \in 0 .. K - 1 /\ i - 1 \in 0 .. N - 1 /\ i \in 1 .. N /\ (i - 1) + 1 = i /\ i <= K
  BY Sizes
<1>2. Wire[b][i - 1].meta = Body(Source[b][i])
  BY <1>1 DEF Wire, Codeword
<1>3. store[s][i - 1].packet_id = b /\ store[s][i - 1].meta = Body(Source[b][i])
  <2>1. store[s][i - 1] = [packet_id |-> b, meta |-> Wire[b][i - 1].meta]
    BY <1>1 DEF HoldsWhole
  <2> QED BY <1>2, <2>1
<1>4. Reconstructed(b, s, i) =
        [packet_id |-> b, symbol_index |-> Source[b][i].symbol_index,
         total_symbols |-> Source[b][i].total_symbols, payload_len |-> Source[b][i].payload_len,
         data |-> Source[b][i].data]
  BY <1>3 DEF Reconstructed, Body
<1>5. Source[b][i] = PaddingSymbol => Reconstructed(b, s, i).payload_len = 0
  BY <1>4 DEF PaddingSymbol
<1>6. ASSUME NEW p, NEW n, NEW j, Source[b][i] = FragmentAt(p, 0, SymbolSize, n, j)
      PROVE  Reconstructed(b, s, i) = FragmentAt(p, b, SymbolSize, n, j)
  BY <1>4, <1>6 DEF FragmentAt
<1> QED BY <1>5, <1>6

-----------------------------------------------------------------------------

\* The loop over the source symbols, up to the symbol n
After(f, b, s, n) ==
  f = [i \in 0 .. n |->
         IF i = 0 THEN Grouping(<<>>, <<>>) ELSE AddToGroup(f[i - 1], Reconstructed(b, s, i))]

LEMMA AfterExists == ASSUME NEW b, NEW s, NEW n \in Nat PROVE \E f : After(f, b, s, n)
<1> DEFINE Bad == {m \in Nat : ~ \E f : After(f, b, s, m)}
<1> SUFFICES ASSUME Bad # {} PROVE FALSE
  OBVIOUS
<1>1. PICK m \in Bad : \A k \in Bad : m <= k
  <2>1. Bad \subseteq Nat
    OBVIOUS
  <2> HIDE DEF Bad
  <2> QED BY <2>1, LeastOf
<1>2. m \in Nat /\ ~ \E f : After(f, b, s, m)
  BY <1>1
<1>3. m # 0
  <2> SUFFICES ASSUME m = 0 PROVE FALSE
    OBVIOUS
  <2> DEFINE f == [i \in 0 .. 0 |-> Grouping(<<>>, <<>>)]
  <2>1. \A i \in 0 .. 0 : i = 0
    OBVIOUS
  <2>2. After(f, b, s, 0)
    BY <2>1 DEF After
  <2> QED BY <1>2, <2>2
<1>4. m - 1 \in Nat /\ m - 1 \notin Bad
  BY <1>1, <1>2, <1>3
<1>5. PICK g : After(g, b, s, m - 1)
  BY <1>4
<1> DEFINE f == [i \in 0 .. m |->
                   IF i = 0 THEN Grouping(<<>>, <<>>) ELSE AddToGroup(g[i - 1], Reconstructed(b, s, i))]
<1>6. ASSUME NEW i \in 0 .. m, i # 0 PROVE f[i - 1] = g[i - 1]
  <2>1. i - 1 \in 0 .. m /\ i - 1 \in 0 .. m - 1
    BY <1>2, <1>6
  <2>2. g[i - 1] = IF i - 1 = 0 THEN Grouping(<<>>, <<>>)
                   ELSE AddToGroup(g[i - 1 - 1], Reconstructed(b, s, i - 1))
    BY <1>5, <2>1 DEF After
  <2> QED BY <2>1, <2>2
<1>7. f = [i \in 0 .. m |->
             IF i = 0 THEN Grouping(<<>>, <<>>) ELSE AddToGroup(f[i - 1], Reconstructed(b, s, i))]
  BY <1>6
<1> HIDE DEF f
<1>8. After(f, b, s, m)
  BY <1>7 DEF After
<1> QED BY <1>2, <1>8

LEMMA PacketsOfIs ==
  ASSUME NEW b, NEW s
  PROVE  \E f : After(f, b, s, K) /\ PacketsOf(b, s) = FlushGroup(f[K]).packets
<1> DEFINE f == CHOOSE f : After(f, b, s, K)
<1>1. After(f, b, s, K)
  BY AfterExists, Sizes
<1>2. PacketsOf(b, s) = FlushGroup(f[K]).packets
  BY DEF PacketsOf, After
<1> QED BY <1>1, <1>2

\* The first c fragments of packet q of block b, and what its first q packets yield
FirstOf(b, q, c) == [j \in 1 .. c |-> Piece(b, q, j)]
Wanted(b, q) == [j \in 1 .. q |-> Succeed(Sent[b][j])]

LEMMA PieceIs ==
  ASSUME NEW b \in Blocks, NEW q \in 1 .. Len(Sent[b]), NEW c \in 1 .. Count(b, q)
  PROVE  /\ Piece(b, q, c).symbol_index = c - 1 /\ Piece(b, q, c).total_symbols = Count(b, q)
         /\ Piece(b, q, c).payload_len # 0
<1>1. /\ Sent[b][q] \in Seq(Nat) /\ Len(Sent[b][q]) >= 1
      /\ Count(b, q) = NumFragments(Len(Sent[b][q]), SymbolSize) /\ Count(b, q) \in Nat
  <2>1. Len(Sent[b][q]) \in 1 .. BufSize /\ BufSize \in Nat
    BY PacketsAre
  <2> QED BY <2>1, PacketsAre DEF Count
<1>2. c - 1 \in 0 .. Count(b, q) - 1
  BY <1>1
<1>3. Carries(FragmentAt(Sent[b][q], b, SymbolSize, Count(b, q), c - 1),
              Sent[b][q], SymbolSize, Count(b, q), c - 1)
  BY <1>1, <1>2, Sizes, FragmentCarries
<1> QED BY <1>3 DEF Piece, Carries

LEMMA FirstOfIs ==
  ASSUME NEW b \in Blocks, NEW q \in 1 .. Len(Sent[b]), NEW c \in 1 .. Count(b, q)
  PROVE  /\ Append(FirstOf(b, q, c - 1), Piece(b, q, c)) = FirstOf(b, q, c)
         /\ Len(FirstOf(b, q, c)) = c /\ FirstOf(b, q, c) # <<>>
         /\ FirstOf(b, q, c)[1] = Piece(b, q, 1)
<1>1. Count(b, q) \in Nat
  BY PacketsAre
<1>2. c \in Nat /\ c - 1 \in Nat /\ c # 0
  BY <1>1
<1> DEFINE S == {Piece(b, q, j) : j \in Nat}
           a == FirstOf(b, q, c - 1)
           d == FirstOf(b, q, c)
           x == Piece(b, q, c)
<1>3. a \in Seq(S) /\ Len(a) = c - 1 /\ \A j \in 1 .. c - 1 : a[j] = Piece(b, q, j)
  <2>1. \A j \in 1 .. c - 1 : Piece(b, q, j) \in S
    BY <1>2
  <2>2. a = [j \in 1 .. c - 1 |-> Piece(b, q, j)]
    BY DEF FirstOf
  <2> HIDE DEF S, a
  <2> QED BY <1>2, <2>1, <2>2
<1>4. d \in Seq(S) /\ Len(d) = c /\ \A j \in 1 .. c : d[j] = Piece(b, q, j)
  <2>1. \A j \in 1 .. c : Piece(b, q, j) \in S
    BY <1>2
  <2>2. d = [j \in 1 .. c |-> Piece(b, q, j)]
    BY DEF FirstOf
  <2> HIDE DEF S, d
  <2> QED BY <1>2, <2>1, <2>2
<1>5. x \in S /\ \A j \in 1 .. c : j \in 1 .. c - 1 \/ (j = c /\ d[j] = x)
  <2>1. x \in S
    BY <1>2
  <2>2. ASSUME NEW j \in 1 .. c PROVE j \in 1 .. c - 1 \/ j = c
    BY ONLY <1>2, j \in 1 .. c
  <2>3. c \in 1 .. c /\ d[c] = x
    BY <1>2, <1>4
  <2> HIDE DEF a, d, x, S
  <2> QED BY <2>1, <2>2, <2>3
<1> HIDE DEF a, d, x, S
<1>6. /\ Append(a, x) \in Seq(S) /\ Len(Append(a, x)) = c
      /\ \A j \in 1 .. c : Append(a, x)[j] = d[j]
  BY <1>2, <1>3, <1>4, <1>5
<1>7. Append(a, x) = d
  BY <1>2, <1>4, <1>6
<1>8. Len(d) = c /\ d # <<>> /\ d[1] = Piece(b, q, 1)
  BY <1>2, <1>4
<1> QED BY <1>7, <1>8 DEF a, d, x

LEMMA NothingYet == ASSUME NEW b, NEW q PROVE FirstOf(b, q, 0) = <<>> /\ Wanted(b, 0) = <<>>
BY DEF FirstOf, Wanted

LEMMA WantedIs ==
  ASSUME NEW b \in Blocks, NEW q \in 1 .. Len(Sent[b])
  PROVE  Append(Wanted(b, q - 1), Succeed(Sent[b][q])) = Wanted(b, q)
<1>1. Len(Sent[b]) \in Nat
  BY BlocksAre
<1>2. q \in Nat /\ q - 1 \in Nat
  BY <1>1
<1> DEFINE S == {Succeed(Sent[b][j]) : j \in Nat}
           a == Wanted(b, q - 1)
           d == Wanted(b, q)
           x == Succeed(Sent[b][q])
<1>3. a \in Seq(S) /\ Len(a) = q - 1 /\ \A j \in 1 .. q - 1 : a[j] = Succeed(Sent[b][j])
  BY <1>2 DEF Wanted
<1>4. d \in Seq(S) /\ Len(d) = q /\ \A j \in 1 .. q : d[j] = Succeed(Sent[b][j])
  BY <1>2 DEF Wanted
<1>5. x \in S /\ \A j \in 1 .. q : j \in 1 .. q - 1 \/ (j = q /\ d[j] = x)
  BY <1>2, <1>4
<1> HIDE DEF a, d, x, S
<1>6. /\ Append(a, x) \in Seq(S) /\ Len(Append(a, x)) = q
      /\ \A j \in 1 .. q : Append(a, x)[j] = d[j]
  BY <1>2, <1>3, <1>4, <1>5
<1>7. Append(a, x) = d
  BY <1>2, <1>4, <1>6
<1> QED BY <1>7 DEF a, d, x

\* Its fragments put together are the packet.
LEMMA PacketComesBack ==
  ASSUME NEW b \in Blocks, NEW q \in 1 .. Len(Sent[b])
  PROVE  Reassemble(FirstOf(b, q, Count(b, q)), BufSize) = Succeed(Sent[b][q])
<1> DEFINE n == Count(b, q)
           syms == FirstOf(b, q, n)
           pkt == Sent[b][q]
<1>1. pkt \in Seq(Nat) /\ Len(pkt) >= 1 /\ Len(pkt) <= BufSize /\ BufSize \in Nat /\ n \in Nat \ {0}
  <2>1. Len(pkt) \in 1 .. BufSize /\ BufSize \in Nat /\ pkt \in Seq(Nat) /\ n \in Nat \ {0}
    BY PacketsAre
  <2> QED BY <2>1
<1>2. Shuffled(syms, pkt, b, SymbolSize, n)
  <2>1. n = NumFragments(Len(pkt), SymbolSize)
    BY DEF Count
  <2>2. DOMAIN syms = 1 .. n /\ \A j \in 1 .. n : syms[j] = FragmentAt(pkt, b, SymbolSize, n, j - 1)
    BY DEF FirstOf, Piece
  <2>3. Len(syms) = n
    <3>1. n \in 1 .. n
      BY <1>1
    <3> QED BY <3>1, FirstOfIs
  <2> HIDE DEF n, syms, pkt
  <2>4. ASSUME NEW j \in 1 .. n
        PROVE  \E i \in 0 .. n - 1 : syms[j] = FragmentAt(pkt, b, SymbolSize, n, i)
    <3>1. j - 1 \in 0 .. n - 1
      BY <1>1
    <3> QED BY <2>2, <3>1
  <2>5. ASSUME NEW i \in 0 .. n - 1
        PROVE  \E j \in 1 .. n : syms[j] = FragmentAt(pkt, b, SymbolSize, n, i)
    <3>1. i + 1 \in 1 .. n /\ (i + 1) - 1 = i
      BY <1>1
    <3> QED BY <2>2, <3>1
  <2> QED BY <2>1, <2>2, <2>3, <2>4, <2>5 DEF Shuffled
<1> HIDE DEF n, syms, pkt
<1>3. Reassemble(syms, BufSize) = Succeed(pkt)
  BY <1>1, <1>2, Sizes, PutTogether
<1> QED BY <1>3 DEF n, syms, pkt

\* One round of the loop on the next fragment of a packet: it joins the group, and
\* the last one makes the packet.
LEMMA AddPiece ==
  ASSUME NEW b \in Blocks, NEW q \in 1 .. Len(Sent[b]), NEW c \in 1 .. Count(b, q)
  PROVE  AddToGroup(Grouping(FirstOf(b, q, c - 1), Wanted(b, q - 1)), Piece(b, q, c)) =
           IF c = Count(b, q) THEN Grouping(<<>>, Wanted(b, q))
           ELSE Grouping(FirstOf(b, q, c), Wanted(b, q - 1))
<1> DEFINE n == Count(b, q)
           a == FirstOf(b, q, c - 1)
           d == FirstOf(b, q, c)
           x == Piece(b, q, c)
           w == Wanted(b, q - 1)
           g == Grouping(a, w)
           h == Grouping(d, w)
           z == Grouping(<<>>, Wanted(b, q))
<1>1. n \in Nat \ {0} /\ c \in 1 .. n /\ c - 1 \in Nat /\ c \in Nat
  BY PacketsAre
<1>2. x.symbol_index = c - 1 /\ x.payload_len # 0
  BY PieceIs
<1>3. Append(a, x) = d /\ Len(d) = c /\ d # <<>> /\ d[1].total_symbols = n
  <2>1. 1 \in 1 .. n
    BY <1>1
  <2> QED BY <1>1, <2>1, FirstOfIs, PieceIs
<1>4. a = <<>> \/ (c # 1 /\ Len(a) = c - 1 /\ a[1].total_symbols = n)
  <2>1. CASE c = 1
    <3>1. c - 1 = 0
      BY <2>1
    <3> QED BY <3>1, NothingYet
  <2>2. CASE c # 1
    <3>1. c - 1 \in 1 .. n /\ 1 \in 1 .. n
      BY <1>1, <2>2
    <3>2. Len(a) = c - 1 /\ a[1] = Piece(b, q, 1)
      BY <3>1, FirstOfIs
    <3> QED BY <2>2, <3>1, <3>2, PieceIs
  <2> QED BY <2>1, <2>2
<1>5. c = 1 => a = <<>>
  <2>1. ASSUME c = 1 PROVE c - 1 = 0
    BY <2>1
  <2> QED BY <2>1, NothingYet
<1>6. c = n => Reassemble(d, BufSize) = Succeed(Sent[b][q])
  BY PacketComesBack
<1>7. Append(w, Succeed(Sent[b][q])) = Wanted(b, q)
  BY WantedIs
<1> HIDE DEF n, a, d, x, w
<1>8. ~ Complete(a)
  BY <1>1, <1>4 DEF Complete
<1>9. Complete(d) <=> c = n
  BY <1>1, <1>3 DEF Complete
<1>10. (IF Complete(g.group) \/ x.symbol_index = 0 THEN FlushGroup(g) ELSE g) = g
  <2>1. g.group = a
    BY DEF Grouping
  <2>2. a = <<>> => FlushGroup(g) = g
    BY <2>1 DEF FlushGroup
  <2>3. x.symbol_index = 0 => a = <<>>
    BY <1>1, <1>2, <1>5
  <2> QED BY <1>8, <2>1, <2>2, <2>3
<1>11. FlushGroup(h) = Grouping(<<>>, Append(w, Reassemble(d, BufSize)))
  BY <1>3 DEF FlushGroup, Grouping
<1>12. AddToGroup(g, x) = IF Complete(d) THEN FlushGroup(h) ELSE h
  <2>1. Grouping(Append(g.group, x), g.packets) = h /\ h.group = d
    BY <1>3 DEF Grouping
  <2> HIDE DEF g, h
  <2> QED BY <1>2, <1>10, <2>1 DEF AddToGroup
<1>13. c = n => FlushGroup(h) = z
  BY <1>6, <1>7, <1>11
<1>14. AddToGroup(g, x) = IF c = n THEN z ELSE h
  BY <1>9, <1>12, <1>13
<1> QED BY <1>14 DEF n, a, d, x, w

\* After n symbols: c fragments of packet q are in the group, those before it are
\* delivered; or all packets are, and the rest is padding.
Going(b, base, n, g) ==
  \E q \in 1 .. Len(Sent[b]) : \E c \in 0 .. Count(b, q) - 1 :
    n = base[q - 1] + c /\ g = Grouping(FirstOf(b, q, c), Wanted(b, q - 1))
Over(b, base, n, g) ==
  base[Len(Sent[b])] <= n /\ g = Grouping(<<>>, Wanted(b, Len(Sent[b])))

LEMMA NextSymbol ==
  ASSUME NEW b \in Blocks, NEW s, HoldsWhole(b, s), NEW base, Places(b, base),
         NEW n \in 0 .. K - 1, NEW g, Going(b, base, n, g) \/ Over(b, base, n, g)
  PROVE  \/ Going(b, base, n + 1, AddToGroup(g, Reconstructed(b, s, n + 1)))
         \/ Over(b, base, n + 1, AddToGroup(g, Reconstructed(b, s, n + 1)))
<1> DEFINE p == Len(Sent[b])
           h == AddToGroup(g, Reconstructed(b, s, n + 1))
<1>1. p \in Nat /\ n \in Nat /\ n + 1 \in 1 .. K
  BY BlocksAre, Sizes
<1>2. /\ base \in [0 .. p -> Nat] /\ base[0] = 0 /\ base[p] <= K
      /\ \A q \in 1 .. p : /\ base[q] = base[q - 1] + Count(b, q) /\ base[q] <= base[p]
                           /\ \A c \in 1 .. Count(b, q) :
                                Source[b][base[q - 1] + c] =
                                  FragmentAt(Sent[b][q], 0, SymbolSize, Count(b, q), c - 1)
      /\ \A i \in 1 .. K : i > base[p] => Source[b][i] = PaddingSymbol
  BY DEF Places
<1>3. CASE Over(b, base, n, g)
  <2>1. base[p] <= n /\ base[p] \in Nat
    BY <1>1, <1>2, <1>3 DEF Over
  <2>2. n + 1 > base[p] /\ base[p] <= n + 1
    BY <1>1, <2>1
  <2>3. Reconstructed(b, s, n + 1).payload_len = 0
    BY <1>1, <1>2, <2>2, SymbolIs
  <2>4. h = g
    BY <2>3 DEF AddToGroup
  <2> HIDE DEF h
  <2> QED BY <1>3, <2>2, <2>4 DEF Over, h
<1>4. CASE Going(b, base, n, g)
  <2>1. PICK q \in 1 .. p : \E c \in 0 .. Count(b, q) - 1 :
          n = base[q - 1] + c /\ g = Grouping(FirstOf(b, q, c), Wanted(b, q - 1))
    BY <1>4 DEF Going
  <2>2. PICK c \in 0 .. Count(b, q) - 1 :
          n = base[q - 1] + c /\ g = Grouping(FirstOf(b, q, c), Wanted(b, q - 1))
    BY <2>1
  <2>3. Count(b, q) \in Nat \ {0} /\ base[q - 1] \in Nat /\ base[q] \in Nat
        /\ base[q] = base[q - 1] + Count(b, q)
    <3>1. q - 1 \in 0 .. p /\ q \in 0 .. p
      BY <1>1
    <3> QED BY <1>2, <3>1, PacketsAre
  <2>4. c + 1 \in 1 .. Count(b, q) /\ (c + 1) - 1 = c /\ c \in Nat /\ n + 1 = base[q - 1] + (c + 1)
    <3>1. c \in 0 .. Count(b, q) - 1 /\ n = base[q - 1] + c
      BY <2>2
    <3>2. Count(b, q) \in Nat \ {0} /\ base[q - 1] \in Nat
      BY <2>3
    <3> QED BY ONLY <3>1, <3>2
  <2>5. Reconstructed(b, s, n + 1) = Piece(b, q, c + 1)
    <3>1. Source[b][n + 1] = FragmentAt(Sent[b][q], 0, SymbolSize, Count(b, q), c)
      BY <1>2, <2>4
    <3>2. Reconstructed(b, s, n + 1) = FragmentAt(Sent[b][q], b, SymbolSize, Count(b, q), c)
      BY <1>1, <3>1, SymbolIs
    <3> QED BY <2>4, <3>2 DEF Piece
  <2>6. h = IF c + 1 = Count(b, q) THEN Grouping(<<>>, Wanted(b, q))
            ELSE Grouping(FirstOf(b, q, c + 1), Wanted(b, q - 1))
    <3>1. AddToGroup(Grouping(FirstOf(b, q, (c + 1) - 1), Wanted(b, q - 1)), Piece(b, q, c + 1)) =
            IF c + 1 = Count(b, q) THEN Grouping(<<>>, Wanted(b, q))
            ELSE Grouping(FirstOf(b, q, c + 1), Wanted(b, q - 1))
      BY <2>4, AddPiece
    <3> QED BY <2>2, <2>4, <2>5, <3>1
  <2> HIDE DEF h
  <2>7. CASE c + 1 # Count(b, q)
    <3>1. c + 1 \in 0 .. Count(b, q) - 1
      BY <2>3, <2>4, <2>7
    <3>2. Going(b, base, n + 1, h)
      BY <2>4, <2>6, <2>7, <3>1 DEF Going
    <3> QED BY <3>2 DEF h
  <2>8. CASE c + 1 = Count(b, q)
    <3>1. n + 1 = base[q] /\ h = Grouping(<<>>, Wanted(b, q))
      BY <2>3, <2>4, <2>6, <2>8
    <3>2. CASE q = p
      <4>1. base[p] <= n + 1 /\ h = Grouping(<<>>, Wanted(b, p))
        BY <1>1, <3>1, <3>2
      <4>2. Over(b, base, n + 1, h)
        BY <4>1 DEF Over
      <4> QED BY <4>2 DEF h
    <3>3. CASE q # p
      <4>1. q + 1 \in 1 .. p /\ (q + 1) - 1 = q
        BY <1>1, <3>3
      <4>2. Count(b, q + 1) \in Nat \ {0}
        BY <4>1, PacketsAre
      <4>3. 0 \in 0 .. Count(b, q + 1) - 1
        BY <4>2
      <4>4. n + 1 = base[(q + 1) - 1] + 0
            /\ h = Grouping(FirstOf(b, q + 1, 0), Wanted(b, (q + 1) - 1))
        BY <2>3, <3>1, <4>1, NothingYet
      <4>5. Going(b, base, n + 1, h)
        BY <4>1, <4>3, <4>4 DEF Going
      <4> QED BY <4>5 DEF h
    <3> QED BY <3>2, <3>3
  <2> QED BY <2>7, <2>8
<1> QED BY <1>3, <1>4

\* When all source symbols arrived, the packets that come out are those that went in.
LEMMA WholeComesBack ==
  ASSUME NEW b \in Blocks, NEW s, HoldsWhole(b, s)
  PROVE  PacketsOf(b, s) = Expected(b)
<1> DEFINE p == Len(Sent[b])
<1>1. PICK f : After(f, b, s, K) /\ PacketsOf(b, s) = FlushGroup(f[K]).packets
  BY PacketsOfIs
<1>2. PICK base : Places(b, base)
  BY PlacesAre
<1>3. p \in Nat /\ K \in Nat \ {0}
  BY BlocksAre, Sizes
<1>4. /\ base \in [0 .. p -> Nat] /\ base[0] = 0 /\ base[p] <= K
      /\ \A q \in 1 .. p : base[q] = base[q - 1] + Count(b, q) /\ base[q] <= base[p]
  BY <1>2 DEF Places
<1> DEFINE Fine(n) == Going(b, base, n, f[n]) \/ Over(b, base, n, f[n])
           Bad == {n \in 0 .. K : ~ Fine(n)}
<1>5. Bad = {}
  <2> SUFFICES ASSUME Bad # {} PROVE FALSE
    OBVIOUS
  <2>1. PICK n \in Bad : \A k \in Bad : n <= k
    <3>1. Bad \subseteq 0 .. K
      OBVIOUS
    <3> HIDE DEF Bad
    <3>2. Bad \subseteq Nat
      BY <1>3, <3>1
    <3> QED BY <3>2, LeastOf
  <2>2. n \in 0 .. K /\ ~ Fine(n)
    BY <2>1
  <2>3. n # 0
    <3> SUFFICES ASSUME n = 0 PROVE FALSE
      OBVIOUS
    <3>1. f[0] = Grouping(<<>>, <<>>)
      <4>1. 0 \in 0 .. K
        BY <1>3
      <4> QED BY <1>1, <4>1 DEF After
    <3>2. CASE p = 0
      <4>1. Over(b, base, 0, f[0])
        BY <1>4, <3>1, <3>2, NothingYet DEF Over
      <4> QED BY <2>2, <4>1
    <3>3. CASE p # 0
      <4>1. 1 \in 1 .. p /\ 1 - 1 = 0
        BY <1>3, <3>3
      <4>2. Count(b, 1) \in Nat \ {0}
        BY <4>1, PacketsAre
      <4>3. 0 \in 0 .. Count(b, 1) - 1
        BY <4>2
      <4>4. 0 = base[1 - 1] + 0 /\ f[0] = Grouping(FirstOf(b, 1, 0), Wanted(b, 1 - 1))
        BY <1>4, <3>1, <4>1, NothingYet
      <4>5. Going(b, base, 0, f[0])
        BY <4>1, <4>3, <4>4 DEF Going
      <4> QED BY <2>2, <4>5
    <3> QED BY <3>2, <3>3
  <2>4. n - 1 \in 0 .. K - 1 /\ n - 1 \in 0 .. K /\ (n - 1) + 1 = n
    BY <1>3, <2>2, <2>3
  <2>5. Fine(n - 1)
    <3>1. n - 1 \notin Bad
      <4>1. ~ (n <= n - 1)
        BY <1>3, <2>2
      <4> HIDE DEF Bad
      <4> QED BY <2>1, <4>1
    <3> QED BY <2>4, <3>1
  <2>6. f[n] = AddToGroup(f[n - 1], Reconstructed(b, s, n))
    BY <1>1, <2>2, <2>3 DEF After
  <2>7. \/ Going(b, base, (n - 1) + 1, AddToGroup(f[n - 1], Reconstructed(b, s, (n - 1) + 1)))
        \/ Over(b, base, (n - 1) + 1, AddToGroup(f[n - 1], Reconstructed(b, s, (n - 1) + 1)))
    <3> HIDE DEF Bad
    <3> QED BY <1>2, <2>4, <2>5, NextSymbol
  <2>8. Fine(n)
    BY <2>4, <2>6, <2>7
  <2> QED BY <2>2, <2>8
<1>6. Fine(K)
  <2>1. K \in 0 .. K
    BY <1>3
  <2> QED BY <1>5, <2>1
<1>7. ~ Going(b, base, K, f[K])
  <2> SUFFICES ASSUME Going(b, base, K, f[K]) PROVE FALSE
    OBVIOUS
  <2>1. PICK q \in 1 .. p : \E c \in 0 .. Count(b, q) - 1 : K = base[q - 1] + c
    BY DEF Going
  <2>2. PICK c \in 0 .. Count(b, q) - 1 : K = base[q - 1] + c
    BY <2>1
  <2>3. /\ Count(b, q) \in Nat /\ base[q - 1] \in Nat /\ base[p] \in Nat
        /\ base[q] = base[q - 1] + Count(b, q) /\ base[q] <= base[p]
    <3>1. q - 1 \in 0 .. p /\ p \in 0 .. p
      BY <1>3
    <3> QED BY <1>4, <3>1, PacketsAre
  <2>4. c < Count(b, q) /\ c \in Nat
    BY <2>3
  <2> QED BY <1>3, <1>4, <2>2, <2>3, <2>4
<1>8. f[K] = Grouping(<<>>, Wanted(b, p))
  BY <1>6, <1>7 DEF Over
<1>9. PacketsOf(b, s) = Wanted(b, p)
  BY <1>1, <1>8 DEF FlushGroup, Grouping
<1>10. Wanted(b, p) = Expected(b)
  <2>1. DOMAIN Sent[b] = 1 .. p
    BY BlocksAre
  <2> QED BY <2>1 DEF Wanted, Expected
<1> QED BY <1>9, <1>10

-----------------------------------------------------------------------------

\* What was decoded from all source symbols is what was sent.
WholeInv ==
  /\ DOMAIN delivered = Blocks
  /\ \A b \in Blocks : \E S : delivered[b] \in Seq(S)
  /\ WholeBlockExact

LEMMA DrainWhole == ASSUME Inv, WholeInv, DrainBlock PROVE WholeInv'
<1>0. \E x \in DP!Slots, y \in Blocks : x = ReadySlot /\ y = slots[ReadySlot].block_id
  BY DrainView
<1> PICK s \in DP!Slots, b \in Blocks : s = ReadySlot /\ b = slots[ReadySlot].block_id
  BY <1>0
<1> DEFINE x == [whole |-> SourceComplete(s), packets |-> PacketsOf(b, s)]
<1>1. delivered' = [delivered EXCEPT ![b] = Append(@, x)] \/ delivered' = delivered
  BY DEF DrainBlock
<1>2. x.whole => x.packets = Expected(b)
  <2> SUFFICES ASSUME SourceComplete(s) PROVE PacketsOf(b, s) = Expected(b)
    OBVIOUS
  <2>1. s \in D!In("READY") /\ pc = "drain"
    BY DrainView, SameSlots DEF D!In, DrainBlock
  <2>2. \A f \in Received(s) : store[s][f] = [packet_id |-> b, meta |-> Wire[b][f].meta]
    BY <2>1, InvDecoderInput DEF DecoderInput
  <2>3. HoldsWhole(b, s)
    BY <2>2 DEF SourceComplete, HoldsWhole
  <2> QED BY <2>3, WholeComesBack
<1>3. CASE delivered' = delivered
  BY <1>3 DEF WholeInv, WholeBlockExact
<1>4. CASE delivered' = [delivered EXCEPT ![b] = Append(@, x)]
  <2>1. /\ DOMAIN delivered' = Blocks /\ delivered'[b] = Append(delivered[b], x)
        /\ \A c \in Blocks \ {b} : delivered'[c] = delivered[c]
    BY <1>4 DEF WholeInv
  <2>2. PICK S : delivered[b] \in Seq(S)
    BY DEF WholeInv
  <2> DEFINE T == S \cup {x}
             d == delivered[b]
  <2>3. d \in Seq(T) /\ x \in T
    BY <2>2
  <2>4. \A i \in DOMAIN d : d[i].whole => d[i].packets = Expected(b)
    BY DEF WholeInv, WholeBlockExact
  <2> HIDE DEF T, d, x
  <2>5. /\ Append(d, x) \in Seq(T) /\ DOMAIN Append(d, x) = 1 .. Len(d) + 1 /\ Len(d) \in Nat
        /\ Append(d, x)[Len(d) + 1] = x /\ DOMAIN d = 1 .. Len(d)
        /\ \A i \in 1 .. Len(d) : Append(d, x)[i] = d[i]
    BY <2>3
  <2>6. ASSUME NEW i \in DOMAIN Append(d, x), Append(d, x)[i].whole
        PROVE  Append(d, x)[i].packets = Expected(b)
    <3>1. i \in 1 .. Len(d) \/ i = Len(d) + 1
      BY <2>5, <2>6
    <3> QED BY <1>2, <2>4, <2>5, <2>6, <3>1
  <2>7. ASSUME NEW c \in Blocks
        PROVE  /\ \E U : delivered'[c] \in Seq(U)
               /\ \A i \in DOMAIN delivered'[c] :
                    delivered'[c][i].whole => delivered'[c][i].packets = Expected(c)
    <3>1. CASE c = b
      <4>1. delivered'[c] = Append(d, x)
        BY <2>1, <3>1 DEF d
      <4>2. Append(d, x) \in Seq(T)
        BY <2>5
      <4> QED BY <2>6, <3>1, <4>1, <4>2
    <3>2. CASE c # b
      BY <2>1, <2>7, <3>2 DEF WholeInv, WholeBlockExact
    <3> QED BY <3>1, <3>2
  <2> QED BY <2>1, <2>7 DEF WholeInv, WholeBlockExact
<1> QED BY <1>1, <1>3, <1>4

\* Whatever a slot held before, whatever padding the block carries and however
\* its packets are cut, a block whose source symbols all arrived yields exactly
\* the packets that were put into it, in order.
THEOREM WholeBlocksComeOut == Spec => []WholeBlockExact
<1>1. Init => WholeInv
  <2> SUFFICES ASSUME Init PROVE WholeInv
    OBVIOUS
  <2>1. delivered = [b \in Blocks |-> <<>>]
    BY DEF Init
  <2>2. <<>> \in Seq({})
    OBVIOUS
  <2> QED BY <2>1, <2>2 DEF WholeInv, WholeBlockExact
<1>2. Inv /\ WholeInv /\ [Next]_vars => WholeInv'
  <2> SUFFICES ASSUME Inv, WholeInv, [Next]_vars PROVE WholeInv'
    OBVIOUS
  <2>1. ASSUME delivered' = delivered PROVE WholeInv'
    BY <2>1 DEF WholeInv, WholeBlockExact
  <2>2. ASSUME ~ DrainBlock PROVE delivered' = delivered
    BY <2>2 DEF Next, vars, Idle, Ignore, ReceiveFiller, ReceiveSymbol, ReceiveCorrupt, Deliver,
       Receive, CountCrcDrop, Push, DrainDone, Advance
  <2> QED BY <2>1, <2>2, DrainWhole
<1>3. WholeInv => WholeBlockExact
  BY DEF WholeInv
<1> QED BY <1>1, <1>2, <1>3, SpecInv, PTL DEF Spec
=============================================================================
