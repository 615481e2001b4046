--------------------------- MODULE TxPipelineProofs ---------------------------
(***************************************************************************)
(* The transmit pipeline, for every block length, depth, packet, timeout   *)
(* and id space: what is encoded goes out whole, and neighbours on the     *)
(* wire belong to different blocks.                                        *)
(***************************************************************************)
EXTENDS TxPipeline, DataLemmas

\* What is proved of the interleaver by itself; what is drawn of it is not used.
ILP == INSTANCE InterleaverProofs WITH
         PerCellLimit <- 0,
         Keys <- 0 .. IdSpace - 1, ZeroKey <- 0,
         Garbage <- [packet_id |-> 0, fec_id |-> 0, body |-> RepairBody(0)]

-----------------------------------------------------------------------------
(* The invariant                                                             *)

\* How full the builder's block is at each place, what is left to add and to
\* push, and how its id counts the blocks encoded
ControlInv ==
  /\ pc \in {"encode", "push", "drain"} => Len(symbols) = K
  /\ pc \in {"recv", "add", "tick", "flushed"} => Len(symbols) < K
  /\ pc = "recv" \/ (pc # "add" /\ after = "recv") => frags = <<>>
  /\ block_id = Len(encoded) + (IF pc \in {"push", "drain"} THEN 0 ELSE 1)

PushedSoFar == N - Len(pending)

\* What encode_and_drain() has still to push: the rest of the block's symbols
PendingInv ==
  /\ pc # "push" => pending = <<>>
  /\ pc = "push" =>
       /\ pending \in Seq(Symbols)
       /\ Len(pending) \in 1 .. N
       /\ \A i \in 1 .. Len(pending) :
            pending[i].packet_id = WireId /\ pending[i].fec_id = PushedSoFar + i - 1

\* The block being pushed has a row, the last one taken.
HasRow == pc = "push" /\ Len(pending) < N

\* The next block that will take a row, and the first block of the window
NextBlock == IF pc = "push" /\ Len(pending) = N THEN Len(encoded) ELSE Len(encoded) + 1
FirstBlock == NextBlock - blocks

\* The rows taken hold consecutive blocks, whole but for the one being pushed.
WindowInv ==
  /\ ready => pc \in {"drain", "flushed"}
  /\ FirstBlock >= 1
  /\ HasRow => blocks >= 1
  /\ \A r \in 0 .. Depth - 1 :
       row_key[r] = IF r < blocks THEN (FirstBlock + r) % IdSpace ELSE 0
  /\ ~ready => \A r \in 0 .. Depth - 1 : r < blocks =>
       mask[r] = IF HasRow /\ r = blocks - 1 THEN 0 .. PushedSoFar - 1 ELSE 0 .. N - 1

Goes(b, f) ==
  \/ <<b % IdSpace, f>> \in sent
  \/ \E sym \in owed : sym.packet_id = b % IdSpace /\ sym.fec_id = f

\* Every symbol of every block is on the wire or owed, but for those still pending.
OutInv ==
  \A b \in 1 .. Len(encoded), f \in 0 .. N - 1 :
    (pc = "push" /\ b = Len(encoded) /\ f >= PushedSoFar) \/ Goes(b, f)

\* How many of the last symbols on the wire are from the window being read
OfWindow == IF ~ready THEN 0 ELSE IF pop_col = 0 THEN pop_row ELSE Depth

\* The row read t symbols ago
RowBefore(t) == IF t <= pop_row THEN pop_row - t ELSE pop_row - t + Depth

\* An id from one of the Depth blocks before block first
Earlier(first, id) ==
  id = 0 \/ \E b \in Nat : first - Depth <= b /\ b < first /\ id = b % IdSpace

\* The last Depth symbols on the wire: one of each row of the window, or of the
\* window before.
RecentInv ==
  /\ recent \in Seq(0 .. IdSpace - 1)
  /\ Len(recent) <= Depth /\ OfWindow <= Len(recent)
  /\ \A t \in 1 .. OfWindow : recent[Len(recent) + 1 - t] = row_key[RowBefore(t)]
  /\ \A i \in 1 .. Len(recent) - OfWindow : Earlier(FirstBlock, recent[i])
  /\ WireSpread

Inv == TypeOK /\ ControlInv /\ PendingInv /\ ILP!IInv /\ WindowInv /\ OutInv /\ RecentInv
-----------------------------------------------------------------------------
(* The interleaver in the pipeline                                           *)

\* What create() of the pipeline passes to interleaver_create() is in order.
LEMMA WindowAssumption == ILP!InterleaverAssumption
<1>1. N \in Nat \ {0} /\ Depth \in Nat \ {0} /\ FlushTimeout \in Nat /\ MaxNow \in Nat
  BY TxAssumption, CodingAssumption DEF N
<1>2. 0 \in 0 .. IdSpace - 1 /\ 0 \in 0 .. N - 1 /\ 0 .. N - 1 \subseteq Nat
  BY <1>1, TxAssumption
<1>3. Zeros(SymbolSize) \in Seq(Nat)
  BY CodingAssumption DEF Zeros
<1>4. Padding \in Bodies /\ RepairBody(0) \in Bodies
  BY <1>1, <1>3, CodingAssumption DEF Padding, RepairBody, Bodies
<1> QED
  BY <1>1, <1>2, <1>4 DEF ILP!InterleaverAssumption, ILP!Cols, Symbols

LEMMA SameRows == IL!Rows = 0 .. Depth - 1 /\ ILP!Rows = 0 .. Depth - 1
                  /\ IL!Cols = 0 .. N - 1 /\ ILP!Cols = 0 .. N - 1
BY DEF IL!Rows, ILP!Rows, IL!Cols, ILP!Cols

LEMMA SameLookup ==
  ASSUME NEW key
  PROVE  ILP!RowsOf(key) = IL!RowsOf(key) /\ ILP!ResolveRow(key) = IL!ResolveRow(key)
BY DEF ILP!RowsOf, IL!RowsOf, ILP!ResolveRow, IL!ResolveRow, ILP!Lowest, IL!Lowest

LEMMA SamePush ==
  ASSUME NEW sym
  PROVE  (ILP!Rejects(sym) <=> IL!Rejects(sym)) /\ (ILP!Push(sym) <=> IL!Push(sym))
         /\ (ILP!IsDuplicate(sym) <=> IL!IsDuplicate(sym))
BY SameLookup, SameRows DEF ILP!Rejects, IL!Rejects, ILP!IsDuplicate, IL!IsDuplicate, ILP!Push, IL!Push

LEMMA SameFlush == (ILP!FlushDue <=> IL!FlushDue) /\ (ILP!Flush <=> IL!Flush)
BY SameRows DEF ILP!FlushDue, IL!FlushDue, ILP!Flush, IL!Flush, ILP!ForceFill, IL!ForceFill

LEMMA SamePop == ILP!PopCell = IL!PopCell /\ (ILP!Pop <=> IL!Pop)
BY SameRows DEF ILP!PopCell, IL!PopCell, ILP!Pop, IL!Pop, ILP!LastPop, IL!LastPop,
   ILP!ResetWindow, IL!ResetWindow

LEMMA SameInit == ILP!Init <=> IL!Init
BY SameRows DEF ILP!Init, IL!Init

\* A step of the interleaver in the pipeline is a step of the interleaver.
LEMMA WindowKept ==
  ASSUME ILP!IInv,
         \/ \E sym \in Symbols : IL!Push(sym)
         \/ IL!Flush
         \/ IL!Pop
         \/ UNCHANGED interleaver /\ now' = now
         \/ UNCHANGED interleaver /\ now < MaxNow /\ now' = now + 1
  PROVE  ILP!IInv'
<1>1. [ILP!Next]_(ILP!vars)
  BY SamePush, SameFlush, SamePop
     DEF interleaver, ILP!Next, ILP!vars, ILP!window, ILP!Advance
<1> QED
  BY <1>1, WindowAssumption, ILP!WindowStep

-----------------------------------------------------------------------------
(* Numbers, fragments and blocks                                             *)

\* The sizes the pipeline is created with
LEMMA Sizes ==
  /\ K \in Nat \ {0} /\ M \in Nat \ {0} /\ N = K + M /\ N \in Nat \ {0} /\ K < N /\ 1 < N
  /\ SymbolSize \in Nat \ {0} /\ Depth \in Nat \ {0}
  /\ IdSpace \in Nat \ {0} /\ 2 * Depth <= IdSpace
BY TxAssumption, CodingAssumption DEF N

LEMMA ZerosAre == ASSUME NEW n \in Nat PROVE Zeros(n) \in Seq(Nat) /\ Len(Zeros(n)) = n
BY DEF Zeros

\* Rounding up: fragment i - 1 starts inside the packet.
LEMMA CeilIsCeil ==
  ASSUME NEW a \in Nat \ {0}, NEW b \in Nat \ {0}
  PROVE  CeilDiv(a, b) \in Nat \ {0} /\ (CeilDiv(a, b) - 1) * b < a /\ a <= CeilDiv(a, b) * b
<1> DEFINE q == CeilDiv(a, b)
           r == (a + b - 1) % b
<1>1. q \in Int /\ r \in 0 .. b - 1 /\ a + b - 1 = q * b + r
  BY DEF CeilDiv
<1> HIDE DEF q, r
<1>2. r \in Int /\ 0 <= r /\ r < b
  BY <1>1
<1>3. (q - 1) * b = q * b - b
  BY <1>1
<1>4. q * b \in Int /\ (q - 1) * b < a /\ a <= q * b
  BY <1>1, <1>2, <1>3
<1>5. q >= 1
  <2>1. CASE q <= 0
    <3>1. q * b <= 0
      BY <1>1, <2>1
    <3> QED BY <1>4, <3>1
  <2> QED BY <1>1, <2>1
<1> QED
  BY <1>1, <1>4, <1>5 DEF q

\* A fragment has between one and SymbolSize bytes.
LEMMA SliceIs ==
  ASSUME NEW pkt \in Seq(Nat), pkt # <<>>, NEW i \in Nat, i < NumFragments(Len(pkt), SymbolSize)
  PROVE  /\ Slice(pkt, SymbolSize, i) \in Seq(Nat)
         /\ Len(Slice(pkt, SymbolSize, i)) \in 1 .. SymbolSize
<1> DEFINE n    == NumFragments(Len(pkt), SymbolSize)
           from == i * SymbolSize
           to   == IF (i + 1) * SymbolSize < Len(pkt) THEN (i + 1) * SymbolSize ELSE Len(pkt)
<1>1. Len(pkt) \in Nat \ {0} /\ SymbolSize \in Nat \ {0}
  BY Sizes
<1>2. n \in Nat \ {0} /\ (n - 1) * SymbolSize < Len(pkt)
  BY <1>1, CeilIsCeil DEF NumFragments
<1>3. from <= (n - 1) * SymbolSize /\ from \in Nat
  <2>1. i <= n - 1 /\ n - 1 \in Nat
    BY <1>2
  <2> HIDE DEF n
  <2>2. i \in Int /\ n - 1 \in Int /\ SymbolSize \in Nat
    BY <1>1, <2>1
  <2>3. i * SymbolSize <= (n - 1) * SymbolSize
    BY <2>1, <2>2, TimesGrows, Zenon
  <2>4. i * SymbolSize \in Nat
    BY <2>2
  <2> QED BY <2>3, <2>4
<1>4. from < Len(pkt) /\ (i + 1) * SymbolSize = from + SymbolSize
  <2>1. (n - 1) * SymbolSize \in Int
    BY <1>1, <1>2
  <2>2. (i + 1) * SymbolSize = i * SymbolSize + SymbolSize
    BY <1>1
  <2> HIDE DEF n
  <2> QED BY <1>1, <1>2, <1>3, <2>1, <2>2, SMTT(30)
<1>5. to \in Nat /\ from + 1 <= to /\ to <= from + SymbolSize /\ to <= Len(pkt)
  <2> HIDE DEF from
  <2> QED BY <1>1, <1>3, <1>4
<1>6. Slice(pkt, SymbolSize, i) = SubSeq(pkt, from + 1, to)
  BY DEF Slice
<1> HIDE DEF from, to
<1>7. /\ SubSeq(pkt, from + 1, to) \in Seq(Nat)
      /\ Len(SubSeq(pkt, from + 1, to)) = to - from
  BY <1>1, <1>3, <1>5
<1> QED
  BY <1>1, <1>3, <1>5, <1>6, <1>7

\* The fragments of a packet: numbered from 0, none of them empty
LEMMA FragmentsAre ==
  ASSUME NEW pkt \in Packets
  PROVE  /\ Fragments(pkt) \in Seq(FragRec)
         /\ Len(Fragments(pkt)) = NumFragments(Len(pkt), SymbolSize)
         /\ Len(Fragments(pkt)) \in Nat \ {0}
         /\ \A i \in 1 .. Len(Fragments(pkt)) :
              /\ Fragments(pkt)[i].symbol_index = i - 1
              /\ Fragments(pkt)[i].total_symbols = Len(Fragments(pkt))
              /\ Fragments(pkt)[i].payload_len > 0
<1> DEFINE n == NumFragments(Len(pkt), SymbolSize)
<1>1. pkt \in Seq(Nat) /\ pkt # <<>> /\ Len(pkt) \in Nat \ {0}
  BY TxAssumption
<1>2. n \in Nat \ {0}
  BY <1>1, Sizes, CeilIsCeil DEF NumFragments
<1>3. Fragments(pkt) = [i \in 1 .. n |-> FragmentAt(pkt, 0, SymbolSize, n, i - 1)]
  BY DEF Fragments, Fragment
<1> HIDE DEF n
<1>4. ASSUME NEW i \in 1 .. n
      PROVE  /\ FragmentAt(pkt, 0, SymbolSize, n, i - 1) \in FragRec
             /\ FragmentAt(pkt, 0, SymbolSize, n, i - 1).symbol_index = i - 1
             /\ FragmentAt(pkt, 0, SymbolSize, n, i - 1).total_symbols = n
             /\ FragmentAt(pkt, 0, SymbolSize, n, i - 1).payload_len > 0
  <2> DEFINE bytes == Slice(pkt, SymbolSize, i - 1)
  <2>1. i - 1 \in Nat /\ i - 1 < n
    BY <1>2
  <2>2. bytes \in Seq(Nat) /\ Len(bytes) \in 1 .. SymbolSize
    BY <1>1, <2>1, SliceIs DEF n
  <2>3. FragmentAt(pkt, 0, SymbolSize, n, i - 1) =
          [packet_id |-> 0, symbol_index |-> i - 1, total_symbols |-> n,
           payload_len |-> Len(bytes), data |-> bytes \o Zeros(SymbolSize - Len(bytes))]
    BY DEF FragmentAt
  <2> HIDE DEF bytes
  <2>4. SymbolSize - Len(bytes) \in Nat /\ Len(bytes) \in 0 .. SymbolSize /\ Len(bytes) > 0
    BY <2>2, Sizes
  <2>5. bytes \o Zeros(SymbolSize - Len(bytes)) \in Seq(Nat)
    BY <2>2, <2>4, ZerosAre
  <2>6. FragmentAt(pkt, 0, SymbolSize, n, i - 1) \in FragRec
    <3> DEFINE data == bytes \o Zeros(SymbolSize - Len(bytes))
               len == Len(bytes)
    <3>1. n \in Nat /\ i - 1 \in Nat /\ len \in 0 .. SymbolSize /\ data \in Seq(Nat)
      BY <1>2, <2>1, <2>4, <2>5
    <3> HIDE DEF data, len
    <3>2. [packet_id |-> 0, symbol_index |-> i - 1, total_symbols |-> n,
           payload_len |-> len, data |-> data] \in FragRec
      BY <3>1 DEF FragRec
    <3> QED BY <2>3, <3>2 DEF data, len
  <2>7. /\ FragmentAt(pkt, 0, SymbolSize, n, i - 1).symbol_index = i - 1
        /\ FragmentAt(pkt, 0, SymbolSize, n, i - 1).total_symbols = n
        /\ FragmentAt(pkt, 0, SymbolSize, n, i - 1).payload_len = Len(bytes)
    BY <2>3
  <2> QED
    BY <2>4, <2>6, <2>7
<1> QED
  BY <1>2, <1>3, <1>4 DEF n

LEMMA PaddedIs ==
  ASSUME NEW s \in Seq(FragRec), Len(s) <= K
  PROVE  Padded(s) \in Seq(FragRec) /\ Len(Padded(s)) = K
<1>1. PaddingSymbol \in FragRec
  BY Sizes, ZerosAre DEF PaddingSymbol, FragRec
<1>2. ASSUME NEW i \in 1 .. K PROVE (IF i <= Len(s) THEN s[i] ELSE PaddingSymbol) \in FragRec
  BY <1>1, Sizes
<1> QED
  BY <1>2, Sizes DEF Padded

\* A block as encode_and_drain() stamps it: its id, and fec_ids from 0
LEMMA CodewordIs ==
  ASSUME NEW id \in 0 .. IdSpace - 1, NEW s \in Seq(FragRec), Len(s) = K
  PROVE  /\ Codeword(id, s) \in Seq(Symbols)
         /\ Len(Codeword(id, s)) = N
         /\ \A i \in 1 .. N : Codeword(id, s)[i].packet_id = id /\ Codeword(id, s)[i].fec_id = i - 1
<1> DEFINE body(i) == IF i <= K THEN Body(s[i]) ELSE RepairBody(i - K - 1)
<1>1. ASSUME NEW i \in 1 .. N PROVE body(i) \in Bodies
  <2>1. CASE i <= K
    <3>1. s[i] \in FragRec
      BY <2>1, Sizes
    <3>2. Body(s[i]) \in Bodies
      BY <3>1, Sizes, SMTT(30) DEF Body, Bodies, FragRec
    <3> QED BY <2>1, <3>2
  <2>2. CASE ~(i <= K)
    <3>1. i - K - 1 \in Nat /\ K + (i - K - 1) \in Nat
      BY <2>2, Sizes
    <3>2. RepairBody(i - K - 1) \in Bodies
      BY <3>1, Sizes, ZerosAre DEF RepairBody, Bodies
    <3> QED BY <2>2, <3>2
  <2> QED BY <2>1, <2>2
<1>2. Codeword(id, s) = [i \in 1 .. N |-> [packet_id |-> id, fec_id |-> i - 1, body |-> body(i)]]
  BY DEF Codeword
<1> HIDE DEF body
<1>3. \A i \in 1 .. N : i - 1 \in 0 .. N - 1
  BY Sizes
<1> QED
  BY <1>1, <1>2, <1>3, Sizes DEF Symbols

-----------------------------------------------------------------------------
(* Ids on the wire                                                           *)

\* The last window's worth of ids and this one's differ: 2^32 is far away.
LEMMA IdsApart ==
  ASSUME NEW a \in Int, NEW b \in Int, a < b, b < a + 2 * Depth
  PROVE  a % IdSpace # b % IdSpace
<1>1. b < a + IdSpace
  BY Sizes
<1> QED
  BY <1>1, Sizes, ModApart

LEMMA IdIs == ASSUME NEW a \in Int PROVE a % IdSpace \in 0 .. IdSpace - 1
BY Sizes, ModRange

-----------------------------------------------------------------------------
(* Steps that leave the interleaver and the wire alone                       *)

\* tx_pipeline_create() starts with an empty builder and an empty window.
LEMMA PipelineInit == Init => Inv
<1> SUFFICES ASSUME Init PROVE Inv
  OBVIOUS
<1> USE DEF Init
<1>1. ILP!IInv
  BY SameInit, WindowAssumption, ILP!WindowInit
<1>2. now = 0 /\ ~ready /\ blocks = 0 /\ row_key = [r \in 0 .. Depth - 1 |-> 0]
  BY SameRows DEF IL!Init
<1>3. TypeOK
  BY <1>2, Sizes DEF TypeOK
<1>4. ControlInv /\ PendingInv
  BY Sizes DEF ControlInv, PendingInv
<1>5. NextBlock = 1 /\ FirstBlock = 1
  BY <1>2 DEF NextBlock, FirstBlock
<1>6. \A r \in 0 .. Depth - 1 : ~(r < 0)
  BY Sizes
<1>7. WindowInv
  BY <1>2, <1>5, <1>6 DEF WindowInv, HasRow
<1>8. OutInv
  BY DEF OutInv
<1>9. RecentInv
  BY <1>2, Sizes DEF RecentInv, OfWindow, WireSpread
<1> QED
  BY <1>1, <1>3, <1>4, <1>7, <1>8, <1>9 DEF Inv

\* ... outside encode_and_drain(), when no block is encoded.
LEMMA QuietStep ==
  ASSUME Inv, UNCHANGED <<interleaver, sent, recent, encoded, pending>>,
         \/ now' = now
         \/ now < MaxNow /\ now' = now + 1,
         pc # "push", pc' # "push",
         ready => pc' \in {"drain", "flushed"}
  PROVE  ILP!IInv' /\ WindowInv' /\ OutInv' /\ RecentInv'
<1>1. ILP!IInv'
  BY WindowKept DEF Inv
<1> USE DEF interleaver
<1>2. NextBlock' = NextBlock /\ FirstBlock' = FirstBlock /\ ~HasRow /\ ~HasRow'
  BY DEF NextBlock, FirstBlock, HasRow
<1>3. WindowInv'
  BY <1>2 DEF Inv, WindowInv
<1>4. OutInv'
  BY DEF Inv, OutInv, Goes
<1>5. OfWindow' = OfWindow /\ \A t : RowBefore(t)' = RowBefore(t)
  BY DEF OfWindow, RowBefore
<1>6. \A id : Earlier(FirstBlock, id) => Earlier(FirstBlock', id)
  BY <1>2 DEF Earlier
<1>7. RecentInv'
  BY <1>5, <1>6 DEF Inv, RecentInv, WireSpread
<1> QED BY <1>1, <1>3, <1>4, <1>7

\* The timeouts of the builder, and a frame that ends the call at once
LEMMA IdleStep == ASSUME Inv, Idle PROVE Inv'
<1>1. /\ pc = "recv" /\ pc' \in {"encode", "tick"} /\ after' = "recv"
      /\ UNCHANGED <<interleaver, frags, pending, history, now, block_id, first_activity>>
      /\ \/ pc' = "encode" /\ symbols' = Padded(symbols)
         \/ pc' = "tick" /\ symbols' = symbols
  BY DEF Idle, Flush, builder
<1>2. ~ready
  BY <1>1 DEF Inv, WindowInv
<1>3. ILP!IInv' /\ WindowInv' /\ OutInv' /\ RecentInv'
  BY <1>1, <1>2, QuietStep DEF history
<1>4. Padded(symbols) \in Seq(FragRec) /\ Len(Padded(symbols)) = K
  BY PaddedIs DEF Inv, TypeOK
<1>5. TypeOK'
  BY <1>1, <1>4, Sizes DEF Inv, TypeOK
<1>6. ControlInv' /\ PendingInv'
  BY <1>1, <1>4 DEF Inv, ControlInv, PendingInv, history
<1> QED BY <1>3, <1>5, <1>6 DEF Inv

LEMMA SkipStep == ASSUME Inv, Skip PROVE Inv'
<1>1. UNCHANGED <<builder, interleaver, control, accepted, encoded, sent, recent, now>> /\ pc = "recv"
  BY DEF Skip
<1>2. ILP!IInv' /\ WindowInv' /\ OutInv' /\ RecentInv'
  BY <1>1, QuietStep DEF Inv, WindowInv, control
<1>3. TypeOK' /\ ControlInv' /\ PendingInv'
  BY <1>1 DEF Inv, TypeOK, ControlInv, PendingInv, builder, control
<1> QED BY <1>2, <1>3 DEF Inv

LEMMA AcceptStep == ASSUME Inv, NEW pkt \in Packets, Accept(pkt) PROVE Inv'
<1>1. /\ pc = "recv" /\ frags' = Fragments(pkt)
      /\ UNCHANGED <<interleaver, pending, encoded, sent, recent, skips, now, block_id, first_activity>>
      /\ \/ pc' = "encode" /\ symbols' = Padded(symbols) /\ after' = "add"
         \/ pc' = "add" /\ symbols' = symbols /\ after' = after
  BY DEF Accept, Flush, builder, Fragments
<1>2. ~ready
  BY <1>1 DEF Inv, WindowInv
<1>3. ILP!IInv' /\ WindowInv' /\ OutInv' /\ RecentInv'
  BY <1>1, <1>2, QuietStep
<1>4. Padded(symbols) \in Seq(FragRec) /\ Len(Padded(symbols)) = K
  BY PaddedIs DEF Inv, TypeOK
<1>5. TypeOK'
  BY <1>1, <1>4, Sizes, FragmentsAre DEF Inv, TypeOK
<1>6. ControlInv' /\ PendingInv'
  BY <1>1, <1>4 DEF Inv, ControlInv, PendingInv
<1> QED BY <1>3, <1>5, <1>6 DEF Inv

LEMMA AddFragmentStep == ASSUME Inv, AddFragment PROVE Inv'
<1>1. /\ pc = "add" /\ frags # <<>> /\ Len(symbols) < K
      /\ symbols' = Append(symbols, Head(frags)) /\ frags' = Tail(frags)
      /\ first_activity' \in {now, first_activity}
      /\ UNCHANGED <<interleaver, pending, history, now, block_id>>
      /\ \/ Len(symbols) + 1 = K /\ pc' = "encode" /\ after' = "add"
         \/ Len(symbols) + 1 < K /\ pc' = pc /\ after' = after
  BY DEF AddFragment, AddSymbol, FirstActivity
<1>2. ~ready /\ symbols \in Seq(FragRec) /\ frags \in Seq(FragRec)
  BY <1>1 DEF Inv, WindowInv, TypeOK
<1>3. ILP!IInv' /\ WindowInv' /\ OutInv' /\ RecentInv'
  BY <1>1, <1>2, QuietStep DEF history
<1>4. /\ symbols' \in Seq(FragRec) /\ Len(symbols') = Len(symbols) + 1 /\ Len(symbols) \in Nat
      /\ frags' \in Seq(FragRec)
  BY <1>1, <1>2
<1>5. TypeOK'
  <2>1. now \in Nat /\ first_activity' \in 0 .. now
    <3>1. first_activity \in 0 .. now /\ now \in Nat
      BY DEF Inv, TypeOK, ILP!IInv, ILP!WindowIsSound, ILP!TypeOK
    <3> QED BY <1>1, <3>1
  <2> QED BY <1>1, <1>4, <2>1, Sizes DEF Inv, TypeOK
<1>6. ControlInv' /\ PendingInv'
  BY <1>1, <1>4, Sizes DEF Inv, ControlInv, PendingInv, history
<1> QED BY <1>3, <1>5, <1>6 DEF Inv

LEMMA FragmentsDoneStep == ASSUME Inv, FragmentsDone PROVE Inv'
<1>1. /\ pc = "add" /\ frags = <<>> /\ pc' \in {"encode", "tick"} /\ after' = "recv"
      /\ UNCHANGED <<interleaver, frags, pending, history, now, block_id, first_activity>>
      /\ \/ pc' = "encode" /\ symbols' = Padded(symbols)
         \/ pc' = "tick" /\ symbols' = symbols
  BY DEF FragmentsDone, Flush, builder
<1>2. ~ready
  BY <1>1 DEF Inv, WindowInv
<1>3. ILP!IInv' /\ WindowInv' /\ OutInv' /\ RecentInv'
  BY <1>1, <1>2, QuietStep DEF history
<1>4. Padded(symbols) \in Seq(FragRec) /\ Len(Padded(symbols)) = K
  BY PaddedIs DEF Inv, TypeOK
<1>5. TypeOK'
  BY <1>1, <1>4, Sizes DEF Inv, TypeOK
<1>6. ControlInv' /\ PendingInv'
  BY <1>1, <1>4 DEF Inv, ControlInv, PendingInv, history
<1> QED BY <1>3, <1>5, <1>6 DEF Inv

\* The builder is reset, and its block gets the next id.
LEMMA BlockDoneStep == ASSUME Inv, BlockDone PROVE Inv'
<1>1. /\ pc = "drain" /\ ~ready /\ pc' = "tick" /\ symbols' = <<>> /\ first_activity' = 0
      /\ block_id' = (IF block_id # 0 THEN block_id + 1 ELSE 1)
      /\ UNCHANGED <<interleaver, after, frags, pending, history, now>>
  BY DEF BlockDone, ResetBuilder
<1>2. ILP!IInv' /\ WindowInv' /\ OutInv' /\ RecentInv'
  BY <1>1, QuietStep DEF history
<1>3. now \in Nat /\ block_id' \in Nat
  BY <1>1 DEF Inv, TypeOK, ILP!IInv, ILP!WindowIsSound, ILP!TypeOK
<1>4. TypeOK'
  BY <1>1, <1>3, Sizes DEF Inv, TypeOK
<1>5. block_id' = block_id + 1 /\ block_id = Len(encoded)
  BY <1>1 DEF Inv, TypeOK, ControlInv
<1>6. ControlInv' /\ PendingInv'
  BY <1>1, <1>5, Sizes DEF Inv, ControlInv, PendingInv, history
<1> QED BY <1>2, <1>4, <1>6 DEF Inv

LEMMA FlushDoneStep == ASSUME Inv, FlushDone PROVE Inv'
<1>1. /\ pc = "flushed" /\ ~ready /\ pc' = after
      /\ UNCHANGED <<builder, interleaver, after, frags, pending, history, now>>
  BY DEF FlushDone
<1>2. after \in {"recv", "add"}
  BY DEF Inv, TypeOK
<1>3. ILP!IInv' /\ WindowInv' /\ OutInv' /\ RecentInv'
  BY <1>1, <1>2, QuietStep DEF history
<1>4. TypeOK' /\ ControlInv' /\ PendingInv'
  BY <1>1, <1>2 DEF Inv, TypeOK, ControlInv, PendingInv, builder, history
<1> QED BY <1>3, <1>4 DEF Inv

\* A tick with nothing to flush
LEMMA NoFlushStep ==
  ASSUME Inv, pc = "tick", pc' = after,
         UNCHANGED <<builder, interleaver, after, frags, pending, history, now>>
  PROVE  Inv'
<1>1. after \in {"recv", "add"} /\ ~ready
  BY DEF Inv, TypeOK, WindowInv
<1>2. ILP!IInv' /\ WindowInv' /\ OutInv' /\ RecentInv'
  BY <1>1, QuietStep DEF history
<1>3. TypeOK' /\ ControlInv' /\ PendingInv'
  BY <1>1 DEF Inv, TypeOK, ControlInv, PendingInv, builder, history
<1> QED BY <1>2, <1>3 DEF Inv

LEMMA AdvanceStep == ASSUME Inv, Advance PROVE Inv'
<1>1. /\ now < MaxNow /\ now' = now + 1 /\ pc = "recv"
      /\ UNCHANGED <<builder, interleaver, control, history>>
  BY DEF Advance
<1>2. ILP!IInv' /\ WindowInv' /\ OutInv' /\ RecentInv'
  BY <1>1, QuietStep DEF Inv, WindowInv, control, history
<1>3. first_activity' \in 0 .. now'
  <2>1. now \in Nat /\ first_activity \in 0 .. now
    BY DEF Inv, TypeOK, ILP!IInv, ILP!WindowIsSound, ILP!TypeOK
  <2> QED BY <1>1, <2>1 DEF builder
<1>4. TypeOK' /\ ControlInv' /\ PendingInv'
  BY <1>1, <1>3 DEF Inv, TypeOK, ControlInv, PendingInv, builder, control, history
<1> QED BY <1>2, <1>4 DEF Inv

\* encode_and_drain() stamps a block: nothing of it is out yet, nor does it have a row.
LEMMA EncodeStep == ASSUME Inv, Encode PROVE Inv'
<1>1. /\ pc = "encode" /\ ~ready /\ pc' = "push"
      /\ pending' = Codeword(WireId, symbols) /\ encoded' = Append(encoded, symbols)
      /\ UNCHANGED <<builder, interleaver, after, frags, accepted, sent, recent, skips, now>>
  BY DEF Encode
<1>2. /\ symbols \in Seq(FragRec) /\ Len(symbols) = K /\ block_id \in Nat
      /\ block_id = Len(encoded) + 1
  BY <1>1 DEF Inv, TypeOK, ControlInv
<1>3. WireId \in 0 .. IdSpace - 1
  BY <1>2, IdIs DEF WireId
<1>4. /\ pending' \in Seq(Symbols)
      /\ Len(pending') = N
      /\ \A i \in 1 .. N : pending'[i].packet_id = WireId /\ pending'[i].fec_id = i - 1
  BY <1>1, <1>2, <1>3, CodewordIs
<1>5. Len(encoded) \in Nat /\ Len(encoded') = Len(encoded) + 1
  BY <1>1, <1>2
<1>6. TypeOK' /\ WireId' = WireId
  BY <1>1 DEF Inv, TypeOK, builder, WireId
<1>7. ControlInv'
  BY <1>1, <1>2, <1>5 DEF Inv, ControlInv, builder
<1>8. PushedSoFar' = 0
  BY <1>4, Sizes DEF PushedSoFar
<1>9. PendingInv'
  <2>1. Len(pending') \in 1 .. N
    BY <1>4, Sizes
  <2>2. \A i \in 1 .. N : 0 + i - 1 = i - 1
    BY Sizes
  <2> QED BY <1>1, <1>4, <1>6, <1>8, <2>1, <2>2 DEF PendingInv
<1>10. ILP!IInv'
  BY <1>1, WindowKept DEF Inv
<1>11. NextBlock' = NextBlock /\ FirstBlock' = FirstBlock /\ ~HasRow /\ ~HasRow'
  BY <1>1, <1>4, <1>5, Sizes DEF NextBlock, FirstBlock, HasRow, interleaver
<1>12. WindowInv'
  BY <1>1, <1>11 DEF Inv, WindowInv, interleaver
<1>13. OutInv'
  <2>1. ASSUME NEW b \in 1 .. Len(encoded'), NEW f \in 0 .. N - 1
        PROVE  (b = Len(encoded') /\ f >= 0) \/ Goes(b, f)
    <3>1. CASE b = Len(encoded')
      BY <3>1, Sizes
    <3>2. CASE b # Len(encoded')
      <4>1. b \in 1 .. Len(encoded)
        BY <1>5, <3>2
      <4> QED BY <1>1, <4>1 DEF Inv, OutInv
    <3> QED BY <3>1, <3>2
  <2>2. \A b, f : Goes(b, f)' <=> Goes(b, f)
    BY <1>1 DEF Goes, interleaver
  <2> QED BY <1>1, <1>8, <2>1, <2>2 DEF OutInv
<1>14. RecentInv'
  <2>1. OfWindow' = OfWindow /\ \A t : RowBefore(t)' = RowBefore(t)
    BY <1>1 DEF OfWindow, RowBefore, interleaver
  <2>2. \A id : Earlier(FirstBlock, id) => Earlier(FirstBlock', id)
    BY <1>11 DEF Earlier
  <2> QED BY <1>1, <2>1, <2>2 DEF Inv, RecentInv, WireSpread, interleaver
<1> QED
  BY <1>6, <1>7, <1>9, <1>10, <1>12, <1>13, <1>14 DEF Inv

-----------------------------------------------------------------------------
(* interleaver_tick() and encode_and_drain()'s pushes                        *)

\* The window is opened for reading by the flush timer.
LEMMA FlushedStep ==
  ASSUME Inv, pc = "tick", pc' = "flushed", IL!Flush,
         UNCHANGED <<builder, after, frags, pending, history>>
  PROVE  Inv'
<1>1. ~ready /\ pc' # "push" /\ pc # "push"
  BY DEF Inv, WindowInv
<1>2. /\ ready' /\ pop_row' = 0 /\ pop_col' = 0
      /\ row_key' = row_key /\ blocks' = blocks /\ owed' = owed /\ now' = now
  BY DEF IL!Flush
<1>3. ILP!IInv'
  BY WindowKept DEF Inv
<1>4. TypeOK' /\ ControlInv' /\ PendingInv'
  BY <1>2 DEF Inv, TypeOK, ControlInv, PendingInv, builder, history
<1>5. NextBlock' = NextBlock /\ FirstBlock' = FirstBlock /\ ~HasRow'
  BY <1>1, <1>2 DEF NextBlock, FirstBlock, HasRow, history
<1>6. WindowInv'
  BY <1>2, <1>5 DEF Inv, WindowInv
<1>7. OutInv'
  BY <1>1, <1>2 DEF Inv, OutInv, Goes, history
<1>8. OfWindow' = 0 /\ OfWindow = 0
  BY <1>1, <1>2 DEF OfWindow
<1>9. \A id : Earlier(FirstBlock, id) => Earlier(FirstBlock', id)
  BY <1>5 DEF Earlier
<1>10. RecentInv'
  BY <1>8, <1>9 DEF Inv, RecentInv, WireSpread, history
<1> QED BY <1>3, <1>4, <1>6, <1>7, <1>10 DEF Inv

LEMMA TickStep == ASSUME Inv, TickInterleaver PROVE Inv'
<1>1. CASE IL!Flush /\ pc' = "flushed"
  BY <1>1, FlushedStep DEF TickInterleaver
<1>2. CASE ~IL!FlushDue /\ pc' = after /\ UNCHANGED <<interleaver, now>>
  BY <1>2, NoFlushStep DEF TickInterleaver
<1> QED BY <1>1, <1>2 DEF TickInterleaver

\* What the window looks like to encode_and_drain() when it pushes
LEMMA PushView ==
  ASSUME Inv, pc = "push"
  PROVE  /\ ~ready /\ ILP!TypeOK /\ ILP!RowIsBlock /\ ILP!ReadyIsComplete /\ ILP!Filling
         /\ Len(pending) \in 1 .. N /\ PushedSoFar \in 0 .. N - 1
         /\ Head(pending) \in Symbols
         /\ Head(pending).packet_id = WireId /\ Head(pending).fec_id = PushedSoFar
         /\ WireId = Len(encoded) % IdSpace /\ Len(encoded) \in Nat /\ Len(encoded) \in Int
         /\ blocks \in 0 .. Depth /\ FirstBlock \in Int
<1>1. ~ready
  BY DEF Inv, WindowInv
<1>2. ILP!TypeOK /\ ILP!RowIsBlock /\ ILP!ReadyIsComplete /\ ILP!Filling
  BY <1>1 DEF Inv, ILP!IInv, ILP!WindowIsSound
<1>3. /\ pending \in Seq(Symbols)
      /\ Len(pending) \in 1 .. N
      /\ \A i \in 1 .. Len(pending) :
           pending[i].packet_id = WireId /\ pending[i].fec_id = PushedSoFar + i - 1
  BY DEF Inv, PendingInv
<1>4. PushedSoFar \in 0 .. N - 1 /\ PushedSoFar + 1 - 1 = PushedSoFar /\ 1 \in 1 .. Len(pending)
  BY <1>3, Sizes DEF PushedSoFar
<1>5. Head(pending) = pending[1] /\ pending[1] \in Symbols
  BY <1>3, <1>4, HeadAndTail
<1>6. block_id = Len(encoded) /\ block_id \in Nat
  BY DEF Inv, ControlInv, TypeOK
<1>7. blocks \in 0 .. Depth
  BY <1>2 DEF ILP!TypeOK
<1>8. NextBlock \in Int /\ FirstBlock \in Int
  BY <1>6, <1>7 DEF NextBlock, FirstBlock
<1> QED
  BY <1>1, <1>2, <1>3, <1>4, <1>5, <1>6, <1>7, <1>8 DEF WireId

\* The first symbol of a block finds a free row: were there none, every row
\* would be whole, and the window open for reading.
LEMMA FirstPush ==
  ASSUME Inv, pc = "push", Len(pending) = N
  PROVE  /\ IL!RowsOf(WireId) = {} /\ blocks < Depth
         /\ IL!ResolveRow(WireId) = blocks /\ blocks \in 0 .. Depth - 1 /\ mask[blocks] = {}
<1> USE PushView
<1>1. ~HasRow /\ NextBlock = Len(encoded) /\ FirstBlock = Len(encoded) - blocks
  BY DEF HasRow, NextBlock, FirstBlock
<1>2. ASSUME NEW r \in 0 .. Depth - 1, r < blocks PROVE row_key[r] # WireId
  <2>1. row_key[r] = (FirstBlock + r) % IdSpace
    BY <1>2 DEF Inv, WindowInv
  <2>2. /\ FirstBlock + r \in Int
        /\ FirstBlock + r < Len(encoded) /\ Len(encoded) < FirstBlock + r + 2 * Depth
    BY <1>1, <1>2, Sizes, SMTT(30)
  <2> QED BY <2>1, <2>2, IdsApart
<1>3. IL!RowsOf(WireId) = {}
  BY <1>2 DEF IL!RowsOf, ILP!Filling, ILP!Rows
<1>4. blocks < Depth
  <2> SUFFICES ASSUME blocks = Depth PROVE FALSE
    BY Sizes
  <2>1. \A r \in 0 .. Depth - 1 : r < blocks
    BY Sizes
  <2>2. \A r \in 0 .. Depth - 1 : mask[r] = 0 .. N - 1
    BY <1>1, <2>1 DEF Inv, WindowInv
  <2>3. {r \in ILP!Rows : mask[r] = ILP!Cols} = ILP!Rows
    BY <2>2, SameRows
  <2>4. complete = Depth
    BY <2>3, WindowAssumption, ILP!RowsFinite DEF ILP!ReadyIsComplete
  <2> QED BY <2>4 DEF ILP!ReadyIsComplete
<1>5. ILP!RowsOf(WireId) = {}
  BY <1>3, SameLookup
<1>6. ILP!ResolveRow(WireId) = blocks /\ blocks \in ILP!Rows \ assigned
  BY <1>4, <1>5, WindowAssumption, ILP!FreeRow
<1>7. IL!ResolveRow(WireId) = blocks
  BY <1>6, SameLookup
<1>8. mask[blocks] = {} /\ blocks \in 0 .. Depth - 1
  BY <1>6, SameRows DEF ILP!Filling
<1> QED BY <1>3, <1>4, <1>7, <1>8

\* The symbols after it find the row of their block, with room for them.
LEMMA NextPush ==
  ASSUME Inv, pc = "push", Len(pending) < N
  PROVE  /\ IL!RowsOf(WireId) # {} /\ blocks >= 1
         /\ IL!ResolveRow(WireId) = blocks - 1 /\ blocks - 1 \in 0 .. Depth - 1
         /\ mask[blocks - 1] = 0 .. PushedSoFar - 1
<1> USE PushView
<1>1. HasRow /\ blocks >= 1 /\ NextBlock = Len(encoded) + 1 /\ FirstBlock + (blocks - 1) = Len(encoded)
  BY DEF Inv, WindowInv, HasRow, NextBlock, FirstBlock
<1>2. blocks - 1 \in 0 .. Depth - 1 /\ blocks - 1 < blocks
  <2>1. blocks \in 0 .. Depth /\ blocks >= 1
    BY <1>1
  <2> QED BY ONLY <2>1, Sizes
<1>3. row_key[blocks - 1] = WireId /\ mask[blocks - 1] = 0 .. PushedSoFar - 1
  BY <1>1, <1>2 DEF Inv, WindowInv
<1>4. blocks - 1 \in IL!RowsOf(WireId)
  BY <1>2, <1>3, SameRows DEF IL!RowsOf, ILP!Filling
<1>5. ILP!ResolveRow(WireId) \in ILP!RowsOf(WireId)
  BY <1>4, SameLookup, WindowAssumption, ILP!RowOfBlock
<1>6. IL!ResolveRow(WireId) \in assigned /\ row_key[IL!ResolveRow(WireId)] = WireId
  BY <1>5, SameLookup DEF IL!RowsOf
<1>7. IL!ResolveRow(WireId) = blocks - 1
  BY <1>3, <1>4, <1>6 DEF ILP!RowIsBlock, IL!RowsOf
<1> QED BY <1>1, <1>2, <1>3, <1>4, <1>7

\* A symbol of the block goes to the block's row, which is the last one taken.
LEMMA PushNextStep == ASSUME Inv, PushNext PROVE Inv'
<1> DEFINE sym == Head(pending)
           row == IF Len(pending) = N THEN blocks ELSE blocks - 1
<1>1. /\ pc = "push" /\ pending # <<>> /\ pending' = Tail(pending)
      /\ UNCHANGED <<builder, after, frags, history, now>>
  BY DEF PushNext
<1>2. /\ ~ready /\ ILP!TypeOK /\ ILP!RowIsBlock /\ ILP!ReadyIsComplete /\ ILP!Filling
      /\ Len(pending) \in 1 .. N /\ PushedSoFar \in 0 .. N - 1
      /\ sym \in Symbols /\ sym.packet_id = WireId /\ sym.fec_id = PushedSoFar
      /\ WireId = Len(encoded) % IdSpace /\ Len(encoded) \in Nat
      /\ blocks \in 0 .. Depth /\ FirstBlock \in Int
  BY <1>1, PushView
<1> HIDE DEF sym
<1>3. /\ row \in 0 .. Depth - 1 /\ row = IL!ResolveRow(WireId)
      /\ mask[row] = 0 .. PushedSoFar - 1
      /\ IL!RowsOf(WireId) = {} <=> Len(pending) = N
      /\ Len(pending) = N => blocks < Depth
      /\ Len(pending) < N => blocks >= 1
  <2>1. CASE Len(pending) = N
    <3>1. PushedSoFar = 0 /\ 0 .. PushedSoFar - 1 = {}
      BY <2>1, Sizes DEF PushedSoFar
    <3> QED BY <1>1, <2>1, <3>1, FirstPush
  <2>2. CASE Len(pending) # N
    <3>1. Len(pending) < N
      BY <1>2, <2>2, Sizes
    <3> QED BY <1>1, <2>2, <3>1, NextPush
  <2> QED BY <2>1, <2>2
<1> HIDE DEF row
<1>4. ~IL!Rejects(sym) /\ ~IL!IsDuplicate(sym)
  <2>1. sym.fec_id \in IL!Cols
    BY <1>2, SameRows
  <2>2. PushedSoFar \notin 0 .. PushedSoFar - 1
    BY <1>2
  <2>3. ~IL!Rejects(sym)
    BY <1>2, <1>3, <2>1, Sizes DEF IL!Rejects
  <2> QED BY <1>2, <1>3, <2>2, <2>3 DEF IL!IsDuplicate
<1>5. IL!Push(sym) /\ pc' = IF Len(pending) = 1 THEN "drain" ELSE "push"
  BY <1>4 DEF PushNext, sym
<1> DEFINE got == 0 .. PushedSoFar
<1>6. /\ mask' = [mask EXCEPT ![row] = got]
      /\ row_key' = [row_key EXCEPT ![row] = WireId]
      /\ blocks' = IF Len(pending) = N THEN blocks + 1 ELSE blocks
      /\ ready' => got = 0 .. N - 1
      /\ owed' = owed \cup {sym} /\ pop_row' = 0 /\ pop_col' = 0
  <2>1. (0 .. PushedSoFar - 1) \cup {PushedSoFar} = got
    BY <1>2
  <2>2. mask[row] \cup {sym.fec_id} = got
    BY <1>2, <1>3, <2>1
  <2> HIDE DEF got
  <2> QED BY <1>2, <1>3, <1>5, <2>2, SameRows DEF IL!Push, ILP!Filling
<1> HIDE DEF got
<1>7. Len(pending') = Len(pending) - 1 /\ pending' \in Seq(Symbols)
      /\ \A i \in 1 .. Len(pending) - 1 : pending'[i] = pending[i + 1]
  BY <1>1, <1>2, HeadAndTail DEF Inv, PendingInv
<1>8. PushedSoFar' = PushedSoFar + 1 /\ PushedSoFar = N - Len(pending)
      /\ (Len(pending) = 1 <=> PushedSoFar = N - 1)
  <2>1. PushedSoFar' = N - Len(pending') /\ PushedSoFar = N - Len(pending)
    BY DEF PushedSoFar
  <2>2. Len(pending) \in Int /\ N \in Int
    BY <1>2, Sizes
  <2> QED BY ONLY <1>7, <2>1, <2>2
<1>9. ILP!IInv'
  BY <1>2, <1>5, WindowKept DEF Inv
<1>10. TypeOK' /\ ControlInv'
  BY <1>1, <1>5 DEF Inv, TypeOK, ControlInv, builder, history
<1>11. PendingInv'
  <2>1. CASE Len(pending) = 1
    BY <1>5, <1>7, <2>1 DEF PendingInv
  <2>2. CASE Len(pending) # 1
    <3>1. pc' = "push" /\ Len(pending') \in 1 .. N
      BY <1>2, <1>5, <1>7, <2>2, Sizes
    <3>2. WireId' = WireId
      BY <1>1 DEF WireId, builder
    <3>3. ASSUME NEW i \in 1 .. Len(pending')
          PROVE  /\ pending'[i].packet_id = WireId
                 /\ pending'[i].fec_id = PushedSoFar + 1 + i - 1
      <4>1. i + 1 \in 1 .. Len(pending) /\ i \in 1 .. Len(pending) - 1
            /\ PushedSoFar + (i + 1) - 1 = PushedSoFar + 1 + i - 1
        BY <1>2, <1>7
      <4> QED BY <1>1, <1>7, <4>1 DEF Inv, PendingInv
    <3> QED BY <1>7, <1>8, <3>1, <3>2, <3>3 DEF PendingInv
  <2> QED BY <2>1, <2>2
<1>12. FirstBlock' = FirstBlock /\ NextBlock' = Len(encoded) + 1
       /\ FirstBlock + row = Len(encoded) /\ row = blocks' - 1
  <2>1. encoded' = encoded
    BY <1>1 DEF history
  <2>2. ~(pc' = "push" /\ Len(pending') = N)
    BY <1>2, <1>7, Sizes
  <2>3. NextBlock' = Len(encoded) + 1
    BY <2>1, <2>2 DEF NextBlock
  <2>4. NextBlock = IF Len(pending) = N THEN Len(encoded) ELSE Len(encoded) + 1
    BY <1>1 DEF NextBlock
  <2>5. FirstBlock = NextBlock - blocks /\ FirstBlock' = NextBlock' - blocks'
    BY DEF FirstBlock
  <2>6. blocks \in Int /\ Len(encoded) \in Int
    BY <1>2
  <2> QED BY <1>6, <2>3, <2>4, <2>5, <2>6 DEF row
<1>13. WindowInv'
  <2>1. ready' => pc' = "drain"
    <3>1. got = 0 .. N - 1 => PushedSoFar = N - 1
      <4>1. N - 1 \in 0 .. N - 1
        BY Sizes
      <4> QED BY <1>2, <4>1 DEF got
    <3> QED BY <1>5, <1>6, <1>8, <3>1
  <2>2. HasRow' => blocks' >= 1
    <3>1. blocks \in Nat /\ (Len(pending) = N \/ blocks >= 1)
      BY <1>2, <1>3, Sizes
    <3> QED BY <1>6, <3>1
  <2>3. row_key \in [0 .. Depth - 1 -> 0 .. IdSpace - 1] /\ mask \in [0 .. Depth - 1 -> SUBSET (0 .. N - 1)]
    BY <1>2, SameRows DEF ILP!TypeOK
  <2>4. ASSUME NEW r \in 0 .. Depth - 1
        PROVE  row_key'[r] = IF r < blocks' THEN (FirstBlock + r) % IdSpace ELSE 0
    <3>1. CASE r = row
      BY <1>2, <1>3, <1>6, <1>12, <2>3, <3>1, SMTT(30)
    <3>2. CASE r # row
      <4>1. row_key'[r] = row_key[r]
        BY <1>6, <2>3, <3>2
      <4>2. r < blocks' <=> r < blocks
        BY <1>2, <1>3, <1>6, <1>12, <3>2, SMTT(30)
      <4> QED BY <4>1, <4>2 DEF Inv, WindowInv
    <3> QED BY <3>1, <3>2
  <2>5. ASSUME NEW r \in 0 .. Depth - 1, r < blocks'
        PROVE  mask'[r] = IF HasRow' /\ r = blocks' - 1 THEN 0 .. PushedSoFar ELSE 0 .. N - 1
    <3>1. CASE r = row
      <4>1. mask'[r] = 0 .. PushedSoFar
        BY <1>3, <1>6, <2>3, <3>1 DEF got
      <4>2. ~HasRow' => 0 .. PushedSoFar = 0 .. N - 1
        <5>1. HasRow' <=> pc' = "push"
          BY <1>2, <1>7, Sizes DEF HasRow
        <5> QED BY <1>5, <1>8, <5>1
      <4> QED BY <1>12, <3>1, <4>1, <4>2
    <3>2. CASE r # row
      <4>1. mask'[r] = mask[r]
        BY <1>6, <2>3, <3>2
      <4>2. r < blocks /\ ~(HasRow /\ r = blocks - 1)
        <5>1. CASE Len(pending) = N
          BY <1>2, <1>6, <2>5, <3>2, <5>1 DEF HasRow, row
        <5>2. CASE Len(pending) # N
          BY <1>6, <2>5, <3>2, <5>2 DEF row
        <5> QED BY <5>1, <5>2
      <4> QED BY <1>2, <1>12, <3>2, <4>1, <4>2 DEF Inv, WindowInv
    <3> QED BY <3>1, <3>2
  <2>6. PushedSoFar' - 1 = PushedSoFar
    BY <1>2, <1>8
  <2> QED BY <1>12, <2>1, <2>2, <2>4, <2>5, <2>6 DEF Inv, WindowInv
<1>14. OutInv'
  <2>1. ASSUME NEW b \in 1 .. Len(encoded), NEW f \in 0 .. N - 1
        PROVE  (pc' = "push" /\ b = Len(encoded) /\ f >= PushedSoFar + 1) \/ Goes(b, f)'
    <3>1. CASE Goes(b, f)
      BY <1>1, <1>6, <3>1 DEF Goes, history
    <3>2. CASE b = Len(encoded) /\ f >= PushedSoFar
      <4>1. CASE f = PushedSoFar
        <5>1. sym \in owed' /\ sym.packet_id = b % IdSpace /\ sym.fec_id = f
          BY <1>2, <1>6, <3>2, <4>1
        <5> QED BY <5>1 DEF Goes
      <4>2. CASE f # PushedSoFar
        BY <1>2, <1>5, <1>8, <3>2, <4>2, Sizes
      <4> QED BY <4>1, <4>2
    <3> QED BY <3>1, <3>2 DEF Inv, OutInv
  <2> QED BY <1>1, <1>8, <2>1 DEF OutInv, history
<1>15. RecentInv'
  <2>1. OfWindow' = 0 /\ OfWindow = 0
    BY <1>2, <1>6 DEF OfWindow
  <2>2. \A id : Earlier(FirstBlock, id) => Earlier(FirstBlock', id)
    BY <1>12 DEF Earlier
  <2>3. recent' = recent
    BY <1>1 DEF history
  <2> QED BY <2>1, <2>2, <2>3 DEF Inv, RecentInv, WireSpread
<1> QED
  BY <1>9, <1>10, <1>11, <1>13, <1>14, <1>15 DEF Inv

-----------------------------------------------------------------------------
(* The drain: what goes on the wire                                          *)

\* The symbol sent t symbols ago
Ago(s, t) == s[Len(s) + 1 - t]

LEMMA LastOfIs ==
  ASSUME NEW S, NEW s \in Seq(S), NEW n \in Nat \ {0}
  PROVE  /\ LastOf(s, n) \in Seq(S)
         /\ Len(LastOf(s, n)) = IF Len(s) <= n THEN Len(s) ELSE n
         /\ \A t \in 1 .. Len(LastOf(s, n)) : Ago(LastOf(s, n), t) = Ago(s, t)
<1> DEFINE from == IF Len(s) <= n THEN 1 ELSE Len(s) - n + 1
<1>1. Max({1, Len(s) - n + 1}) = from
  <2>1. from \in {1, Len(s) - n + 1} /\ from \in Int /\ from >= 1 /\ from >= Len(s) - n + 1
    OBVIOUS
  <2>2. 1 \in Int /\ Len(s) - n + 1 \in Int
    OBVIOUS
  <2> HIDE DEF from
  <2>3. \A x \in {1, Len(s) - n + 1} : (\A y \in {1, Len(s) - n + 1} : x >= y) => x = from
    BY <2>1, <2>2
  <2>4. \A y \in {1, Len(s) - n + 1} : from >= y
    BY <2>1
  <2> QED BY <2>1, <2>3, <2>4 DEF Max
<1>2. LastOf(s, n) = SubSeq(s, from, Len(s))
  BY <1>1 DEF LastOf
<1>3. from \in 1 .. Len(s) + 1 /\ Len(s) + 1 - from = IF Len(s) <= n THEN Len(s) ELSE n
  OBVIOUS
<1> HIDE DEF from
<1>4. /\ SubSeq(s, from, Len(s)) \in Seq(S)
      /\ Len(SubSeq(s, from, Len(s))) = Len(s) + 1 - from
      /\ \A i \in 1 .. Len(s) + 1 - from : SubSeq(s, from, Len(s))[i] = s[from + i - 1]
  BY <1>3
<1>5. ASSUME NEW t \in 1 .. Len(s) + 1 - from
      PROVE  Len(s) + 1 - from + 1 - t \in 1 .. Len(s) + 1 - from
             /\ from + (Len(s) + 1 - from + 1 - t) - 1 = Len(s) + 1 - t
  BY <1>3
<1> QED
  BY <1>2, <1>3, <1>4, <1>5 DEF Ago

LEMMA AgoNext ==
  ASSUME NEW S, NEW s \in Seq(S), NEW x \in S, Len(s) <= Depth
  PROVE  LET s2 == LastOf(Append(s, x), Depth)
         IN /\ s2 \in Seq(S)
            /\ Len(s2) = IF Len(s) = Depth THEN Depth ELSE Len(s) + 1
            /\ Ago(s2, 1) = x
            /\ \A t \in 2 .. Len(s2) : Ago(s2, t) = Ago(s, t - 1)
<1> DEFINE a == Append(s, x)
<1>1. a \in Seq(S) /\ Len(a) = Len(s) + 1 /\ Len(s) \in Nat
  OBVIOUS
<1>2. /\ LastOf(a, Depth) \in Seq(S)
      /\ Len(LastOf(a, Depth)) = IF Len(a) <= Depth THEN Len(a) ELSE Depth
      /\ \A t \in 1 .. Len(LastOf(a, Depth)) : Ago(LastOf(a, Depth), t) = Ago(a, t)
  BY <1>1, Sizes, LastOfIs
<1>3. Ago(a, 1) = x
  BY DEF Ago
<1>4. ASSUME NEW t \in 2 .. Len(s) + 1 PROVE Ago(a, t) = Ago(s, t - 1)
  <2>1. Len(s) + 1 + 1 - t \in 1 .. Len(s) /\ Len(s) + 1 - (t - 1) = Len(s) + 1 + 1 - t
    BY <1>1
  <2>2. a[Len(s) + 1 + 1 - t] = s[Len(s) + 1 + 1 - t]
    BY <2>1
  <2> QED BY <1>1, <2>1, <2>2 DEF Ago
<1> HIDE DEF a
<1>5. Len(LastOf(a, Depth)) = IF Len(s) = Depth THEN Depth ELSE Len(s) + 1
  BY <1>1, <1>2, Sizes
<1>6. 1 \in 1 .. Len(LastOf(a, Depth)) /\ Len(LastOf(a, Depth)) <= Len(s) + 1
  BY <1>1, <1>5, Sizes
<1>7. \A t \in 2 .. Len(LastOf(a, Depth)) : t \in 1 .. Len(LastOf(a, Depth)) /\ t \in 2 .. Len(s) + 1
  BY <1>1, <1>5, <1>6, Sizes
<1> QED BY <1>2, <1>3, <1>4, <1>5, <1>6, <1>7 DEF a

\* Recent symbols, counted back from the last
Spread(s) == \A t, u \in 1 .. Len(s) : t < u /\ Ago(s, t) = Ago(s, u) => Ago(s, t) = 0

LEMMA SpreadIs == ASSUME recent \in Seq(0 .. IdSpace - 1) PROVE WireSpread <=> Spread(recent)
<1>1. ASSUME NEW i \in 1 .. Len(recent)
      PROVE Len(recent) + 1 - i \in 1 .. Len(recent) /\ Len(recent) + 1 - (Len(recent) + 1 - i) = i
  OBVIOUS
<1>2. ASSUME WireSpread, NEW t \in 1 .. Len(recent), NEW u \in 1 .. Len(recent), t < u,
             Ago(recent, t) = Ago(recent, u)
      PROVE  Ago(recent, t) = 0
  <2>1. Len(recent) + 1 - t # Len(recent) + 1 - u
    BY <1>2
  <2> QED BY <1>1, <1>2, <2>1 DEF WireSpread, Ago
<1>3. ASSUME Spread(recent), NEW i \in 1 .. Len(recent), NEW j \in 1 .. Len(recent), i < j,
             recent[i] = recent[j]
      PROVE  recent[i] = 0
  <2> DEFINE t == Len(recent) + 1 - i
             u == Len(recent) + 1 - j
  <2>1. t \in 1 .. Len(recent) /\ u \in 1 .. Len(recent) /\ u < t
    BY <1>3
  <2>2. Ago(recent, t) = recent[i] /\ Ago(recent, u) = recent[j]
    BY <1>1 DEF Ago
  <2> HIDE DEF t, u
  <2> QED BY <1>3, <2>1, <2>2 DEF Spread
<1>4. ASSUME Spread(recent), NEW i \in 1 .. Len(recent), NEW j \in 1 .. Len(recent), i # j,
             recent[i] = recent[j]
      PROVE  recent[i] = 0
  <2>1. i < j \/ j < i
    BY <1>4
  <2> QED BY <1>3, <1>4, <2>1
<1> QED BY <1>2, <1>4 DEF WireSpread, Spread

\* RecentInv, counted back from the last symbol
RecentSeen ==
  /\ recent \in Seq(0 .. IdSpace - 1)
  /\ Len(recent) <= Depth /\ OfWindow <= Len(recent)
  /\ \A t \in 1 .. OfWindow : Ago(recent, t) = row_key[RowBefore(t)]
  /\ \A t \in 1 .. Len(recent) : t > OfWindow => Earlier(FirstBlock, Ago(recent, t))
  /\ Spread(recent)

LEMMA RecentIs == OfWindow \in Nat => (RecentInv <=> RecentSeen)
<1> SUFFICES ASSUME OfWindow \in Nat PROVE RecentInv <=> RecentSeen
  OBVIOUS
<1>1. ASSUME recent \in Seq(0 .. IdSpace - 1)
      PROVE  (\A i \in 1 .. Len(recent) - OfWindow : Earlier(FirstBlock, recent[i]))
             <=> (\A t \in 1 .. Len(recent) : t > OfWindow => Earlier(FirstBlock, Ago(recent, t)))
  <2>1. ASSUME \A i \in 1 .. Len(recent) - OfWindow : Earlier(FirstBlock, recent[i]),
               NEW t \in 1 .. Len(recent), t > OfWindow
        PROVE  Earlier(FirstBlock, Ago(recent, t))
    <3>1. Len(recent) + 1 - t \in 1 .. Len(recent) - OfWindow
      BY <1>1, <2>1
    <3> QED BY <2>1, <3>1 DEF Ago
  <2>2. ASSUME \A t \in 1 .. Len(recent) : t > OfWindow => Earlier(FirstBlock, Ago(recent, t)),
               NEW i \in 1 .. Len(recent) - OfWindow
        PROVE  Earlier(FirstBlock, recent[i])
    <3>1. Len(recent) + 1 - i \in 1 .. Len(recent) /\ Len(recent) + 1 - i > OfWindow
          /\ Len(recent) + 1 - (Len(recent) + 1 - i) = i
      BY <1>1, <2>2
    <3>2. Ago(recent, Len(recent) + 1 - i) = recent[i]
      BY <3>1 DEF Ago
    <3> QED BY <2>2, <3>1, <3>2
  <2> QED BY <2>1, <2>2
<1>2. recent \in Seq(0 .. IdSpace - 1) => (WireSpread <=> Spread(recent))
  BY SpreadIs
<1> QED BY <1>1, <1>2 DEF RecentInv, RecentSeen, Ago

\* What pop reads: the cell of its row and column, which names the row's block.
LEMMA SendView ==
  ASSUME Inv, Send
  PROVE  /\ ready /\ pc \in {"drain", "flushed"} /\ ILP!TypeOK
         /\ pop_row \in 0 .. Depth - 1 /\ pop_col \in 0 .. N - 1 /\ blocks \in 0 .. Depth
         /\ IL!PopCell.packet_id = row_key[pop_row]
         /\ row_key \in [0 .. Depth - 1 -> 0 .. IdSpace - 1]
         /\ FirstBlock \in Nat \ {0}
<1>1. ready /\ pc \in {"drain", "flushed"}
  BY DEF Inv, WindowInv, Send, IL!Pop
<1>2. ILP!TypeOK /\ ILP!RowIsBlock /\ ILP!Reading
  BY <1>1 DEF Inv, ILP!IInv, ILP!WindowIsSound
<1>3. pop_row \in 0 .. Depth - 1 /\ pop_col \in 0 .. N - 1 /\ blocks \in 0 .. Depth
      /\ row_key \in [0 .. Depth - 1 -> 0 .. IdSpace - 1]
  BY <1>2, SameRows DEF ILP!TypeOK
<1>4. IL!PopCell.packet_id = row_key[pop_row]
  <2>1. pop_row \in ILP!Rows /\ pop_col \in ILP!Cols /\ mask[pop_row] = ILP!Cols
    BY <1>2 DEF ILP!TypeOK, ILP!Reading
  <2> QED BY <1>2, <2>1 DEF ILP!RowIsBlock, IL!PopCell
<1>5. FirstBlock \in Nat \ {0}
  <2>1. Len(encoded) \in Nat
    BY DEF Inv, TypeOK, ControlInv
  <2>2. NextBlock \in Int /\ blocks \in Int
    BY <1>3, <2>1 DEF NextBlock
  <2>3. FirstBlock \in Int /\ FirstBlock >= 1
    BY <2>2 DEF FirstBlock, Inv, WindowInv
  <2> QED BY <2>3
<1> QED BY <1>1, <1>2, <1>3, <1>4, <1>5

\* Two rows of a window hold different blocks, or one of them none.
LEMMA RowsApart ==
  ASSUME Inv, Send, NEW r \in 0 .. Depth - 1, NEW u \in 0 .. Depth - 1, r # u,
         row_key[r] = row_key[u]
  PROVE  row_key[r] = 0
<1>1. ASSUME NEW i \in 0 .. Depth - 1, NEW j \in 0 .. Depth - 1, i < j, row_key[i] = row_key[j]
      PROVE  row_key[i] = 0
  <2>1. CASE j < blocks
    <3>1. i < blocks
      BY <1>1, <2>1, SendView
    <3>2. row_key[i] = (FirstBlock + i) % IdSpace /\ row_key[j] = (FirstBlock + j) % IdSpace
      BY <2>1, <3>1 DEF Inv, WindowInv
    <3>3. FirstBlock + i \in Int /\ FirstBlock + j \in Int
          /\ FirstBlock + i < FirstBlock + j /\ FirstBlock + j < FirstBlock + i + 2 * Depth
      <4>1. FirstBlock \in Nat /\ i < j /\ Depth \in Nat
        BY <1>1, SendView, Sizes
      <4> QED BY ONLY <4>1, i \in 0 .. Depth - 1, j \in 0 .. Depth - 1
    <3> QED BY <1>1, <3>2, <3>3, IdsApart
  <2>2. CASE ~(j < blocks)
    BY <1>1, <2>2 DEF Inv, WindowInv
  <2> QED BY <2>1, <2>2
<1>2. r < u \/ u < r
  OBVIOUS
<1> QED BY <1>1, <1>2

\* A block of the window is none of the Depth before it.
LEMMA EarlierApart ==
  ASSUME Inv, Send, NEW r \in 0 .. Depth - 1, Earlier(FirstBlock, row_key[r])
  PROVE  row_key[r] = 0
<1> SUFFICES ASSUME row_key[r] # 0 PROVE FALSE
  OBVIOUS
<1>1. r < blocks /\ row_key[r] = (FirstBlock + r) % IdSpace
  BY DEF Inv, WindowInv
<1>2. PICK b \in Nat : FirstBlock - Depth <= b /\ b < FirstBlock /\ row_key[r] = b % IdSpace
  BY DEF Earlier
<1>3. FirstBlock + r \in Int /\ b \in Int /\ b < FirstBlock + r /\ FirstBlock + r < b + 2 * Depth
  <2>1. FirstBlock \in Nat /\ FirstBlock - Depth <= b /\ b < FirstBlock /\ Depth \in Nat
    BY <1>2, SendView, Sizes
  <2> QED BY ONLY <2>1, r \in 0 .. Depth - 1, b \in Nat
<1> QED BY <1>1, <1>2, <1>3, IdsApart

\* A row of the window is read once in Depth symbols.
LEMMA RowBeforeIs ==
  ASSUME Inv, Send, NEW t \in 1 .. Depth
  PROVE  RowBefore(t) \in 0 .. Depth - 1 /\ (t < Depth => RowBefore(t) # pop_row)
<1>1. pop_row \in 0 .. Depth - 1
  BY SendView
<1> QED BY <1>1, Sizes DEF RowBefore

\* The symbols of the block are still owed or on the wire after the pop.
LEMMA SentIsOut ==
  ASSUME Inv, Send
  PROVE  OutInv'
<1>1. /\ owed' = owed \ {IL!PopCell}
      /\ sent' = sent \cup {<<IL!PopCell.packet_id, IL!PopCell.fec_id>>}
      /\ encoded' = encoded /\ pc' = pc /\ pc # "push"
  BY SendView DEF Send, IL!Pop, control
<1>2. ASSUME NEW b, NEW f, Goes(b, f) PROVE Goes(b, f)'
  <2>1. CASE <<b % IdSpace, f>> \in sent
    BY <1>1, <2>1 DEF Goes
  <2>2. ASSUME NEW sym \in owed, sym.packet_id = b % IdSpace, sym.fec_id = f
        PROVE  Goes(b, f)'
    <3>1. CASE sym = IL!PopCell
      <4>1. <<b % IdSpace, f>> \in sent'
        BY <1>1, <2>2, <3>1
      <4> QED BY <4>1 DEF Goes
    <3>2. CASE sym # IL!PopCell
      <4>1. sym \in owed'
        BY <1>1, <3>2
      <4> QED BY <2>2, <4>1 DEF Goes
    <3> QED BY <3>1, <3>2
  <2> QED BY <1>2, <2>1, <2>2 DEF Goes
<1> QED BY <1>1, <1>2 DEF Inv, OutInv

\* What is seen of the last symbols on the wire once one more is on it
LEMMA OneMore ==
  ASSUME Inv, Send
  PROVE  /\ OfWindow \in 0 .. Depth
         /\ recent' \in Seq(0 .. IdSpace - 1)
         /\ Len(recent') = IF Len(recent) = Depth THEN Depth ELSE Len(recent) + 1
         /\ Len(recent) \in Nat /\ Len(recent) <= Depth /\ OfWindow <= Len(recent)
         /\ Ago(recent', 1) = row_key[pop_row]
         /\ \A t \in 2 .. Len(recent') :
              /\ t - 1 \in 1 .. Len(recent)
              /\ Ago(recent', t) = Ago(recent, t - 1)
              /\ IF t - 1 <= OfWindow THEN Ago(recent, t - 1) = row_key[RowBefore(t - 1)]
                 ELSE Earlier(FirstBlock, Ago(recent, t - 1))
         /\ Spread(recent')
<1>1. OfWindow \in 0 .. Depth
  BY SendView, Sizes DEF OfWindow
<1>2. RecentSeen
  <2>1. OfWindow \in Nat
    BY <1>1
  <2> QED BY <2>1, RecentIs DEF Inv
<1>3. recent \in Seq(0 .. IdSpace - 1) /\ Len(recent) <= Depth /\ Len(recent) \in Nat
      /\ OfWindow <= Len(recent)
  BY <1>2 DEF RecentSeen
<1>4. row_key[pop_row] \in 0 .. IdSpace - 1
      /\ recent' = LastOf(Append(recent, row_key[pop_row]), Depth)
  BY SendView DEF Send
<1>5. /\ recent' \in Seq(0 .. IdSpace - 1)
      /\ Len(recent') = IF Len(recent) = Depth THEN Depth ELSE Len(recent) + 1
      /\ Ago(recent', 1) = row_key[pop_row]
      /\ \A t \in 2 .. Len(recent') : Ago(recent', t) = Ago(recent, t - 1)
  <2> DEFINE Ids == 0 .. IdSpace - 1
             key == row_key[pop_row]
  <2>1. recent \in Seq(Ids) /\ key \in Ids /\ Len(recent) <= Depth
    BY <1>3, <1>4
  <2>2. recent' = LastOf(Append(recent, key), Depth)
    BY <1>4
  <2> HIDE DEF Ids, key
  <2>3. /\ recent' \in Seq(Ids)
        /\ Len(recent') = IF Len(recent) = Depth THEN Depth ELSE Len(recent) + 1
        /\ Ago(recent', 1) = key
        /\ \A t \in 2 .. Len(recent') : Ago(recent', t) = Ago(recent, t - 1)
    BY <2>1, <2>2, AgoNext
  <2> QED BY <2>3 DEF Ids, key
<1>6. ASSUME NEW t \in 2 .. Len(recent')
      PROVE  /\ t - 1 \in 1 .. Len(recent) /\ t - 1 \in 1 .. Depth - 1
             /\ IF t - 1 <= OfWindow THEN Ago(recent, t - 1) = row_key[RowBefore(t - 1)]
                ELSE Earlier(FirstBlock, Ago(recent, t - 1))
  <2>1. t - 1 \in 1 .. Len(recent) /\ t - 1 \in 1 .. Depth - 1
    BY <1>3, <1>5, Sizes
  <2>2. t - 1 <= OfWindow => t - 1 \in 1 .. OfWindow
    BY <1>1, <2>1
  <2>3. ~(t - 1 <= OfWindow) => t - 1 > OfWindow
    BY <1>1, <2>1
  <2> QED BY <1>2, <2>1, <2>2, <2>3 DEF RecentSeen
<1>7. Spread(recent')
  <2>1. ASSUME NEW u \in 2 .. Len(recent'), row_key[pop_row] = Ago(recent', u)
        PROVE  row_key[pop_row] = 0
    <3>1. row_key[pop_row] = Ago(recent, u - 1)
      BY <1>5, <2>1
    <3>2. CASE u - 1 <= OfWindow
      <4>1. u - 1 \in 1 .. Depth /\ u - 1 < Depth
        BY <1>6, Sizes
      <4>2. RowBefore(u - 1) \in 0 .. Depth - 1 /\ RowBefore(u - 1) # pop_row
        BY <4>1, RowBeforeIs
      <4>3. row_key[pop_row] = row_key[RowBefore(u - 1)]
        BY <1>6, <3>1, <3>2
      <4> QED BY <4>2, <4>3, SendView, RowsApart
    <3>3. CASE ~(u - 1 <= OfWindow)
      <4>1. Earlier(FirstBlock, row_key[pop_row])
        BY <1>6, <3>1, <3>3
      <4> QED BY <4>1, SendView, EarlierApart
    <3> QED BY <3>2, <3>3
  <2>2. ASSUME NEW t \in 1 .. Len(recent'), NEW u \in 1 .. Len(recent'), t < u,
               Ago(recent', t) = Ago(recent', u)
        PROVE  Ago(recent', t) = 0
    <3>1. u \in 2 .. Len(recent')
      BY <2>2
    <3>2. CASE t = 1
      BY <1>5, <2>1, <2>2, <3>1, <3>2
    <3>3. CASE t # 1
      <4>1. t \in 2 .. Len(recent') /\ t - 1 < u - 1
        BY <2>2, <3>3
      <4>2. t - 1 \in 1 .. Len(recent) /\ u - 1 \in 1 .. Len(recent)
        BY <1>6, <3>1, <4>1
      <4>3. Ago(recent', t) = Ago(recent, t - 1) /\ Ago(recent', u) = Ago(recent, u - 1)
        BY <1>5, <3>1, <4>1
      <4> QED BY <1>2, <2>2, <4>1, <4>2, <4>3 DEF RecentSeen, Spread
    <3> QED BY <3>2, <3>3
  <2> QED BY <2>2 DEF Spread
<1> QED BY <1>1, <1>3, <1>5, <1>6, <1>7

LEMMA RecentIsNext == OfWindow' \in Nat => (RecentInv' <=> RecentSeen')
<1>1. (OfWindow \in Nat => (RecentInv <=> RecentSeen))'
  BY RecentIs, PTL
<1> QED BY <1>1

\* A pop inside the window moves on to the next row, or to the next column.
LEMMA SendOn ==
  ASSUME Inv, Send, ~IL!LastPop
  PROVE  WindowInv' /\ RecentInv'
<1>1. /\ ready /\ pc \in {"drain", "flushed"} /\ pop_row \in 0 .. Depth - 1 /\ pop_col \in 0 .. N - 1
      /\ row_key \in [0 .. Depth - 1 -> 0 .. IdSpace - 1]
  BY SendView
<1>2. /\ pop_row' = (pop_row + 1) % Depth
      /\ pop_col' = IF pop_row + 1 = Depth THEN pop_col + 1 ELSE pop_col
      /\ mask' = mask /\ row_key' = row_key /\ blocks' = blocks /\ ready' = ready
      /\ pc' = pc /\ pending' = pending /\ encoded' = encoded
  BY DEF Send, IL!Pop, control
<1>3. pop_row' = IF pop_row + 1 = Depth THEN 0 ELSE pop_row + 1
  <2>1. CASE pop_row + 1 = Depth
    <3>1. Depth % Depth = 0
      BY Sizes
    <3> QED BY <1>2, <2>1, <3>1
  <2>2. CASE pop_row + 1 # Depth
    <3>1. pop_row + 1 \in 0 .. Depth - 1
      BY <1>1, <2>2, Sizes
    <3> QED BY <1>2, <2>2, <3>1, Sizes
  <2> QED BY <2>1, <2>2
<1>4. NextBlock' = NextBlock /\ FirstBlock' = FirstBlock /\ ~HasRow'
  BY <1>1, <1>2 DEF NextBlock, FirstBlock, HasRow
<1>5. WindowInv'
  BY <1>1, <1>2, <1>4 DEF Inv, WindowInv
<1>6. OfWindow' = IF OfWindow = Depth THEN Depth ELSE OfWindow + 1
  BY <1>1, <1>2, <1>3, Sizes DEF OfWindow
<1>7. RowBefore(1)' = pop_row
  BY <1>1, <1>3, Sizes DEF RowBefore
<1>8. ASSUME NEW t \in 2 .. Depth PROVE RowBefore(t)' = RowBefore(t - 1)
  BY <1>1, <1>3, Sizes DEF RowBefore
<1>9. \A id : Earlier(FirstBlock, id) => Earlier(FirstBlock', id)
  BY <1>4 DEF Earlier
<1>10. /\ OfWindow \in 0 .. Depth /\ Len(recent') \in Nat /\ Len(recent') <= Depth
       /\ OfWindow' <= Len(recent') /\ OfWindow' \in Nat /\ 1 <= Len(recent') /\ 1 <= OfWindow'
  BY <1>6, OneMore, Sizes, SMTT(30)
<1>11. ASSUME NEW t \in 1 .. OfWindow' PROVE Ago(recent', t) = row_key[RowBefore(t)']
  <2>1. CASE t = 1
    BY <1>7, <2>1, OneMore
  <2>2. CASE t # 1
    <3>1. t \in 2 .. Len(recent') /\ t \in 2 .. Depth /\ t - 1 <= OfWindow
      BY <1>6, <1>10, <2>2
    <3> QED BY <1>8, <3>1, OneMore
  <2> QED BY <2>1, <2>2
<1>12. ASSUME NEW t \in 1 .. Len(recent'), t > OfWindow' PROVE Earlier(FirstBlock', Ago(recent', t))
  <2>1. t \in 2 .. Len(recent') /\ ~(t - 1 <= OfWindow)
    BY <1>6, <1>10, <1>12
  <2>2. Earlier(FirstBlock, Ago(recent', t))
    BY <2>1, OneMore
  <2> QED BY <2>2, <1>9
<1>13. RecentSeen'
  BY <1>2, <1>10, <1>11, <1>12, OneMore DEF RecentSeen
<1> QED BY <1>5, <1>10, <1>13, RecentIsNext

\* The last pop: what is on the wire is the window before the next one.
LEMMA SendLast ==
  ASSUME Inv, Send, IL!LastPop
  PROVE  WindowInv' /\ RecentInv'
<1>1. /\ ready /\ pc \in {"drain", "flushed"} /\ pop_row = Depth - 1 /\ pop_col = N - 1
      /\ blocks \in 0 .. Depth /\ FirstBlock \in Nat \ {0}
  BY SendView DEF IL!LastPop
<1>2. /\ row_key' = [r \in 0 .. Depth - 1 |-> 0] /\ blocks' = 0 /\ ready' = FALSE
      /\ pc' = pc /\ pending' = pending /\ encoded' = encoded
  BY SameRows DEF Send, IL!Pop, IL!ResetWindow, control
<1>3. NextBlock' = NextBlock /\ FirstBlock' = FirstBlock + blocks /\ ~HasRow'
  <2>1. NextBlock' = NextBlock /\ ~HasRow' /\ NextBlock = Len(encoded) + 1
    BY <1>1, <1>2 DEF NextBlock, HasRow
  <2>2. Len(encoded) \in Nat
    BY DEF Inv, TypeOK, ControlInv
  <2> QED BY <1>1, <1>2, <2>1, <2>2 DEF FirstBlock
<1>4. \A r \in 0 .. Depth - 1 : ~(r < 0)
  BY Sizes
<1>5. WindowInv'
  BY <1>1, <1>2, <1>3, <1>4 DEF WindowInv
<1>6. OfWindow' = 0 /\ OfWindow >= Depth - 1
  BY <1>1, <1>2, Sizes DEF OfWindow
<1>7. ASSUME NEW r \in 0 .. Depth - 1 PROVE Earlier(FirstBlock', row_key[r])
  <2>1. CASE r < blocks
    <3>1. row_key[r] = (FirstBlock + r) % IdSpace
      BY <2>1 DEF Inv, WindowInv
    <3>2. FirstBlock + r \in Nat /\ FirstBlock' - Depth <= FirstBlock + r /\ FirstBlock + r < FirstBlock'
      BY <1>1, <1>3, <2>1, Sizes
    <3> QED BY <3>1, <3>2 DEF Earlier
  <2>2. CASE ~(r < blocks)
    BY <2>2 DEF Inv, WindowInv, Earlier
  <2> QED BY <2>1, <2>2
<1>8. Len(recent') \in Nat /\ Len(recent') <= Depth
  BY OneMore, Sizes
<1>9. ASSUME NEW t \in 1 .. Len(recent') PROVE Earlier(FirstBlock', Ago(recent', t))
  <2>1. CASE t = 1
    BY <1>1, <1>7, <2>1, OneMore, Sizes
  <2>2. CASE t # 1
    <3>1. t \in 2 .. Len(recent') /\ t - 1 \in 1 .. Depth /\ t - 1 <= OfWindow
      BY <1>6, <1>8, <2>2, OneMore, Sizes
    <3>2. Ago(recent', t) = row_key[RowBefore(t - 1)]
      BY <3>1, OneMore
    <3>3. RowBefore(t - 1) \in 0 .. Depth - 1
      BY <3>1, RowBeforeIs
    <3> QED BY <1>7, <3>2, <3>3
  <2> QED BY <2>1, <2>2
<1>10. RecentSeen'
  BY <1>6, <1>8, <1>9, OneMore DEF RecentSeen
<1> QED BY <1>5, <1>6, <1>10, RecentIsNext

LEMMA SendStep == ASSUME Inv, Send PROVE Inv'
<1>1. IL!Pop /\ UNCHANGED <<builder, control, accepted, encoded, skips>> /\ now' = now
  BY DEF Send, IL!Pop
<1>2. ILP!IInv'
  BY <1>1, WindowKept DEF Inv
<1>3. TypeOK' /\ ControlInv' /\ PendingInv'
  BY <1>1, SendView DEF Inv, TypeOK, ControlInv, PendingInv, builder, control
<1>4. WindowInv' /\ RecentInv'
  BY SendOn, SendLast
<1> QED BY <1>2, <1>3, <1>4, SentIsOut DEF Inv

-----------------------------------------------------------------------------
\* Every step of the transmit thread keeps the invariant.
LEMMA PipelineStep == Inv /\ [Next]_vars => Inv'
<1> SUFFICES ASSUME Inv, [Next]_vars PROVE Inv'
  OBVIOUS
<1>1. CASE UNCHANGED vars
  <2>1. UNCHANGED <<builder, interleaver, control, accepted, encoded, sent, recent, now>>
    BY <1>1 DEF vars, history
  <2>2. ILP!IInv'
    BY <2>1, WindowKept DEF Inv
  <2>3. TypeOK' /\ ControlInv' /\ PendingInv'
    BY <2>1 DEF Inv, TypeOK, ControlInv, PendingInv, WireId, PushedSoFar, builder, control
  <2>4. NextBlock' = NextBlock /\ FirstBlock' = FirstBlock /\ HasRow' = HasRow
        /\ PushedSoFar' = PushedSoFar /\ OfWindow' = OfWindow /\ \A t : RowBefore(t)' = RowBefore(t)
    BY <2>1 DEF NextBlock, FirstBlock, HasRow, PushedSoFar, OfWindow, RowBefore, interleaver, control
  <2>5. WindowInv' /\ OutInv'
    BY <2>1, <2>4 DEF Inv, WindowInv, OutInv, Goes, interleaver, control
  <2>6. RecentInv'
    BY <2>1, <2>4 DEF Inv, RecentInv, WireSpread, Earlier, interleaver
  <2> QED BY <2>2, <2>3, <2>5, <2>6 DEF Inv
<1>2. CASE Receive
  BY <1>2, IdleStep, SkipStep, AcceptStep DEF Receive
<1>3. CASE Work
  BY <1>3, AddFragmentStep, FragmentsDoneStep, EncodeStep, PushNextStep, SendStep,
     BlockDoneStep, TickStep, FlushDoneStep DEF Work
<1>4. CASE Advance
  BY <1>4, AdvanceStep
<1> QED BY <1>1, <1>2, <1>3, <1>4 DEF Next

LEMMA PipelineInv == Spec => []Inv
BY PipelineInit, PipelineStep, PTL DEF Spec

\* Between two calls a row is whole or empty, and what was encoded is out or owed.
LEMMA WholeBetweenCalls == Inv => BlocksGoOutWhole
<1> SUFFICES ASSUME Inv, pc = "recv"
             PROVE  /\ \A r \in IL!Rows : mask[r] \in {{}, IL!Cols}
                    /\ \A b \in DOMAIN encoded, f \in IL!Cols : Goes(b, f)
  BY DEF BlocksGoOutWhole, Goes
<1>1. ~ready /\ ~HasRow
  BY DEF Inv, WindowInv, HasRow
<1>2. ILP!TypeOK /\ ILP!Filling
  BY <1>1 DEF Inv, ILP!IInv, ILP!WindowIsSound
<1>3. ASSUME NEW r \in 0 .. Depth - 1 PROVE mask[r] \in {{}, 0 .. N - 1}
  <2>1. CASE r < blocks
    BY <1>1, <2>1 DEF Inv, WindowInv
  <2>2. CASE ~(r < blocks)
    BY <1>2, <2>2, SameRows DEF ILP!Filling
  <2> QED BY <2>1, <2>2
<1>4. ASSUME NEW b \in DOMAIN encoded PROVE b \in 1 .. Len(encoded)
  <2> QED BY DEF Inv, OutInv
<1> QED BY <1>3, <1>4, SameRows DEF Inv, OutInv

\* What is encoded goes out whole: the interleaver refuses no symbol of a block,
\* so encode_and_drain() never stops the gateway; no row is flushed half empty; and
\* neighbours on the wire belong to different blocks, across windows too.
THEOREM EncodedGoesOut == Spec => []GoesOutWhole
<1>1. Inv => NeverFatal
  BY DEF Inv, TypeOK, NeverFatal
<1>2. Inv => WireSpread
  BY DEF Inv, RecentInv
<1>3. Inv => GoesOutWhole
  BY <1>1, <1>2, WholeBetweenCalls DEF Inv, GoesOutWhole
<1> QED BY <1>3, PipelineInv, PTL

\* The window the pipeline fills and drains is sound: what is proved of the
\* interleaver by itself carries over to how the transmit thread drives it.
THEOREM PipelineWindowsAreSound == Spec => []IL!WindowIsSound
<1>1. ILP!WindowIsSound <=> IL!WindowIsSound
  BY SameRows DEF ILP!WindowIsSound, IL!WindowIsSound, ILP!TypeOK, IL!TypeOK, ILP!Symbol, IL!Symbol,
     ILP!RowIsBlock, IL!RowIsBlock, ILP!ReadyIsComplete, IL!ReadyIsComplete,
     ILP!DrainIsExact, IL!DrainIsExact, ILP!Unread, IL!Unread, ILP!Cardinality, IL!Cardinality,
     ILP!IsFiniteSet, IL!IsFiniteSet
<1>2. Inv => IL!WindowIsSound
  BY <1>1 DEF Inv, ILP!IInv
<1> QED BY <1>2, PipelineInv, PTL

-----------------------------------------------------------------------------
(* What the blocks hold                                                      *)

\* One symbol, if it carries payload
OneIfData(sym) == IF sym.payload_len > 0 THEN <<sym>> ELSE <<>>

\* The payload of blocks and the fragments of packets, end to end
InBlocks(blks) == FlattenSeq([i \in DOMAIN blks |-> DataOnly(blks[i])])
InPackets(pkts) == FlattenSeq([i \in DOMAIN pkts |-> Fragments(pkts[i])])

Block == {b \in Seq(FragRec) : Len(b) = K}

LEMMA OneIfDataType == ASSUME NEW x \in FragRec PROVE OneIfData(x) \in Seq(FragRec)
BY DEF OneIfData

LEMMA DataType == ASSUME NEW s \in Seq(FragRec) PROVE DataOnly(s) \in Seq(FragRec)
<1> DEFINE m == [i \in DOMAIN s |-> OneIfData(s[i])]
<1>1. \A i \in 1 .. Len(s) : OneIfData(s[i]) \in Seq(FragRec)
  BY OneIfDataType
<1>2. DOMAIN s = 1 .. Len(s) /\ Len(s) \in Nat
  OBVIOUS
<1>3. m \in Seq(Seq(FragRec))
  BY <1>1, <1>2
<1>4. DataOnly(s) = FlattenSeq(m)
  BY DEF DataOnly, OneIfData
<1> HIDE DEF m
<1> QED BY <1>3, <1>4, FlattenType

LEMMA DataAppend ==
  ASSUME NEW s \in Seq(FragRec), NEW x \in FragRec
  PROVE  DataOnly(Append(s, x)) = DataOnly(s) \o OneIfData(x)
<1> DEFINE m == [i \in DOMAIN s |-> OneIfData(s[i])]
           m2 == [i \in DOMAIN Append(s, x) |-> OneIfData(Append(s, x)[i])]
<1>1. /\ Append(s, x) \in Seq(FragRec) /\ Len(Append(s, x)) = Len(s) + 1 /\ Len(s) \in Nat
      /\ DOMAIN s = 1 .. Len(s) /\ DOMAIN Append(s, x) = 1 .. Len(s) + 1
      /\ Append(s, x)[Len(s) + 1] = x /\ \A i \in 1 .. Len(s) : Append(s, x)[i] = s[i]
  OBVIOUS
<1>2. \A i \in 1 .. Len(s) : OneIfData(s[i]) \in Seq(FragRec)
  BY OneIfDataType
<1>3. m \in Seq(Seq(FragRec)) /\ Len(m) = Len(s) /\ \A i \in 1 .. Len(s) : m[i] = OneIfData(s[i])
  BY <1>1, <1>2
<1>4. m2 = Append(m, OneIfData(x))
  <2>1. m2 = [i \in 1 .. Len(s) + 1 |-> IF i <= Len(s) THEN OneIfData(s[i]) ELSE OneIfData(x)]
    BY <1>1
  <2>2. Append(m, OneIfData(x)) = [i \in 1 .. Len(s) + 1 |-> IF i <= Len(s) THEN m[i] ELSE OneIfData(x)]
    BY <1>1, <1>3
  <2> QED BY <1>1, <1>3, <2>1, <2>2
<1>5. DataOnly(s) = FlattenSeq(m) /\ DataOnly(Append(s, x)) = FlattenSeq(m2)
  BY DEF DataOnly, OneIfData
<1> HIDE DEF m, m2
<1> QED BY <1>3, <1>4, <1>5, OneIfDataType, FlattenAppend

LEMMA NoData == DataOnly(<<>>) = <<>>
<1>1. [i \in DOMAIN <<>> |-> OneIfData(<<>>[i])] = <<>>
  OBVIOUS
<1> QED BY <1>1, FlattenEmpty DEF DataOnly, OneIfData

\* The zero symbols that close a block early carry nothing.
LEMMA DataPadded ==
  ASSUME NEW s \in Seq(FragRec), Len(s) <= K
  PROVE  DataOnly(Padded(s)) = DataOnly(s)
<1> DEFINE padTo(n) == [i \in 1 .. n |-> IF i <= Len(s) THEN s[i] ELSE PaddingSymbol]
           Bad == {n \in Len(s) .. K : DataOnly(padTo(n)) # DataOnly(s)}
<1>1. PaddingSymbol \in FragRec /\ OneIfData(PaddingSymbol) = <<>>
  BY Sizes, ZerosAre DEF PaddingSymbol, FragRec, OneIfData
<1>2. Len(s) \in Nat /\ K \in Nat
  BY Sizes
<1>3. ASSUME NEW n \in Len(s) .. K PROVE padTo(n) \in Seq(FragRec) /\ Len(padTo(n)) = n
  <2>1. \A i \in 1 .. n : (IF i <= Len(s) THEN s[i] ELSE PaddingSymbol) \in FragRec
    BY <1>1, <1>2
  <2> QED BY <1>2, <2>1
<1>4. padTo(Len(s)) = s
  BY <1>2
<1>5. ASSUME NEW n \in Len(s) + 1 .. K PROVE padTo(n) = Append(padTo(n - 1), PaddingSymbol)
  <2>1. n - 1 \in Len(s) .. K /\ n - 1 + 1 = n /\ n \in Nat
    BY <1>2
  <2>2. Len(padTo(n - 1)) = n - 1 /\ padTo(n - 1) \in Seq(FragRec)
    BY <1>3, <2>1
  <2>3. Append(padTo(n - 1), PaddingSymbol) =
          [i \in 1 .. n |-> IF i <= n - 1 THEN padTo(n - 1)[i] ELSE PaddingSymbol]
    BY <2>1, <2>2
  <2>4. \A i \in 1 .. n : (IF i <= n - 1 THEN padTo(n - 1)[i] ELSE PaddingSymbol) =
                          (IF i <= Len(s) THEN s[i] ELSE PaddingSymbol)
    BY <1>2, <2>1
  <2> QED BY <2>3, <2>4
<1> HIDE DEF padTo
<1>6. Bad = {}
  <2> SUFFICES ASSUME Bad # {} PROVE FALSE
    OBVIOUS
  <2>1. PICK n \in Bad : \A m \in Bad : n <= m
    <3>1. Bad \subseteq Nat
      BY <1>2
    <3> HIDE DEF Bad
    <3> QED BY <3>1, LeastOf
  <2>2. n \in Len(s) .. K /\ DataOnly(padTo(n)) # DataOnly(s)
    BY <2>1
  <2>3. n # Len(s)
    BY <1>4, <2>2
  <2>4. n \in Len(s) + 1 .. K /\ n - 1 \in Len(s) .. K /\ n - 1 \notin Bad
    BY <1>2, <2>1, <2>2, <2>3
  <2>5. DataOnly(padTo(n - 1)) = DataOnly(s)
    BY <2>4
  <2>6. DataOnly(padTo(n)) = DataOnly(s) \o <<>>
    <3>1. DataOnly(padTo(n)) = DataOnly(padTo(n - 1)) \o OneIfData(PaddingSymbol)
      BY <1>1, <1>3, <1>5, <2>4, DataAppend
    <3> QED BY <1>1, <2>5, <3>1
  <2>7. DataOnly(s) \o <<>> = DataOnly(s)
    BY DataType
  <2> QED BY <2>2, <2>6, <2>7
<1>7. K \in Len(s) .. K
  BY <1>2
<1>8. DataOnly(padTo(K)) = DataOnly(s)
  BY <1>6, <1>7
<1> QED BY <1>8 DEF Padded, padTo

LEMMA InBlocksAppend ==
  ASSUME NEW e \in Seq(Block), NEW b \in Block
  PROVE  /\ InBlocks(e) \in Seq(FragRec)
         /\ InBlocks(Append(e, b)) = InBlocks(e) \o DataOnly(b)
<1> DEFINE m == [i \in DOMAIN e |-> DataOnly(e[i])]
           m2 == [i \in DOMAIN Append(e, b) |-> DataOnly(Append(e, b)[i])]
<1>1. /\ Len(Append(e, b)) = Len(e) + 1 /\ Len(e) \in Nat
      /\ DOMAIN e = 1 .. Len(e) /\ DOMAIN Append(e, b) = 1 .. Len(e) + 1
      /\ Append(e, b)[Len(e) + 1] = b /\ \A i \in 1 .. Len(e) : Append(e, b)[i] = e[i] /\ e[i] \in Block
  OBVIOUS
<1>2. \A x \in Block : DataOnly(x) \in Seq(FragRec)
  BY DataType DEF Block
<1>3. m \in Seq(Seq(FragRec)) /\ Len(m) = Len(e) /\ \A i \in 1 .. Len(e) : m[i] = DataOnly(e[i])
  BY <1>1, <1>2
<1>4. m2 = Append(m, DataOnly(b))
  <2>1. m2 = [i \in 1 .. Len(e) + 1 |-> IF i <= Len(e) THEN DataOnly(e[i]) ELSE DataOnly(b)]
    BY <1>1
  <2>2. Append(m, DataOnly(b)) = [i \in 1 .. Len(e) + 1 |-> IF i <= Len(e) THEN m[i] ELSE DataOnly(b)]
    BY <1>1, <1>3
  <2> QED BY <1>1, <1>3, <2>1, <2>2
<1>5. InBlocks(e) = FlattenSeq(m) /\ InBlocks(Append(e, b)) = FlattenSeq(m2)
  BY DEF InBlocks
<1>6. DataOnly(b) \in Seq(FragRec)
  BY <1>2
<1> HIDE DEF m, m2
<1> QED BY <1>3, <1>4, <1>5, <1>6, FlattenAppend, FlattenType

LEMMA InPacketsAppend ==
  ASSUME NEW a \in Seq(Packets), NEW p \in Packets
  PROVE  /\ InPackets(a) \in Seq(FragRec)
         /\ InPackets(Append(a, p)) = InPackets(a) \o Fragments(p)
<1> DEFINE m == [i \in DOMAIN a |-> Fragments(a[i])]
           m2 == [i \in DOMAIN Append(a, p) |-> Fragments(Append(a, p)[i])]
<1>1. /\ Len(Append(a, p)) = Len(a) + 1 /\ Len(a) \in Nat
      /\ DOMAIN a = 1 .. Len(a) /\ DOMAIN Append(a, p) = 1 .. Len(a) + 1
      /\ Append(a, p)[Len(a) + 1] = p /\ \A i \in 1 .. Len(a) : Append(a, p)[i] = a[i] /\ a[i] \in Packets
  OBVIOUS
<1>2. \A x \in Packets : Fragments(x) \in Seq(FragRec)
  BY FragmentsAre
<1>3. m \in Seq(Seq(FragRec)) /\ Len(m) = Len(a) /\ \A i \in 1 .. Len(a) : m[i] = Fragments(a[i])
  BY <1>1, <1>2
<1>4. m2 = Append(m, Fragments(p))
  <2>1. m2 = [i \in 1 .. Len(a) + 1 |-> IF i <= Len(a) THEN Fragments(a[i]) ELSE Fragments(p)]
    BY <1>1
  <2>2. Append(m, Fragments(p)) = [i \in 1 .. Len(a) + 1 |-> IF i <= Len(a) THEN m[i] ELSE Fragments(p)]
    BY <1>1, <1>3
  <2> QED BY <1>1, <1>3, <2>1, <2>2
<1>5. InPackets(a) = FlattenSeq(m) /\ InPackets(Append(a, p)) = FlattenSeq(m2)
  BY DEF InPackets
<1>6. Fragments(p) \in Seq(FragRec)
  BY <1>2
<1> HIDE DEF m, m2
<1> QED BY <1>3, <1>4, <1>5, <1>6, FlattenAppend, FlattenType

\* What of the builder's block is not yet counted among the encoded
InBuilder == IF pc \in {"push", "drain"} THEN <<>> ELSE DataOnly(symbols)

\* NothingLostInBlocks, with what it takes of the histories and of the fragments
DataInv ==
  /\ accepted \in Seq(Packets) /\ encoded \in Seq(Block)
  /\ \A q \in 1 .. Len(frags) : frags[q].payload_len > 0
  /\ InBlocks(encoded) \o InBuilder \o frags = InPackets(accepted)

LEMMA DataInit == Init => DataInv
<1> SUFFICES ASSUME Init PROVE DataInv
  OBVIOUS
<1>1. InBlocks(<<>>) = <<>> /\ InPackets(<<>>) = <<>>
  <2>1. [i \in DOMAIN <<>> |-> DataOnly(<<>>[i])] = <<>> /\ [i \in DOMAIN <<>> |-> Fragments(<<>>[i])] = <<>>
    OBVIOUS
  <2> QED BY <2>1, FlattenEmpty DEF InBlocks, InPackets
<1>2. InBuilder = <<>>
  BY NoData DEF Init, InBuilder
<1>3. <<>> \o <<>> \o <<>> = <<>>
  OBVIOUS
<1> QED BY <1>1, <1>2, <1>3 DEF Init, DataInv

\* What the steps below use of the state they start from
LEMMA DataView ==
  ASSUME Inv, DataInv
  PROVE  /\ symbols \in Seq(FragRec) /\ Len(symbols) <= K /\ frags \in Seq(FragRec)
         /\ DataOnly(symbols) \in Seq(FragRec) /\ InBlocks(encoded) \in Seq(FragRec)
         /\ InPackets(accepted) \in Seq(FragRec)
         /\ DataOnly(Padded(symbols)) = DataOnly(symbols)
<1>1. symbols \in Seq(FragRec) /\ Len(symbols) <= K /\ frags \in Seq(FragRec)
  BY DEF Inv, TypeOK
<1>2. <<>> \in Seq(FragRec) /\ PaddingSymbol \in FragRec
  BY Sizes, ZerosAre DEF PaddingSymbol, FragRec
<1>3. InBlocks(encoded) \in Seq(FragRec)
  <2>1. \E b : b \in Block
    <3>1. Padded(symbols) \in Block
      BY <1>1, PaddedIs DEF Block
    <3> QED BY <3>1
  <2> QED BY <2>1, InBlocksAppend DEF DataInv
<1>4. InPackets(accepted) \in Seq(FragRec)
  <2> DEFINE m == [i \in DOMAIN accepted |-> Fragments(accepted[i])]
  <2>1. /\ Len(accepted) \in Nat /\ DOMAIN accepted = 1 .. Len(accepted)
        /\ \A i \in 1 .. Len(accepted) : accepted[i] \in Packets
    BY DEF DataInv
  <2>3. \A i \in 1 .. Len(accepted) : Fragments(accepted[i]) \in Seq(FragRec)
    BY <2>1, FragmentsAre
  <2>2. m \in Seq(Seq(FragRec))
    BY <2>1, <2>3
  <2> HIDE DEF m
  <2>4. FlattenSeq(m) \in Seq(FragRec)
    BY <2>2, FlattenType
  <2> QED BY <2>4 DEF InPackets, m
<1> QED BY <1>1, <1>3, <1>4, DataType, DataPadded

\* The end of a sequence may be written either way.
LEMMA EndToEnd ==
  ASSUME NEW S, NEW a \in Seq(S), NEW b \in Seq(S), NEW c \in Seq(S)
  PROVE  (a \o b) \o c = a \o (b \o c)
OBVIOUS

LEMMA AcceptKeeps == ASSUME Inv, DataInv, NEW pkt \in Packets, Accept(pkt) PROVE DataInv'
<1>1. /\ pc = "recv" /\ frags' = Fragments(pkt) /\ accepted' = Append(accepted, pkt)
      /\ encoded' = encoded /\ pc' \in {"encode", "add"}
      /\ symbols' \in {symbols, Padded(symbols)}
  BY DEF Accept, Flush, builder, Fragments
<1>2. frags = <<>>
  BY <1>1 DEF Inv, TypeOK
<1>3. InBuilder = DataOnly(symbols) /\ InBuilder' = DataOnly(symbols)
  BY <1>1, DataView DEF InBuilder
<1>4. \A q \in 1 .. Len(frags') : frags'[q].payload_len > 0
  BY <1>1, FragmentsAre
<1>5. accepted \in Seq(Packets) /\ accepted' \in Seq(Packets) /\ encoded' \in Seq(Block)
  BY <1>1 DEF DataInv
<1>6. InPackets(accepted') = InPackets(accepted) \o Fragments(pkt)
  BY <1>1, <1>5, InPacketsAppend
<1>7. (InBlocks(encoded) \o DataOnly(symbols)) \o <<>> = InPackets(accepted)
  BY <1>2, <1>3 DEF DataInv
<1>8. (InBlocks(encoded) \o DataOnly(symbols)) \o <<>> = InBlocks(encoded) \o DataOnly(symbols)
  BY DataView
<1>9. InBlocks(encoded) \o DataOnly(symbols) \o Fragments(pkt) = InPackets(accepted) \o Fragments(pkt)
  BY <1>7, <1>8
<1> QED BY <1>1, <1>3, <1>4, <1>5, <1>6, <1>9 DEF DataInv

LEMMA AddKeeps == ASSUME Inv, DataInv, AddFragment PROVE DataInv'
<1>1. /\ pc = "add" /\ frags # <<>> /\ pc' \in {"add", "encode"}
      /\ symbols' = Append(symbols, Head(frags)) /\ frags' = Tail(frags)
      /\ accepted' = accepted /\ encoded' = encoded
  BY DEF AddFragment, AddSymbol, history
<1>2. Len(frags) >= 1 /\ frags \in Seq(FragRec)
  BY <1>1, DataView
<1>3. /\ Head(frags) = frags[1] /\ frags[1] \in FragRec /\ Tail(frags) \in Seq(FragRec)
      /\ Len(Tail(frags)) = Len(frags) - 1
      /\ \A i \in 1 .. Len(frags) - 1 : Tail(frags)[i] = frags[i + 1]
  BY <1>2, HeadAndTail
<1>4. \A q \in 1 .. Len(frags') : frags'[q].payload_len > 0
  <2>1. \A q \in 1 .. Len(frags) - 1 : q + 1 \in 1 .. Len(frags)
    BY <1>2
  <2> QED BY <1>1, <1>3, <2>1 DEF DataInv
<1>5. DataOnly(symbols') = DataOnly(symbols) \o <<Head(frags)>>
  <2>1. OneIfData(Head(frags)) = <<Head(frags)>>
    BY <1>2, <1>3 DEF DataInv, OneIfData
  <2> QED BY <1>1, <1>3, <2>1, DataView, DataAppend
<1>6. <<Head(frags)>> \o Tail(frags) = frags /\ <<Head(frags)>> \in Seq(FragRec)
  BY <1>2, <1>3
<1>7. InBlocks(encoded) \o (DataOnly(symbols) \o <<Head(frags)>>) \o Tail(frags)
        = InBlocks(encoded) \o DataOnly(symbols) \o frags
  <2> DEFINE a == InBlocks(encoded)
             b == DataOnly(symbols)
             c == <<Head(frags)>>
             d == Tail(frags)
  <2>1. a \in Seq(FragRec) /\ b \in Seq(FragRec) /\ c \in Seq(FragRec) /\ d \in Seq(FragRec)
    BY <1>3, <1>6, DataView
  <2> HIDE DEF a, b, c, d
  <2>2. a \o b \in Seq(FragRec) /\ (a \o (b \o c)) \o d = ((a \o b) \o c) \o d
    BY <2>1, EndToEnd
  <2>3. ((a \o b) \o c) \o d = (a \o b) \o (c \o d)
    BY <2>1, <2>2, EndToEnd, SMTT(30)
  <2> QED BY <1>6, <2>2, <2>3 DEF a, b, c, d
<1>8. InBuilder = DataOnly(symbols) /\ InBuilder' = DataOnly(symbols')
  BY <1>1 DEF InBuilder
<1> QED BY <1>1, <1>4, <1>5, <1>7, <1>8 DEF DataInv

LEMMA EncodeKeeps == ASSUME Inv, DataInv, Encode PROVE DataInv'
<1>1. /\ pc = "encode" /\ pc' = "push" /\ encoded' = Append(encoded, symbols)
      /\ frags' = frags /\ accepted' = accepted
  BY DEF Encode
<1>2. symbols \in Block /\ encoded \in Seq(Block)
  BY <1>1, DataView DEF Block, Inv, ControlInv, DataInv
<1>3. InBlocks(encoded') = InBlocks(encoded) \o DataOnly(symbols) /\ encoded' \in Seq(Block)
  BY <1>1, <1>2, InBlocksAppend
<1>4. InBuilder = DataOnly(symbols) /\ InBuilder' = <<>>
  BY <1>1 DEF InBuilder
<1>5. (InBlocks(encoded) \o DataOnly(symbols)) \o <<>> = InBlocks(encoded) \o DataOnly(symbols)
  BY DataView
<1> QED BY <1>1, <1>3, <1>4, <1>5 DEF DataInv

LEMMA DataStep == Inv /\ DataInv /\ [Next]_vars => DataInv'
<1> SUFFICES ASSUME Inv, DataInv, [Next]_vars PROVE DataInv'
  OBVIOUS
\* Nothing is added and nothing encoded: the block may be padded, or forgotten once it is encoded.
<1>1. ASSUME UNCHANGED <<accepted, encoded, frags>>, InBuilder' = InBuilder PROVE DataInv'
  BY <1>1 DEF DataInv
<1>2. CASE Idle \/ FragmentsDone
  <2>1. /\ pc \in {"recv", "add"} /\ pc' \in {"encode", "tick"}
        /\ symbols' \in {symbols, Padded(symbols)} /\ UNCHANGED <<accepted, encoded, frags>>
    BY <1>2 DEF Idle, FragmentsDone, Flush, builder, history
  <2>2. InBuilder' = InBuilder
    BY <2>1, DataView DEF InBuilder
  <2> QED BY <1>1, <2>1, <2>2
<1>3. CASE Skip \/ Advance \/ UNCHANGED vars
  BY <1>1, <1>3 DEF Skip, Advance, vars, builder, control, history, InBuilder
<1>4. CASE PushNext \/ Send \/ FlushDone \/ TickInterleaver
  <2>1. /\ UNCHANGED <<accepted, encoded, frags, symbols>>
        /\ pc \in {"push", "drain"} <=> pc' \in {"push", "drain"}
    <3>1. CASE PushNext
      <4>1. Inv'
        BY <3>1, PushNextStep
      <4>2. pc' # "fatal" /\ pc' \in {"fatal", "drain", "push"}
        BY <3>1, <4>1 DEF Inv, TypeOK, PushNext
      <4> QED BY <3>1, <4>2 DEF PushNext, builder, history
    <3>2. CASE Send
      BY <3>2 DEF Send, builder, control
    <3>3. CASE FlushDone \/ TickInterleaver
      BY <3>3 DEF FlushDone, TickInterleaver, builder, history, Inv, TypeOK
    <3> QED BY <1>4, <3>1, <3>2, <3>3
  <2> QED BY <1>1, <2>1 DEF InBuilder
<1>5. CASE BlockDone
  <2>1. /\ pc = "drain" /\ pc' = "tick" /\ symbols' = <<>> /\ UNCHANGED <<accepted, encoded, frags>>
    BY <1>5 DEF BlockDone, ResetBuilder, history
  <2>2. InBuilder' = InBuilder
    BY <2>1, NoData DEF InBuilder
  <2> QED BY <1>1, <2>1, <2>2
<1> QED
  BY <1>2, <1>3, <1>4, <1>5, AcceptKeeps, AddKeeps, EncodeKeeps DEF Next, Receive, Work

\* Every fragment of every packet taken from the LAN goes into exactly one block, in
\* order, whichever timeouts, overflows and full blocks come between.
THEOREM FragmentsReachBlocks == Spec => []NothingLostInBlocks
<1>1. DataInv => NothingLostInBlocks
  BY DEF DataInv, NothingLostInBlocks, InOrder, InBuilder, InBlocks, InPackets
<1>2. Spec => []DataInv
  BY DataInit, DataStep, PipelineInv, PTL DEF Spec
<1> QED BY <1>1, <1>2, PTL

-----------------------------------------------------------------------------
(* A packet stays in one block                                               *)

\* sym is fragment j of a packet of n
IsFragment(sym, j, n) == sym.symbol_index = j /\ sym.total_symbols = n

\* ... and so is the one at place p of a block and what follows it.
FragmentIn(blk, rest, p, j, n) ==
  IF p <= Len(blk) THEN IsFragment(blk[p], j, n)
  ELSE p - Len(blk) <= Len(rest) /\ IsFragment(rest[p - Len(blk)], j, n)

\* The n fragments of a packet from place first on, all of them in the block
WholeFrom(blk, rest, first, n) ==
  /\ first >= 1 /\ first + n <= K + 1
  /\ \A j \in 0 .. n - 1 : FragmentIn(blk, rest, first + j, j, n)

\* Symbol i of a block starts and ends its packet within the block, if one block
\* can hold it: its first fragments are in the block, the others there or in rest.
WholeAt(blk, rest, i) ==
  LET n == blk[i].total_symbols
  IN blk[i].payload_len > 0 /\ n <= K => WholeFrom(blk, rest, i - blk[i].symbol_index, n)

\* What is left of a packet of n fragments once some are done is its last ones.
RestOf(blk, rest, done, n) ==
  /\ done + Len(rest) = n
  /\ \A q \in 1 .. Len(rest) : IsFragment(rest[q], done + q - 1, n)
  /\ n <= K =>
       IF Len(blk) = K THEN done = 0
       ELSE /\ done <= Len(blk) /\ Len(blk) - done + n <= K
            /\ \A j \in 0 .. done - 1 : IsFragment(blk[Len(blk) - done + 1 + j], j, n)

RestInv ==
  frags # <<>> => RestOf(symbols, frags, frags[1].symbol_index, frags[1].total_symbols)

SplitInv ==
  /\ RestInv
  /\ \A i \in 1 .. Len(symbols) : WholeAt(symbols, frags, i)
  /\ PacketNotSplit

\* The sizes a fragment carries are numbers.
LEMMA FragmentSizes ==
  ASSUME NEW s \in Seq(FragRec), NEW i \in 1 .. Len(s)
  PROVE  s[i] \in FragRec /\ s[i].symbol_index \in Nat /\ s[i].total_symbols \in Nat
<1>1. s[i] \in FragRec
  OBVIOUS
<1> QED BY <1>1 DEF FragRec

\* Padding a block whose packets are all complete splits none of them.
LEMMA PaddedWhole ==
  ASSUME NEW s \in Seq(FragRec), Len(s) <= K, NEW rest,
         \A i \in 1 .. Len(s) : WholeAt(s, <<>>, i)
  PROVE  \A i \in 1 .. K : WholeAt(Padded(s), rest, i)
<1> DEFINE p == Padded(s)
<1>1. /\ p \in Seq(FragRec) /\ Len(p) = K /\ K \in Nat /\ Len(s) \in Nat
      /\ \A i \in 1 .. K : p[i] = IF i <= Len(s) THEN s[i] ELSE PaddingSymbol
  BY PaddedIs, Sizes DEF Padded
<1>2. PaddingSymbol.payload_len = 0
  BY DEF PaddingSymbol
<1> HIDE DEF p
<1>3. ASSUME NEW i \in 1 .. K PROVE WholeAt(p, rest, i)
  <2>1. CASE i > Len(s)
    BY <1>1, <1>2, <2>1 DEF WholeAt
  <2>2. CASE i <= Len(s)
    <3> DEFINE n == s[i].total_symbols
               first == i - s[i].symbol_index
    <3>1. i \in 1 .. Len(s) /\ p[i] = s[i] /\ WholeAt(s, <<>>, i)
      BY <1>1, <2>2
    <3>2. n \in Nat /\ s[i].symbol_index \in Nat /\ first \in Int
      BY <3>1, FragmentSizes
    <3> SUFFICES ASSUME s[i].payload_len > 0, n <= K
                 PROVE  WholeFrom(p, rest, first, n)
      BY <3>1 DEF WholeAt
    <3>3. /\ first >= 1 /\ first + n <= K + 1
          /\ \A j \in 0 .. n - 1 : FragmentIn(s, <<>>, first + j, j, n)
      BY <3>1 DEF WholeAt, WholeFrom
    <3> HIDE DEF first, n
    <3>4. ASSUME NEW j \in 0 .. n - 1
          PROVE  /\ first + j \in 1 .. Len(s) /\ first + j \in 1 .. K
                 /\ IsFragment(s[first + j], j, n)
      <4>1. first + j \in Int /\ first + j >= 1 /\ Len(<<>>) = 0
        BY <3>2, <3>3
      <4>2. FragmentIn(s, <<>>, first + j, j, n)
        BY <3>3
      <4> DEFINE at == first + j
      <4>3. at <= Len(s) /\ IsFragment(s[at], j, n)
        <5> HIDE DEF at
        <5>1. at \in Int /\ FragmentIn(s, <<>>, at, j, n)
          BY <4>1, <4>2 DEF at
        <5> QED BY <1>1, <4>1, <5>1 DEF FragmentIn
      <4> QED BY <1>1, <4>1, <4>3
    <3>5. ASSUME NEW j \in 0 .. n - 1
          PROVE  FragmentIn(p, rest, first + j, j, n)
      BY <1>1, <3>4 DEF FragmentIn
    <3> QED BY <3>3, <3>5 DEF WholeFrom
  <2> QED BY <1>1, <2>1, <2>2
<1> QED BY <1>3 DEF p

\* A full block leaves nothing of its packets behind.
LEMMA FullIsWhole ==
  ASSUME Inv, SplitInv, Len(symbols) = K
  PROVE  \A i \in 1 .. K :
           LET s == symbols[i]
           IN s.payload_len > 0 /\ s.total_symbols <= K =>
                /\ i > s.symbol_index
                /\ i + s.total_symbols - s.symbol_index <= K + 1
                /\ \A j \in 0 .. s.total_symbols - 1 :
                     IsFragment(symbols[i - s.symbol_index + j], j, s.total_symbols)
<1> SUFFICES ASSUME NEW i \in 1 .. K, symbols[i].payload_len > 0, symbols[i].total_symbols <= K
             PROVE  /\ i > symbols[i].symbol_index
                    /\ i + symbols[i].total_symbols - symbols[i].symbol_index <= K + 1
                    /\ \A j \in 0 .. symbols[i].total_symbols - 1 :
                         IsFragment(symbols[i - symbols[i].symbol_index + j], j, symbols[i].total_symbols)
  OBVIOUS
<1> DEFINE n == symbols[i].total_symbols
           at == symbols[i].symbol_index
<1>1. n \in Nat /\ at \in Nat /\ K \in Nat
  BY Sizes, FragmentSizes DEF Inv, TypeOK
<1>2. /\ i - at >= 1 /\ i - at + n <= K + 1
      /\ \A j \in 0 .. n - 1 : FragmentIn(symbols, frags, i - at + j, j, n)
  BY DEF SplitInv, WholeAt, WholeFrom
<1> HIDE DEF n, at
<1>3. \A j \in 0 .. n - 1 : IsFragment(symbols[i - at + j], j, n)
  <2> TAKE j \in 0 .. n - 1
  <2>1. i - at + j <= K
    BY <1>1, <1>2
  <2> QED BY <1>2, <2>1 DEF FragmentIn
<1>4. i > at /\ i + n - at <= K + 1
  BY <1>1, <1>2
<1> QED BY <1>3, <1>4 DEF n, at

\* The next fragment finds those before it at the end of the block.
LEMMA AddWhole ==
  ASSUME Inv, SplitInv, AddFragment
  PROVE  SplitInv'
<1> DEFINE L == Len(symbols)
           F == Len(frags)
           x == Head(frags)
<1>1. /\ pc = "add" /\ frags # <<>> /\ L < K /\ encoded' = encoded
      /\ symbols' = Append(symbols, x) /\ frags' = Tail(frags)
  BY DEF AddFragment, AddSymbol, history
<1>2. symbols \in Seq(FragRec) /\ frags \in Seq(FragRec) /\ L \in Nat /\ F \in Nat /\ F >= 1 /\ K \in Nat
  BY <1>1, Sizes DEF Inv, TypeOK
<1>3. /\ x = frags[1] /\ x \in FragRec /\ frags' \in Seq(FragRec) /\ Len(frags') = F - 1
      /\ \A i \in 1 .. F - 1 : frags'[i] = frags[i + 1]
  BY <1>1, <1>2, HeadAndTail
<1>4. /\ symbols' \in Seq(FragRec) /\ Len(symbols') = L + 1 /\ symbols'[L + 1] = x
      /\ \A i \in 1 .. L : symbols'[i] = symbols[i]
  BY <1>1, <1>2, <1>3
<1> DEFINE n == x.total_symbols
           done == x.symbol_index
<1>5. n \in Nat /\ done \in Nat
  BY <1>3 DEF FragRec
<1>6. /\ done + F = n
      /\ \A q \in 1 .. F : IsFragment(frags[q], done + q - 1, n)
      /\ n <= K => /\ done <= L /\ L - done + n <= K
                   /\ \A j \in 0 .. done - 1 : IsFragment(symbols[L - done + 1 + j], j, n)
  <2>1. RestOf(symbols, frags, done, n) /\ L # K
    BY <1>1, <1>2, <1>3 DEF SplitInv, RestInv
  <2> HIDE DEF n, done
  <2> QED BY <2>1 DEF RestOf
<1> HIDE DEF L, F, x, n, done
<1>7. RestInv'
  <2> SUFFICES ASSUME frags' # <<>> PROVE RestOf(symbols', frags', frags'[1].symbol_index, frags'[1].total_symbols)
    BY DEF RestInv
  <2>1. F - 1 >= 1
    BY <1>2, <1>3
  <2>2. ASSUME NEW q \in 1 .. F - 1 PROVE IsFragment(frags'[q], done + 1 + q - 1, n)
    <3>1. q + 1 \in 1 .. F /\ done + (q + 1) - 1 = done + 1 + q - 1
      BY <1>2, <1>5
    <3> QED BY <1>3, <1>6, <3>1
  <2>3. frags'[1].total_symbols = n /\ frags'[1].symbol_index = done + 1
    <3>1. 1 \in 1 .. F - 1 /\ done + 1 + 1 - 1 = done + 1
      BY <1>2, <1>5, <2>1
    <3> QED BY <2>2, <3>1 DEF IsFragment
  <2>4. ASSUME n <= K
        PROVE  /\ L + 1 # K /\ done + 1 <= L + 1 /\ L + 1 - (done + 1) + n <= K
               /\ \A j \in 0 .. done + 1 - 1 : IsFragment(symbols'[L + 1 - (done + 1) + 1 + j], j, n)
    <3>1. L + 1 # K /\ done + 1 <= L + 1 /\ L + 1 - (done + 1) + n <= K
      BY <1>2, <1>5, <1>6, <2>1, <2>4
    <3>2. ASSUME NEW j \in 0 .. done + 1 - 1
          PROVE  IsFragment(symbols'[L + 1 - (done + 1) + 1 + j], j, n)
      <4>1. L + 1 - (done + 1) + 1 + j = L - done + 1 + j
        BY <1>2, <1>5
      <4>2. CASE j = done
        <5>1. L - done + 1 + j = L + 1 /\ 1 \in 1 .. F /\ done + 1 - 1 = done
          BY <1>2, <1>5, <4>2
        <5>2. IsFragment(x, done, n)
          BY <1>3, <1>6, <5>1
        <5> QED BY <1>4, <4>1, <4>2, <5>1, <5>2
      <4>3. CASE j # done
        <5>1. j \in 0 .. done - 1 /\ L - done + 1 + j \in 1 .. L
          <6>1. done <= L
            BY <1>6, <2>4
          <6> QED BY <1>2, <1>5, <4>3, <6>1
        <5>2. IsFragment(symbols[L - done + 1 + j], j, n)
          BY <1>6, <2>4, <5>1
        <5> QED BY <1>4, <4>1, <5>1, <5>2
      <4> QED BY <4>2, <4>3
    <3> QED BY <3>1, <3>2
  <2>5. done + 1 + (F - 1) = n
    BY <1>2, <1>5, <1>6
  <2>6. RestOf(symbols', frags', done + 1, n)
    <3>1. done + 1 + Len(frags') = n
          /\ \A q \in 1 .. Len(frags') : IsFragment(frags'[q], done + 1 + q - 1, n)
      BY <1>3, <2>2, <2>5
    <3>2. ASSUME n <= K
          PROVE  /\ Len(symbols') # K /\ done + 1 <= Len(symbols') /\ Len(symbols') - (done + 1) + n <= K
                 /\ \A j \in 0 .. done + 1 - 1 :
                      IsFragment(symbols'[Len(symbols') - (done + 1) + 1 + j], j, n)
      <4>1. Len(symbols') = L + 1
        BY <1>4
      <4> QED BY ONLY <1>2, <1>5, <2>4, <3>2, <4>1
    <3> QED BY <1>2, <1>5, <3>1, <3>2 DEF RestOf
  <2> QED BY <2>3, <2>6
<1>8. ASSUME NEW i \in 1 .. L PROVE WholeAt(symbols', frags', i)
  <2> DEFINE s == symbols[i]
             m == s.total_symbols
             first == i - s.symbol_index
  <2>1. symbols'[i] = s /\ m \in Nat /\ s.symbol_index \in Nat /\ first \in Int
    BY <1>2, <1>4, FragmentSizes DEF L
  <2> SUFFICES ASSUME s.payload_len > 0, m <= K
               PROVE  WholeFrom(symbols', frags', first, m)
    BY <2>1 DEF WholeAt
  <2>2. /\ first >= 1 /\ first + m <= K + 1
        /\ \A j \in 0 .. m - 1 : FragmentIn(symbols, frags, first + j, j, m)
    BY DEF SplitInv, WholeAt, WholeFrom, L
  <2> HIDE DEF s, m, first
  <2>3. ASSUME NEW j \in 0 .. m - 1, NEW at, at = first + j
        PROVE  FragmentIn(symbols', frags', at, j, m)
    <3>1. at \in Int /\ at >= 1
      BY <2>1, <2>2, <2>3
    <3>2. FragmentIn(symbols, frags, at, j, m)
      BY <2>2, <2>3
    <3>3. CASE at <= L
      <4>1. at \in 1 .. L /\ at <= L + 1
        BY <1>2, <3>1, <3>3
      <4>2. IsFragment(symbols[at], j, m)
        BY <3>2, <3>3 DEF FragmentIn, L
      <4> QED BY <1>4, <4>1, <4>2 DEF FragmentIn
    <3>4. CASE at = L + 1
      <4>1. at - L = 1 /\ ~(at <= L) /\ at <= L + 1
        BY <1>2, <3>4
      <4>2. IsFragment(frags[1], j, m)
        BY <3>2, <4>1 DEF FragmentIn, L
      <4> QED BY <1>3, <1>4, <3>4, <4>1, <4>2 DEF FragmentIn
    <3>5. CASE at > L + 1
      <4>1. ~(at <= L)
        BY <1>2, <3>1, <3>5
      <4>2. at - L <= F /\ IsFragment(frags[at - L], j, m)
        BY <3>2, <4>1 DEF FragmentIn, L, F
      <4>3. /\ at - (L + 1) \in 1 .. F - 1 /\ at - (L + 1) + 1 = at - L
            /\ ~(at <= L + 1) /\ at - (L + 1) <= F - 1
        BY <1>2, <3>1, <3>5, <4>2
      <4>4. IsFragment(frags'[at - (L + 1)], j, m)
        BY <1>3, <4>2, <4>3
      <4> QED BY <1>3, <1>4, <4>3, <4>4 DEF FragmentIn
    <3> QED BY <1>2, <3>1, <3>3, <3>4, <3>5
  <2> QED BY <2>2, <2>3 DEF WholeFrom
<1>9. WholeAt(symbols', frags', L + 1)
  <2> SUFFICES ASSUME n <= K PROVE WholeFrom(symbols', frags', L + 1 - done, n)
    <3>1. symbols'[L + 1].total_symbols = n /\ symbols'[L + 1].symbol_index = done
      BY <1>4 DEF n, done
    <3> QED BY <1>2, <1>5, <3>1 DEF WholeAt
  <2>1. L + 1 - done >= 1 /\ L + 1 - done + n <= K + 1
    BY <1>2, <1>5, <1>6
  <2>2. ASSUME NEW j \in 0 .. n - 1, NEW at, at = L + 1 - done + j
        PROVE  FragmentIn(symbols', frags', at, j, n)
    <3>1. CASE j < done
      <4>1. j \in 0 .. done - 1 /\ at \in 1 .. L /\ at <= L + 1 /\ at = L - done + 1 + j
        BY <1>2, <1>5, <1>6, <2>2, <3>1
      <4>2. IsFragment(symbols[at], j, n)
        BY <1>6, <4>1
      <4> QED BY <1>4, <4>1, <4>2 DEF FragmentIn
    <3>2. CASE j = done
      <4>1. at = L + 1 /\ L + 1 <= L + 1 /\ 1 \in 1 .. F /\ done + 1 - 1 = done
        BY <1>2, <1>5, <2>2, <3>2
      <4>2. IsFragment(x, done, n)
        BY <1>3, <1>6, <4>1
      <4> QED BY <1>4, <3>2, <4>1, <4>2 DEF FragmentIn
    <3>3. CASE j > done
      <4>1. /\ ~(at <= L + 1) /\ at - (L + 1) = j - done
            /\ j - done \in 1 .. F - 1 /\ j - done + 1 \in 1 .. F /\ done + (j - done + 1) - 1 = j
        BY <1>2, <1>5, <1>6, <2>2, <3>3
      <4>2. IsFragment(frags'[j - done], j, n) /\ j - done <= F - 1
        BY <1>3, <1>6, <4>1
      <4> QED BY <1>3, <1>4, <4>1, <4>2 DEF FragmentIn
    <3> QED BY <1>5, <3>1, <3>2, <3>3
  <2> QED BY <2>1, <2>2 DEF WholeFrom
<1>10. \A i \in 1 .. Len(symbols') : WholeAt(symbols', frags', i)
  <2>1. \A i \in 1 .. L + 1 : i \in 1 .. L \/ i = L + 1
    BY <1>2
  <2> QED BY <1>4, <1>8, <1>9, <2>1
<1> QED BY <1>1, <1>7, <1>10 DEF SplitInv, PacketNotSplit

\* What is whole stays whole whatever comes next.
LEMMA WholeAnyRest ==
  ASSUME NEW s \in Seq(FragRec), NEW rest, NEW i \in 1 .. Len(s), WholeAt(s, <<>>, i)
  PROVE  WholeAt(s, rest, i)
<1> DEFINE n == s[i].total_symbols
           first == i - s[i].symbol_index
<1>1. n \in Nat /\ first \in Int /\ Len(s) \in Nat
  BY FragmentSizes
<1> SUFFICES ASSUME s[i].payload_len > 0, n <= K PROVE WholeFrom(s, rest, first, n)
  BY DEF WholeAt
<1>2. WholeFrom(s, <<>>, first, n)
  BY DEF WholeAt
<1> HIDE DEF n, first
<1>3. ASSUME NEW j \in 0 .. n - 1, NEW at, at = first + j PROVE FragmentIn(s, rest, at, j, n)
  <2>1. at \in Int /\ FragmentIn(s, <<>>, at, j, n)
    BY <1>1, <1>2, <1>3 DEF WholeFrom
  <2>2. at <= Len(s)
    BY <1>1, <2>1 DEF FragmentIn
  <2> QED BY <2>1, <2>2 DEF FragmentIn
<1> QED BY <1>2, <1>3 DEF WholeFrom

\* The first fragment of a packet starts a new run in a block with room for all of it.
LEMMA NewPacket ==
  ASSUME NEW s \in Seq(FragRec), NEW pkt \in Packets,
         \/ Len(s) = K
         \/ Len(s) < K /\ (s = <<>> \/ Len(s) + Len(Fragments(pkt)) <= K)
  PROVE  RestOf(s, Fragments(pkt), Fragments(pkt)[1].symbol_index, Fragments(pkt)[1].total_symbols)
<1> DEFINE f == Fragments(pkt)
<1>1. /\ Len(f) \in Nat \ {0}
      /\ \A i \in 1 .. Len(f) : f[i].symbol_index = i - 1 /\ f[i].total_symbols = Len(f)
  BY FragmentsAre
<1> HIDE DEF f
<1>2. f[1].symbol_index = 0 /\ f[1].total_symbols = Len(f)
  BY <1>1
<1>3. \A q \in 1 .. Len(f) : IsFragment(f[q], 0 + q - 1, Len(f))
  BY <1>1 DEF IsFragment
<1>4. Len(s) \in Nat /\ K \in Nat
  BY Sizes
<1>5. Len(f) <= K /\ Len(s) # K => 0 <= Len(s) /\ Len(s) - 0 + Len(f) <= K
  BY <1>1, <1>4 DEF f
<1>6. 0 + Len(f) = Len(f) /\ 0 .. 0 - 1 = {}
  BY <1>1
<1>7. RestOf(s, f, 0, Len(f))
  BY <1>3, <1>5, <1>6 DEF RestOf
<1> QED BY <1>2, <1>7 DEF f

LEMMA SplitInit == Init => SplitInv
BY DEF Init, SplitInv, RestInv, PacketNotSplit

LEMMA SplitStep == Inv /\ DataInv /\ SplitInv /\ [Next]_vars => SplitInv'
<1> SUFFICES ASSUME Inv, DataInv, SplitInv, [Next]_vars PROVE SplitInv'
  OBVIOUS
<1>1. /\ symbols \in Seq(FragRec) /\ Len(symbols) <= K /\ Len(symbols) \in Nat /\ K \in Nat
      /\ Padded(symbols) \in Seq(FragRec) /\ Len(Padded(symbols)) = K
  BY Sizes, PaddedIs DEF Inv, TypeOK
<1>2. CASE UNCHANGED <<symbols, frags, encoded>>
  BY <1>2 DEF SplitInv, RestInv, PacketNotSplit
<1>3. CASE Idle \/ FragmentsDone
  <2>1. /\ frags = <<>> /\ frags' = <<>> /\ encoded' = encoded
        /\ symbols' \in {symbols, Padded(symbols)}
    BY <1>3 DEF Idle, FragmentsDone, Flush, builder, history, Inv, TypeOK
  <2>2. \A i \in 1 .. Len(symbols') : WholeAt(symbols', <<>>, i)
    <3>1. \A i \in 1 .. Len(symbols) : WholeAt(symbols, <<>>, i)
      BY <2>1 DEF SplitInv
    <3>2. \A i \in 1 .. K : WholeAt(Padded(symbols), <<>>, i)
      BY <1>1, <3>1, PaddedWhole
    <3> QED BY <1>1, <2>1, <3>1, <3>2
  <2> QED BY <2>1, <2>2 DEF SplitInv, RestInv, PacketNotSplit
<1>4. ASSUME NEW pkt \in Packets, Accept(pkt) PROVE SplitInv'
  <2>1. /\ pc = "recv" /\ frags' = Fragments(pkt) /\ encoded' = encoded
        /\ \/ symbols' = Padded(symbols)
           \/ symbols' = symbols /\ ~MustFlush(Len(Fragments(pkt)))
    BY <1>4 DEF Accept, Flush, builder, Fragments
  <2>2. frags = <<>> /\ Len(symbols) < K
    BY <2>1 DEF Inv, TypeOK
  <2>3. \A i \in 1 .. Len(symbols) : WholeAt(symbols, <<>>, i)
    BY <2>2 DEF SplitInv
  <2>4. \A i \in 1 .. Len(symbols') : WholeAt(symbols', frags', i)
    BY <1>1, <2>1, <2>3, PaddedWhole, WholeAnyRest
  <2>5. RestInv'
    <3>1. Len(Fragments(pkt)) \in Nat
      BY FragmentsAre
    <3>2. \/ Len(symbols') = K
          \/ Len(symbols') < K /\ (symbols' = <<>> \/ Len(symbols') + Len(Fragments(pkt)) <= K)
      BY <1>1, <2>1, <2>2, <3>1 DEF MustFlush
    <3>3. symbols' \in Seq(FragRec)
      BY <1>1, <2>1
    <3>4. RestOf(symbols', Fragments(pkt), Fragments(pkt)[1].symbol_index, Fragments(pkt)[1].total_symbols)
      BY <3>2, <3>3, NewPacket
    <3> QED BY <2>1, <3>4 DEF RestInv
  <2> QED BY <2>1, <2>4, <2>5 DEF SplitInv, PacketNotSplit
<1>5. CASE Encode
  <2>1. /\ pc = "encode" /\ encoded' = Append(encoded, symbols) /\ symbols' = symbols /\ frags' = frags
    BY <1>5 DEF Encode, builder
  <2>2. Len(symbols) = K /\ encoded \in Seq(Block)
    BY <2>1 DEF Inv, ControlInv, DataInv
  <2>3. /\ Len(encoded) \in Nat /\ DOMAIN encoded = 1 .. Len(encoded)
        /\ DOMAIN encoded' = 1 .. Len(encoded) + 1 /\ encoded'[Len(encoded) + 1] = symbols
        /\ \A b \in 1 .. Len(encoded) : encoded'[b] = encoded[b]
    BY <2>1, <2>2
  <2>4. ASSUME NEW b \in DOMAIN encoded', NEW i \in 1 .. K
        PROVE  LET s == encoded'[b][i]
               IN s.payload_len > 0 /\ s.total_symbols <= K =>
                    /\ i > s.symbol_index
                    /\ i + s.total_symbols - s.symbol_index <= K + 1
                    /\ \A j \in 0 .. s.total_symbols - 1 :
                         IsFragment(encoded'[b][i - s.symbol_index + j], j, s.total_symbols)
    <3>1. CASE b = Len(encoded) + 1
      BY <2>2, <2>3, <3>1, FullIsWhole
    <3>2. CASE b # Len(encoded) + 1
      <4>1. b \in 1 .. Len(encoded) /\ b \in DOMAIN encoded /\ encoded'[b] = encoded[b]
        BY <2>3, <3>2
      <4> QED BY <4>1 DEF SplitInv, PacketNotSplit, IsFragment
    <3> QED BY <3>1, <3>2
  <2>5. PacketNotSplit'
    BY <2>4 DEF PacketNotSplit, IsFragment
  <2> QED BY <2>1, <2>5 DEF SplitInv, RestInv
<1>6. CASE BlockDone
  <2>1. /\ pc = "drain" /\ symbols' = <<>> /\ frags' = frags /\ encoded' = encoded
    BY <1>6 DEF BlockDone, ResetBuilder, history
  <2>2. Len(symbols) = K
    BY <2>1 DEF Inv, ControlInv
  <2>3. RestInv'
    <3> SUFFICES ASSUME frags # <<>>
                 PROVE  RestOf(<<>>, frags, frags[1].symbol_index, frags[1].total_symbols)
      BY <2>1 DEF RestInv
    <3> DEFINE done == frags[1].symbol_index
               n == frags[1].total_symbols
    <3>1. RestOf(symbols, frags, done, n)
      BY DEF SplitInv, RestInv
    <3>2. n \in Nat
      <4>1. frags \in Seq(FragRec) /\ 1 \in 1 .. Len(frags)
        BY DEF Inv, TypeOK
      <4> QED BY <4>1, FragmentSizes
    <3> HIDE DEF done, n
    <3>3. n <= K => done = 0
      BY <2>2, <3>1 DEF RestOf
    <3>4. n <= K => Len(<<>>) # K /\ done <= Len(<<>>) /\ Len(<<>>) - done + n <= K
                    /\ 0 .. done - 1 = {}
      BY <3>2, <3>3, Sizes
    <3>5. RestOf(<<>>, frags, done, n)
      BY <3>1, <3>4 DEF RestOf
    <3> QED BY <3>5 DEF done, n
  <2>4. \A i \in 1 .. Len(symbols') : FALSE
    BY <2>1
  <2> QED BY <2>1, <2>3, <2>4 DEF SplitInv, PacketNotSplit
<1>7. CASE Skip \/ PushNext \/ Send \/ TickInterleaver \/ FlushDone \/ Advance \/ UNCHANGED vars
  <2>1. UNCHANGED <<symbols, frags, encoded>>
    BY <1>7 DEF Skip, PushNext, Send, TickInterleaver, FlushDone, Advance, vars, builder, control, history
  <2> QED BY <1>2, <2>1
<1> QED
  BY <1>3, <1>4, <1>5, <1>6, <1>7, AddWhole DEF Next, Receive, Work

\* "Keep all fragments of one packet in the same FEC block": a packet of at most K
\* fragments starts and ends in one block, whenever the block timeouts strike.
THEOREM PacketsStayWhole == Spec => []PacketNotSplit
<1>1. SplitInv => PacketNotSplit
  BY DEF SplitInv
<1>2. Spec => []DataInv
  BY DataInit, DataStep, PipelineInv, PTL DEF Spec
<1>3. Spec => []SplitInv
  BY <1>2, SplitInit, SplitStep, PipelineInv, PTL DEF Spec
<1> QED BY <1>1, <1>3, PTL
=============================================================================
