-------------------------- MODULE InterleaverProofs --------------------------
(***************************************************************************)
(* The interleaver's window, for every depth, block length, key and flush   *)
(* timer: a row is one block, the window is read when every row is full,   *)
(* what is read is what was accepted in it, and padding, and a burst in it  *)
(* takes no more of a block than the page says it does.                    *)
(***************************************************************************)
EXTENDS InterleaverPage, DataLemmas, FiniteSetTheorems

Full == {r \in Rows : mask[r] = Cols}
Squares == Rows \X Cols

\* A window that is being filled: rows are taken in order, those not taken are
\* blank, and what is owed is what the bitmaps say is there.
Filling ==
  /\ pop_row = 0 /\ pop_col = 0
  /\ assigned = {r \in Rows : r < blocks}
  /\ \A r \in Rows \ assigned : mask[r] = {} /\ row_key[r] = ZeroKey
  /\ ~hasData => blocks = 0
  /\ owed = {matrix[p[1]][p[2]] : p \in {q \in Squares : q[2] \in mask[q[1]]}}

\* A window that is being read: every row is full, and a symbol that is in two
\* of its cells is padding.
Reading ==
  /\ hasData
  /\ \A r \in Rows : mask[r] = Cols
  /\ \A r, t \in Rows, c \in Cols :
       r # t /\ matrix[r][c] = matrix[t][c] => matrix[r][c].body = Padding

IInv ==
  /\ WindowIsSound
  /\ ~ready => Filling
  /\ ready => Reading

-----------------------------------------------------------------------------
(* Rows and columns                                                          *)

\* There are Depth rows, numbered from 0, and at least one column.
LEMMA RowsFinite ==
  /\ IsFiniteSet(Rows) /\ Cardinality(Rows) = Depth
  /\ 0 \in Rows /\ Depth - 1 \in Rows /\ 0 \in Cols /\ N - 1 \in Cols
  /\ Rows \subseteq Nat /\ Cols \subseteq Nat /\ Cols # {}
<1>1. /\ 0 \in Int /\ Depth - 1 \in Int /\ ~(0 > Depth - 1)
      /\ Depth - 1 - 0 + 1 = Depth
  BY InterleaverAssumption
<1>2. IsFiniteSet(0 .. Depth - 1) /\ Cardinality(0 .. Depth - 1) = Depth
  BY <1>1, FS_Interval
<1> QED
  BY <1>2, InterleaverAssumption DEF Rows, Cols

\* No row is taken when window_block_count is 0.
LEMMA NoneBelow == {r \in Rows : r < 0} = {}
<1> SUFFICES ASSUME NEW r \in Rows, r < 0 PROVE FALSE
  OBVIOUS
<1>1. r \in Nat
  BY RowsFinite
<1> QED
  BY <1>1

\* A drain that starts at row 0 and column 0 has every cell ahead of it.
LEMMA AllAhead == \A p \in Squares : p[2] > 0 \/ (p[2] = 0 /\ p[1] >= 0)
<1> SUFFICES ASSUME NEW p \in Squares PROVE p[2] > 0 \/ (p[2] = 0 /\ p[1] >= 0)
  OBVIOUS
<1>1. p[1] \in Nat /\ p[2] \in Nat
  BY RowsFinite DEF Squares
<1> QED
  BY <1>1

\* complete_slots is in range, and Depth complete rows are all of them.
LEMMA FullCounted ==
  ASSUME NEW S, S \subseteq Rows
  PROVE  /\ IsFiniteSet(S) /\ Cardinality(S) \in 0 .. Depth
         /\ Cardinality(S) = Depth => S = Rows
<1>1. IsFiniteSet(S) /\ Cardinality(S) <= Cardinality(Rows)
      /\ (Cardinality(S) = Cardinality(Rows) => S = Rows)
  BY RowsFinite, FS_Subset
<1> QED
  BY <1>1, RowsFinite, FS_CardinalityType, InterleaverAssumption

\* resolve_row() finds the row of a block that has one.
LEMMA RowOfBlock ==
  ASSUME TypeOK, RowIsBlock, ~ready, NEW key, RowsOf(key) # {}
  PROVE  ResolveRow(key) \in RowsOf(key)
<1>1. PICK r \in RowsOf(key) : TRUE
  OBVIOUS
<1>2. RowsOf(key) = {r}
  BY <1>1 DEF RowsOf, RowIsBlock
<1>3. r \in Nat
  BY <1>1, RowsFinite DEF RowsOf, TypeOK
<1>4. Lowest(RowsOf(key)) \in RowsOf(key)
  BY <1>2, <1>3 DEF Lowest
<1> QED
  BY <1>4 DEF ResolveRow

\* ... or the next free one.
LEMMA FreeRow ==
  ASSUME TypeOK, Filling, NEW key, RowsOf(key) = {}, blocks < Depth
  PROVE  ResolveRow(key) = blocks /\ blocks \in Rows \ assigned
<1>1. blocks \in Nat /\ blocks % Depth = blocks
  <2>1. Depth \in Nat /\ Depth # 0
    BY InterleaverAssumption
  <2>2. blocks \in Nat /\ blocks < Depth
    BY <2>1 DEF TypeOK
  <2> QED
    BY <2>1, <2>2
<1>2. blocks \in Rows
  BY <1>1, InterleaverAssumption DEF Rows
<1>3. ~(blocks < blocks)
  BY <1>1
<1>4. blocks \notin assigned
  BY <1>3 DEF Filling
<1>5. ResolveRow(key) = blocks
  BY <1>1 DEF ResolveRow
<1> QED
  BY <1>2, <1>4, <1>5

-----------------------------------------------------------------------------
\* interleaver_create() starts with an empty window that nobody reads.
LEMMA WindowInit == Init => IInv
<1> SUFFICES ASSUME Init PROVE IInv
  OBVIOUS
<1>1. Full = {}
  BY RowsFinite DEF Init, Full
<1>2. Cardinality(Full) = 0 /\ Depth # 0 /\ Depth \in Nat
  BY <1>1, FS_EmptySet, InterleaverAssumption
<1>3. TypeOK
  <2>1. Garbage \in Symbol
    BY InterleaverAssumption DEF Symbol
  <2> QED
    BY <2>1, RowsFinite, InterleaverAssumption, SMTT(30) DEF Init, TypeOK
<1>4. RowIsBlock
  BY DEF Init, RowIsBlock
<1>5. DrainIsExact
  BY DEF Init, DrainIsExact
<1>6. ReadyIsComplete
  BY <1>2 DEF Init, ReadyIsComplete, Full
<1>7. Filling
  <2>1. {r \in Rows : r < 0} = {}
    BY NoneBelow
  <2>2. {q \in Squares : q[2] \in mask[q[1]]} = {}
    BY DEF Init, Squares
  <2> QED
    BY <2>1, <2>2 DEF Init, Filling
<1> QED
  BY <1>3, <1>4, <1>5, <1>6, <1>7 DEF IInv, WindowIsSound, Init

\* A new window: nothing is in it, and nothing is owed.
LEMMA ResetStep ==
  ASSUME IInv, ResetWindow, matrix' = matrix, now' = now, owed' = {}, out' \in Seq(Symbol)
  PROVE  IInv'
<1> USE DEF ResetWindow
<1>1. Full' = {}
  BY RowsFinite DEF Full
<1>2. Cardinality(Full') = 0 /\ Depth # 0 /\ Depth \in Nat
  BY <1>1, FS_EmptySet, InterleaverAssumption
<1>3. TypeOK'
  <2>1. TypeOK
    BY DEF IInv, WindowIsSound
  <2>2. 0 \in 0 .. Depth /\ ZeroKey \in Keys /\ 0 \in Nat
    BY <1>2, InterleaverAssumption
  <2>3. mask' \in [Rows -> SUBSET Cols] /\ row_key' \in [Rows -> Keys]
    BY <2>2
  <2>4. matrix' \in [Rows -> [Cols -> Symbol]] /\ now' \in Nat
    BY <2>1 DEF TypeOK
  <2> QED
    BY <2>2, <2>3, <2>4, RowsFinite DEF TypeOK
<1>4. RowIsBlock'
  BY DEF RowIsBlock
<1>5. DrainIsExact'
  BY DEF DrainIsExact
<1>6. ReadyIsComplete'
  BY <1>2 DEF ReadyIsComplete, Full
<1>7. Filling'
  <2>1. {r \in Rows : r < 0} = {}
    BY NoneBelow
  <2>2. {q \in Squares : q[2] \in mask'[q[1]]} = {}
    BY DEF Squares
  <2> QED
    BY <2>1, <2>2 DEF Filling
<1> QED
  BY <1>3, <1>4, <1>5, <1>6, <1>7 DEF IInv, WindowIsSound

-----------------------------------------------------------------------------
(* interleaver_push_symbol()                                                 *)

\* The row a push goes to: its block's, or one nobody has.
LEMMA PushRow ==
  ASSUME IInv, NEW sym \in Symbols, Push(sym), NEW row, row = ResolveRow(sym.packet_id)
  PROVE  /\ row \in Rows /\ ~ready /\ sym \in Symbol /\ sym.fec_id \notin mask[row]
         /\ row \in assigned => row_key[row] = sym.packet_id
         /\ \A t \in assigned \ {row} : row_key[t] # sym.packet_id
         /\ assigned' = {r \in Rows : r < blocks'}
         /\ blocks' \in 1 .. Depth
<1>1. /\ ~ready /\ sym.fec_id \in Cols /\ sym.fec_id \notin mask[row]
      /\ RowsOf(sym.packet_id) # {} \/ blocks < Depth
      /\ assigned' = assigned \cup {row}
      /\ blocks' = IF RowsOf(sym.packet_id) = {} THEN blocks + 1 ELSE blocks
  <2>1. blocks \in Nat /\ Depth \in Nat
    BY InterleaverAssumption DEF IInv, WindowIsSound, TypeOK
  <2> QED
    BY <2>1 DEF Push, Rejects, IsDuplicate
<1>2. sym \in Symbol
  BY <1>1, InterleaverAssumption DEF Symbol
<1>3. TypeOK /\ RowIsBlock /\ Filling
  BY <1>1 DEF IInv, WindowIsSound
<1>4. CASE RowsOf(sym.packet_id) # {}
  <2>1. row \in RowsOf(sym.packet_id)
    BY <1>1, <1>3, <1>4, RowOfBlock
  <2>2. row \in assigned /\ row_key[row] = sym.packet_id /\ row \in Rows
    BY <1>3, <2>1 DEF RowsOf, TypeOK
  <2>3. \A t \in assigned \ {row} : row_key[t] # sym.packet_id
    BY <1>1, <1>3, <2>2 DEF RowIsBlock
  <2>4. assigned' = assigned /\ blocks' = blocks /\ blocks \in 0 .. Depth
    BY <1>1, <1>3, <1>4, <2>2 DEF TypeOK
  <2>5. blocks # 0
    BY <1>3, <2>2, RowsFinite DEF Filling
  <2> QED
    BY <1>1, <1>2, <1>3, <2>2, <2>3, <2>4, <2>5 DEF Filling
<1>5. CASE RowsOf(sym.packet_id) = {}
  <2>1. row = blocks /\ row \in Rows \ assigned /\ blocks < Depth
    BY <1>1, <1>3, <1>5, FreeRow
  <2>2. \A t \in assigned : row_key[t] # sym.packet_id
    BY <1>5 DEF RowsOf
  <2>3. blocks' = blocks + 1 /\ blocks \in Nat /\ assigned' = assigned \cup {blocks}
    BY <1>1, <1>3, <1>5, <2>1 DEF TypeOK
  <2>4. assigned' = {r \in Rows : r < blocks'}
    <3>1. \A r \in Rows : r < blocks + 1 <=> r < blocks \/ r = blocks
      BY <2>3, RowsFinite
    <3>2. assigned = {r \in Rows : r < blocks}
      BY <1>3 DEF Filling
    <3> QED
      BY <2>1, <2>3, <3>1, <3>2
  <2> QED
    BY <1>1, <1>2, <2>1, <2>2, <2>3, <2>4, InterleaverAssumption
<1> QED
  BY <1>4, <1>5

\* A stored symbol joins its block's row and what is owed; the push that completes
\* the last row opens the window.
LEMMA PushStep ==
  ASSUME IInv, NEW sym \in Symbols, Push(sym)
  PROVE  IInv'
<1> DEFINE row   == ResolveRow(sym.packet_id)
           fills == mask[row] \cup {sym.fec_id} = Cols
<1>1. /\ row \in Rows /\ ~ready /\ sym \in Symbol /\ sym.fec_id \notin mask[row]
      /\ row \in assigned => row_key[row] = sym.packet_id
      /\ \A t \in assigned \ {row} : row_key[t] # sym.packet_id
      /\ assigned' = {r \in Rows : r < blocks'}
      /\ blocks' \in 1 .. Depth
  BY PushRow
<1>2. /\ matrix' = [matrix EXCEPT ![row][sym.fec_id] = sym]
      /\ mask' = [mask EXCEPT ![row] = mask[row] \cup {sym.fec_id}]
      /\ row_key' = [row_key EXCEPT ![row] = sym.packet_id]
      /\ assigned' = assigned \cup {row}
      /\ hasData' = TRUE
      /\ start' = IF hasData THEN start ELSE now
      /\ complete' = IF fills THEN complete + 1 ELSE complete
      /\ owed' = owed \cup {sym}
      /\ out' = IF hasData THEN out ELSE <<>>
      /\ pop_row' = pop_row /\ pop_col' = pop_col /\ now' = now
  BY DEF Push
<1>3. ready' = (fills /\ complete + 1 = Depth)
  BY DEF Push
<1> HIDE DEF row, fills
<1>4. TypeOK /\ RowIsBlock /\ Filling /\ ReadyIsComplete /\ DrainIsExact
  BY <1>1 DEF IInv, WindowIsSound
<1>5. sym.fec_id \in Cols /\ sym.packet_id \in Keys
  BY <1>1 DEF Symbol
<1>6. /\ matrix' \in [Rows -> [Cols -> Symbol]] /\ mask' \in [Rows -> SUBSET Cols]
      /\ row_key' \in [Rows -> Keys] /\ assigned' \subseteq Rows
      /\ owed' \subseteq Symbol
  BY <1>1, <1>2, <1>4, <1>5 DEF TypeOK
<1>7. /\ \A r \in Rows, c \in Cols :
           matrix'[r][c] = IF r = row /\ c = sym.fec_id THEN sym ELSE matrix[r][c]
      /\ \A r \in Rows : mask'[r] = IF r = row THEN mask[row] \cup {sym.fec_id} ELSE mask[r]
      /\ \A r \in Rows : row_key'[r] = IF r = row THEN sym.packet_id ELSE row_key[r]
  BY <1>1, <1>2, <1>4, <1>5 DEF TypeOK
<1>8. Full' = IF fills THEN Full \cup {row} ELSE Full
  BY <1>1, <1>5, <1>7 DEF Full, fills
<1>9. row \notin Full
  BY <1>1, <1>5 DEF Full
<1>10. complete' = Cardinality(Full') /\ complete = Cardinality(Full) /\ complete' \in 0 .. Depth
  <2>1. Full \subseteq Rows /\ Full' \subseteq Rows
    BY DEF Full
  <2>2. complete = Cardinality(Full) /\ IsFiniteSet(Full)
    BY <1>4, <2>1, FullCounted DEF ReadyIsComplete, Full
  <2>3. fills => Cardinality(Full') = Cardinality(Full) + 1
    BY <1>8, <1>9, <2>2, FS_AddElement
  <2>4. ~fills => Cardinality(Full') = Cardinality(Full)
    BY <1>8
  <2>5. complete' = Cardinality(Full')
    BY <1>2, <2>2, <2>3, <2>4
  <2> QED
    BY <2>1, <2>2, <2>5, FullCounted
<1>11. complete \in Nat /\ complete # Depth /\ Depth \in Nat
  BY <1>1, <1>4, InterleaverAssumption DEF TypeOK, ReadyIsComplete
<1>12. ready' <=> complete' = Depth
  BY <1>2, <1>3, <1>11
<1>13. ReadyIsComplete'
  BY <1>10, <1>12 DEF ReadyIsComplete, Full
<1>14. TypeOK'
  <2>1. start' \in Nat /\ now' \in Nat
    BY <1>2, <1>4 DEF TypeOK
  <2>2. out' \in Seq(Symbol)
    BY <1>2, <1>4 DEF TypeOK
  <2>3. ready' \in BOOLEAN /\ hasData' \in BOOLEAN
    BY <1>2, <1>3
  <2>4. pop_row' \in Rows /\ pop_col' \in Cols /\ blocks' \in 0 .. Depth
    BY <1>1, <1>2, <1>4, InterleaverAssumption DEF TypeOK
  <2> QED
    BY <1>6, <1>10, <2>1, <2>2, <2>3, <2>4 DEF TypeOK
<1>15. /\ \A r \in Rows, c \in Cols : c \in mask'[r] =>
            matrix'[r][c].packet_id = row_key'[r] /\ matrix'[r][c].fec_id = c
       /\ \A r, t \in assigned' : row_key'[r] = row_key'[t] => r = t
  <2>1. ASSUME NEW r \in Rows, NEW c \in Cols, c \in mask'[r]
        PROVE  matrix'[r][c].packet_id = row_key'[r] /\ matrix'[r][c].fec_id = c
    <3>1. CASE r = row /\ c = sym.fec_id
      BY <1>7, <3>1
    <3>2. CASE ~(r = row /\ c = sym.fec_id)
      <4>1. c \in mask[r] /\ matrix'[r][c] = matrix[r][c]
        BY <1>7, <2>1, <3>2
      <4>2. matrix[r][c].packet_id = row_key[r] /\ matrix[r][c].fec_id = c
        BY <1>4, <4>1 DEF RowIsBlock
      <4>3. r = row => row \in assigned
        BY <1>4, <4>1 DEF Filling
      <4> QED
        BY <1>1, <1>7, <4>1, <4>2, <4>3
    <3> QED
      BY <3>1, <3>2
  <2>2. ASSUME NEW r \in assigned', NEW t \in assigned', row_key'[r] = row_key'[t]
        PROVE  r = t
    <3>1. r \in Rows /\ t \in Rows /\ r \in assigned \cup {row} /\ t \in assigned \cup {row}
      BY <1>2, <1>6
    <3> QED
      BY <1>1, <1>4, <1>7, <2>2, <3>1 DEF RowIsBlock
  <2> QED
    BY <2>1, <2>2
<1>16. RowIsBlock'
  BY <1>15 DEF RowIsBlock
<1>17. owed' = {matrix'[p[1]][p[2]] : p \in {q \in Squares : q[2] \in mask'[q[1]]}}
  <2>1. ASSUME NEW x \in owed' PROVE \E p \in Squares : p[2] \in mask'[p[1]] /\ x = matrix'[p[1]][p[2]]
    <3>1. CASE x = sym
      <4>1. <<row, sym.fec_id>> \in Squares
        BY <1>1, <1>5 DEF Squares
      <4> QED
        BY <1>1, <1>5, <1>7, <3>1, <4>1
    <3>2. CASE x \in owed
      <4>1. PICK p \in Squares : p[2] \in mask[p[1]] /\ x = matrix[p[1]][p[2]]
        BY <1>4, <3>2 DEF Filling
      <4>2. p[1] \in Rows /\ p[2] \in Cols
        BY DEF Squares
      <4>3. ~(p[1] = row /\ p[2] = sym.fec_id)
        BY <1>1, <4>1
      <4> QED
        BY <1>7, <4>1, <4>2, <4>3
    <3> QED
      BY <1>2, <2>1, <3>1, <3>2
  <2>2. ASSUME NEW p \in Squares, p[2] \in mask'[p[1]] PROVE matrix'[p[1]][p[2]] \in owed'
    <3>1. p[1] \in Rows /\ p[2] \in Cols
      BY DEF Squares
    <3>2. CASE p[1] = row /\ p[2] = sym.fec_id
      BY <1>2, <1>7, <3>1, <3>2
    <3>3. CASE ~(p[1] = row /\ p[2] = sym.fec_id)
      <4>1. p[2] \in mask[p[1]] /\ matrix'[p[1]][p[2]] = matrix[p[1]][p[2]]
        BY <1>7, <2>2, <3>1, <3>3
      <4>2. matrix[p[1]][p[2]] \in owed
        BY <1>4, <4>1 DEF Filling
      <4> QED
        BY <1>2, <4>1, <4>2
    <3> QED
      BY <3>2, <3>3
  <2> QED
    BY <2>1, <2>2
<1>18. CASE ~ready'
  <2>1. ASSUME NEW r \in Rows \ assigned' PROVE mask'[r] = {} /\ row_key'[r] = ZeroKey
    BY <1>2, <1>4, <1>7 DEF Filling
  <2>2. Filling'
    BY <1>1, <1>2, <1>4, <1>17, <2>1 DEF Filling
  <2>3. DrainIsExact'
    BY <1>2, <1>18 DEF DrainIsExact
  <2> QED
    BY <1>13, <1>14, <1>16, <1>18, <2>2, <2>3 DEF IInv, WindowIsSound
<1>19. CASE ready'
  <2>1. Full' = Rows
    <3>1. Full' \subseteq Rows
      BY DEF Full
    <3> QED
      BY <1>10, <1>12, <1>19, <3>1, FullCounted
  <2>2. \A r \in Rows : mask'[r] = Cols
    BY <2>1 DEF Full
  <2>3. \A r \in Rows : r \in assigned'
    <3>1. ASSUME NEW r \in Rows, r \notin assigned' PROVE FALSE
      <4>1. r # row /\ r \notin assigned
        BY <1>2, <3>1
      <4>2. mask'[r] = {}
        BY <1>4, <1>7, <4>1 DEF Filling
      <4> QED
        BY <2>2, <4>2, RowsFinite
    <3> QED
      BY <3>1
  <2>4. Reading'
    <3>1. ASSUME NEW r \in Rows, NEW t \in Rows, NEW c \in Cols, r # t
          PROVE  matrix'[r][c] # matrix'[t][c]
      BY <1>15, <2>2, <2>3, <3>1
    <3> QED
      BY <1>2, <2>2, <3>1 DEF Reading
  <2>5. DrainIsExact'
    <3>1. pop_row' = 0 /\ pop_col' = 0
      BY <1>2, <1>4 DEF Filling
    <3>2. Unread' = Squares
      BY <3>1, AllAhead DEF Unread, Squares
    <3>3. owed' = {matrix'[p[1]][p[2]] : p \in Unread'}
      BY <1>17, <2>2, <3>2 DEF Squares
    <3> QED
      BY <1>2, <3>3 DEF DrainIsExact
  <2> QED
    BY <1>13, <1>14, <1>16, <1>19, <2>4, <2>5 DEF IInv, WindowIsSound
<1> QED
  BY <1>18, <1>19

-----------------------------------------------------------------------------
(* interleaver_tick()                                                        *)

\* The flush timer completes every row with padding and opens the window.
LEMMA FlushStep ==
  ASSUME IInv, Flush
  PROVE  IInv'
<1>1. ~ready /\ hasData
  BY DEF Flush, FlushDue
<1>2. TypeOK /\ RowIsBlock /\ Filling
  BY <1>1 DEF IInv, WindowIsSound
<1>3. /\ matrix' = [r \in Rows |-> ForceFill(r)] /\ mask' = [r \in Rows |-> Cols]
      /\ assigned' = Rows /\ complete' = Depth /\ ready' = TRUE
      /\ pop_row' = 0 /\ pop_col' = 0
      /\ row_key' = row_key /\ blocks' = blocks /\ hasData' = hasData /\ start' = start
      /\ owed' = owed /\ out' = out /\ now' = now
  BY DEF Flush
<1>4. ASSUME NEW r \in Rows, NEW c \in Cols
      PROVE  /\ c \in mask[r] => matrix'[r][c] = matrix[r][c]
             /\ c \notin mask[r] => /\ matrix'[r][c].packet_id = row_key[r]
                                   /\ matrix'[r][c].fec_id = c
                                   /\ matrix'[r][c].body = Padding
  <2>1. matrix'[r][c] = IF c \in mask[r] THEN matrix[r][c]
                        ELSE [packet_id |-> row_key[r], fec_id |-> c, body |-> Padding]
    BY <1>2, <1>3 DEF ForceFill, Filling
  <2> QED
    BY <2>1
<1>5. TypeOK'
  <2>1. ASSUME NEW r \in Rows PROVE ForceFill(r) \in [Cols -> Symbol]
    BY <1>2, InterleaverAssumption DEF ForceFill, TypeOK, Symbol
  <2>2. matrix' \in [Rows -> [Cols -> Symbol]]
    BY <1>3, <2>1
  <2>3. mask' \in [Rows -> SUBSET Cols] /\ assigned' \subseteq Rows /\ complete' \in 0 .. Depth
        /\ ready' \in BOOLEAN /\ pop_row' \in Rows /\ pop_col' \in Cols
    BY <1>3, RowsFinite, InterleaverAssumption
  <2> QED
    BY <1>2, <1>3, <2>2, <2>3 DEF TypeOK
<1>6. RowIsBlock'
  <2>1. ASSUME NEW r \in Rows, NEW c \in Cols
        PROVE  matrix'[r][c].packet_id = row_key[r] /\ matrix'[r][c].fec_id = c
    <3>1. CASE c \in mask[r]
      BY <1>2, <1>4, <3>1 DEF RowIsBlock
    <3>2. CASE c \notin mask[r]
      BY <1>4, <3>2
    <3> QED
      BY <3>1, <3>2
  <2> QED
    BY <1>3, <2>1 DEF RowIsBlock
<1>7. ReadyIsComplete'
  <2>1. Full' = Rows
    BY <1>3 DEF Full
  <2> QED
    BY <1>3, <2>1, RowsFinite DEF ReadyIsComplete, Full
<1>8. DrainIsExact'
  <2>1. Unread' = Squares
    BY <1>3, AllAhead DEF Unread, Squares
  <2>2. ASSUME NEW x \in owed PROVE \E p \in Squares : x = matrix'[p[1]][p[2]]
    <3>1. PICK p \in Squares : p[2] \in mask[p[1]] /\ x = matrix[p[1]][p[2]]
      BY <1>2, <2>2 DEF Filling
    <3> QED
      BY <1>4, <3>1 DEF Squares
  <2>3. ASSUME NEW p \in Squares, matrix'[p[1]][p[2]] \notin owed
        PROVE  matrix'[p[1]][p[2]].body = Padding
    <3>1. p[1] \in Rows /\ p[2] \in Cols
      BY DEF Squares
    <3>2. p[2] \notin mask[p[1]]
      BY <1>2, <1>4, <2>3, <3>1 DEF Filling
    <3> QED
      BY <1>4, <3>1, <3>2
  <2> QED
    BY <1>1, <1>3, <2>1, <2>2, <2>3 DEF DrainIsExact
<1>9. Reading'
  <2>1. ASSUME NEW r \in Rows, NEW t \in Rows, NEW c \in Cols,
               r # t, matrix'[r][c] = matrix'[t][c]
        PROVE  matrix'[r][c].body = Padding
    <3>1. CASE c \notin mask[r] \/ c \notin mask[t]
      <4>1. c \notin mask[r] => matrix'[r][c].body = Padding
        BY <1>4
      <4>2. c \notin mask[t] => matrix'[t][c].body = Padding
        BY <1>4
      <4> QED
        BY <2>1, <3>1, <4>1, <4>2
    <3>2. CASE c \in mask[r] /\ c \in mask[t]
      <4>1. r \in assigned /\ t \in assigned
        BY <1>2, <3>2 DEF Filling
      <4>2. matrix[r][c] = matrix[t][c]
        BY <1>4, <2>1, <3>2
      <4> QED
        BY <1>1, <1>2, <2>1, <3>2, <4>1, <4>2 DEF RowIsBlock
    <3> QED
      BY <3>1, <3>2
  <2> QED
    BY <1>1, <1>3, <2>1 DEF Reading
<1> QED
  BY <1>3, <1>5, <1>6, <1>7, <1>8, <1>9 DEF IInv, WindowIsSound

-----------------------------------------------------------------------------
(* interleaver_pop_ready_symbol()                                            *)

\* A pop takes one cell off what is unread and owed; the last one resets the window.
LEMMA PopStep ==
  ASSUME IInv, Pop
  PROVE  IInv'
<1>1. ready /\ TypeOK /\ RowIsBlock /\ ReadyIsComplete /\ DrainIsExact /\ Reading
  BY DEF Pop, IInv, WindowIsSound
<1>2. /\ owed' = owed \ {PopCell} /\ out' = Append(out, PopCell)
      /\ matrix' = matrix /\ now' = now
  BY DEF Pop
<1> DEFINE at == <<pop_row, pop_col>>
<1>3. /\ pop_row \in Rows /\ pop_col \in Cols /\ at \in Unread
      /\ PopCell = matrix[at[1]][at[2]] /\ PopCell \in Symbol
  <2>1. pop_row \in Rows /\ pop_col \in Cols /\ matrix \in [Rows -> [Cols -> Symbol]]
    BY <1>1 DEF TypeOK
  <2>2. pop_row \in Nat /\ pop_col \in Nat
    BY <2>1, RowsFinite
  <2>3. pop_row >= pop_row
    BY <2>2
  <2>4. at \in Unread
    BY <2>1, <2>3 DEF Unread
  <2> QED
    BY <2>1, <2>4 DEF PopCell
<1>4. out' \in Seq(Symbol)
  BY <1>1, <1>2, <1>3 DEF TypeOK
<1>5. CASE LastPop
  <2>1. ResetWindow
    BY <1>5 DEF Pop
  <2>2. Unread = {at}
    BY <1>3, <1>5, InterleaverAssumption DEF Unread, LastPop, Rows, Cols
  <2>3. owed \subseteq {PopCell}
    BY <1>1, <1>3, <2>2 DEF DrainIsExact
  <2> QED
    BY <1>2, <1>4, <2>1, <2>3, ResetStep
<1>6. CASE ~LastPop
  <2>1. /\ pop_row' = (pop_row + 1) % Depth
        /\ pop_col' = IF pop_row + 1 = Depth THEN pop_col + 1 ELSE pop_col
        /\ mask' = mask /\ row_key' = row_key /\ assigned' = assigned /\ blocks' = blocks
        /\ complete' = complete /\ hasData' = hasData /\ start' = start /\ ready' = ready
    BY <1>6 DEF Pop
  <2>2. pop_row' = IF pop_row + 1 = Depth THEN 0 ELSE pop_row + 1
    <3>1. CASE pop_row + 1 = Depth
      <4>1. Depth % Depth = 0
        BY InterleaverAssumption
      <4> QED
        BY <2>1, <3>1, <4>1
    <3>2. CASE pop_row + 1 # Depth
      BY <1>3, <2>1, <3>2, InterleaverAssumption DEF Rows
    <3> QED
      BY <3>1, <3>2
  <2>3. pop_row' \in Rows /\ pop_col' \in Cols
    BY <1>3, <1>6, <2>1, <2>2, InterleaverAssumption DEF Rows, Cols, LastPop
  <2>4. Unread' = Unread \ {at}
    <3>1. ASSUME NEW p \in Rows \X Cols
          PROVE  (p[2] > pop_col' \/ (p[2] = pop_col' /\ p[1] >= pop_row'))
                   <=> (p[2] > pop_col \/ (p[2] = pop_col /\ p[1] >= pop_row)) /\ p # at
      <4>1. p = <<p[1], p[2]>> /\ p[1] \in Rows /\ p[2] \in Cols
        OBVIOUS
      <4>2. p # at <=> p[1] # pop_row \/ p[2] # pop_col
        BY <4>1
      <4> QED
        BY <1>3, <2>1, <2>2, <4>1, <4>2, InterleaverAssumption DEF Rows, Cols
    <3> QED
      BY <3>1 DEF Unread
  <2>5. TypeOK'
    BY <1>1, <1>2, <1>4, <2>1, <2>3 DEF TypeOK
  <2>6. RowIsBlock' /\ Reading' /\ ReadyIsComplete'
    BY <1>1, <1>2, <2>1 DEF RowIsBlock, Reading, ReadyIsComplete
  <2>7. DrainIsExact'
    <3> DEFINE unread == {matrix[p[1]][p[2]] : p \in Unread}
               rest   == {matrix[p[1]][p[2]] : p \in Unread'}
    <3>1. owed \subseteq unread /\ \A x \in unread \ owed : x.body = Padding
      BY <1>1 DEF DrainIsExact
    <3>2. unread \subseteq rest \cup {PopCell} /\ rest \subseteq unread
      BY <1>3, <2>4
    <3>3. ASSUME PopCell \in rest PROVE PopCell.body = Padding
      <4>1. PICK p \in Unread : p # at /\ matrix[p[1]][p[2]] = PopCell
        BY <2>4, <3>3
      <4>2. p[1] \in Rows /\ p[2] \in Cols /\ p = <<p[1], p[2]>>
        BY DEF Unread
      <4>3. PopCell.fec_id = p[2] /\ PopCell.fec_id = pop_col
        BY <1>1, <1>3, <4>1, <4>2 DEF RowIsBlock, Reading
      <4>4. p[1] # pop_row /\ matrix[p[1]][pop_col] = matrix[pop_row][pop_col]
        BY <1>3, <4>1, <4>2, <4>3
      <4> QED
        BY <1>1, <1>3, <4>1, <4>2, <4>3, <4>4 DEF Reading
    <3>4. owed' \subseteq rest /\ \A x \in rest \ owed' : x.body = Padding
      BY <1>2, <3>1, <3>2, <3>3
    <3>5. hasData'
      BY <1>1, <2>1 DEF Reading
    <3> QED
      BY <1>2, <3>4, <3>5 DEF DrainIsExact
  <2> QED
    BY <1>1, <2>1, <2>5, <2>6, <2>7 DEF IInv, WindowIsSound
<1> QED
  BY <1>5, <1>6

-----------------------------------------------------------------------------
\* Every operation of the interleaver keeps the invariant.
LEMMA WindowStep == IInv /\ [Next]_vars => IInv'
<1> SUFFICES ASSUME IInv, [Next]_vars PROVE IInv'
  OBVIOUS
<1>1. ASSUME NEW sym \in Symbols, Push(sym) PROVE IInv'
  BY <1>1, PushStep
<1>2. CASE Flush
  BY <1>2, FlushStep
<1>3. CASE Pop
  BY <1>3, PopStep
<1>4. CASE Advance \/ UNCHANGED vars
  <2>1. UNCHANGED <<matrix, window, owed, out>> /\ now' \in Nat
    BY <1>4 DEF Advance, vars, IInv, WindowIsSound, TypeOK
  <2> QED
    BY <2>1 DEF window, IInv, WindowIsSound, TypeOK, RowIsBlock, DrainIsExact, Unread,
       ReadyIsComplete, Filling, Reading
<1> QED
  BY <1>1, <1>2, <1>3, <1>4 DEF Next

\* Whatever is pushed, flushed and read in whatever order: a row is one block,
\* reset_window() may leave the matrix alone, and what is read of a window is
\* what was accepted in it, and padding.
THEOREM WindowsAreSound == Spec => []WindowIsSound
<1>1. IInv => WindowIsSound
  BY DEF IInv
<1> QED
  BY <1>1, WindowInit, WindowStep, PTL DEF Spec

-----------------------------------------------------------------------------
(* Bursts on the wire                                                        *)

\* No block has two rows.
KeysApart ==
  \A r, t \in Rows : row_key[r] = row_key[t] /\ row_key[r] # ZeroKey => r = t

\* Two symbols of a block are a whole number of rounds over the rows apart.
OneRow ==
  \A a, b \in 1 .. Len(out) :
    out[a].packet_id = out[b].packet_id /\ out[a].packet_id # ZeroKey
      => (a - 1) % Depth = (b - 1) % Depth

\* What has been read of the window being read is from its rows in turn; a window
\* that is being filled has forgotten what was read of the last.
ReadInTurn ==
  /\ hasData /\ ~ready => out = <<>>
  /\ ready =>
       /\ Len(out) = pop_col * Depth + pop_row
       /\ \A n \in 1 .. Len(out) : out[n].packet_id = row_key[(n - 1) % Depth]

BurstInv == KeysApart /\ OneRow /\ ReadInTurn

LEMMA BurstInit == Init => BurstInv
<1> SUFFICES ASSUME Init PROVE BurstInv
  OBVIOUS
<1>1. KeysApart
  BY DEF Init, KeysApart
<1>2. out = <<>> /\ 1 .. Len(out) = {} /\ ~ready /\ ~hasData
  BY DEF Init
<1>3. OneRow /\ ReadInTurn
  BY <1>2 DEF OneRow, ReadInTurn
<1> QED BY <1>1, <1>3 DEF BurstInv

\* The row a block is given is nobody's, and nothing has been read of the window.
LEMMA BurstPush ==
  ASSUME IInv, BurstInv, NEW sym \in Symbols, Push(sym)
  PROVE  BurstInv'
<1> DEFINE row == ResolveRow(sym.packet_id)
<1>1. /\ row \in Rows /\ ~ready
      /\ row \in assigned => row_key[row] = sym.packet_id
      /\ \A t \in assigned \ {row} : row_key[t] # sym.packet_id
  BY PushRow
<1>2. row_key' = [row_key EXCEPT ![row] = sym.packet_id] /\ row_key \in [Rows -> Keys]
  BY DEF Push, IInv, WindowIsSound, TypeOK
<1>3. \A t \in Rows \ assigned : row_key[t] = ZeroKey
  BY <1>1 DEF IInv, Filling
<1>4. hasData' /\ pop_row' = pop_row /\ pop_col' = pop_col /\ pop_row = 0 /\ pop_col = 0
  BY <1>1 DEF Push, IInv, Filling
<1> HIDE DEF row
<1>5. KeysApart'
  <2> SUFFICES ASSUME NEW r \in Rows, NEW t \in Rows, row_key'[r] = row_key'[t],
                      row_key'[r] # ZeroKey, r # t
               PROVE  FALSE
    BY DEF KeysApart
  <2>1. \A x \in Rows : row_key'[x] = IF x = row THEN sym.packet_id ELSE row_key[x]
    BY <1>1, <1>2
  <2>2. CASE r # row /\ t # row
    BY <2>1, <2>2 DEF BurstInv, KeysApart
  <2>3. CASE r = row
    BY <1>1, <1>3, <2>1, <2>3
  <2>4. CASE t = row
    BY <1>1, <1>3, <2>1, <2>4
  <2> QED BY <2>2, <2>3, <2>4
<1>6. out' = <<>>
  BY <1>1 DEF Push, BurstInv, ReadInTurn
<1>7. Len(out') = 0 /\ 1 .. Len(out') = {}
  BY <1>6
<1>8. 0 * Depth + 0 = 0
  BY InterleaverAssumption
<1>9. OneRow' /\ ReadInTurn'
  BY <1>4, <1>6, <1>7, <1>8 DEF OneRow, ReadInTurn
<1> QED BY <1>5, <1>9 DEF BurstInv

\* The rows keep their keys, and nothing has been read yet.
LEMMA BurstFlush ==
  ASSUME IInv, BurstInv, Flush
  PROVE  BurstInv'
<1>1. /\ row_key' = row_key /\ out' = out /\ ready' /\ pop_row' = 0 /\ pop_col' = 0
      /\ hasData /\ ~ready
  BY DEF Flush, FlushDue
<1>2. out' = <<>>
  BY <1>1 DEF BurstInv, ReadInTurn
<1>3. Len(out') = 0 /\ 1 .. Len(out') = {} /\ 0 * Depth + 0 = 0
  BY <1>2, InterleaverAssumption
<1>4. OneRow' /\ ReadInTurn'
  BY <1>1, <1>3 DEF OneRow, ReadInTurn
<1> QED BY <1>1, <1>4 DEF BurstInv, KeysApart

\* The cell read next is of the row whose turn it is.
LEMMA BurstPop ==
  ASSUME IInv, BurstInv, Pop
  PROVE  BurstInv'
<1> DEFINE n == Len(out)
<1>1. /\ ready /\ out \in Seq(Symbol) /\ n \in Nat
      /\ Depth \in Nat \ {0} /\ pop_row \in 0 .. Depth - 1 /\ pop_col \in Nat
      /\ n = pop_col * Depth + pop_row
  <2>1. ready /\ TypeOK
    BY DEF Pop, IInv, WindowIsSound
  <2>2. pop_col \in Nat /\ out \in Seq(Symbol)
    BY <2>1, RowsFinite DEF TypeOK
  <2> QED
    BY <2>1, <2>2, InterleaverAssumption DEF TypeOK, Rows, BurstInv, ReadInTurn
<1>2. n % Depth = pop_row
  <2>1. (pop_col * Depth + pop_row) % Depth = pop_row
    <3>1. pop_col \in Int /\ pop_row \in 0 .. Depth - 1 /\ Depth \in Nat \ {0}
      BY <1>1
    <3> QED BY <3>1, ModUnique
  <2> QED BY <1>1, <2>1
<1>3. PopCell.packet_id = row_key[pop_row] /\ PopCell \in Symbol
  <2>1. pop_row \in Rows /\ pop_col \in Cols /\ pop_col \in mask[pop_row]
        /\ matrix \in [Rows -> [Cols -> Symbol]]
    BY <1>1 DEF IInv, Reading, WindowIsSound, TypeOK
  <2> QED BY <2>1 DEF IInv, WindowIsSound, RowIsBlock, PopCell
<1>4. out' = Append(out, PopCell) /\ Len(out') = n + 1 /\ 1 .. Len(out') = 1 .. n + 1
      /\ out'[n + 1] = PopCell /\ \A a \in 1 .. n : out'[a] = out[a]
  BY <1>1, <1>3 DEF Pop
<1>5. \A a \in 1 .. n + 1 : out'[a].packet_id = row_key[(a - 1) % Depth]
                            /\ (a - 1) % Depth \in Rows
  <2> SUFFICES ASSUME NEW a \in 1 .. n + 1
               PROVE  out'[a].packet_id = row_key[(a - 1) % Depth] /\ (a - 1) % Depth \in Rows
    OBVIOUS
  <2>1. (a - 1) % Depth \in Rows
    BY <1>1, ModRange DEF Rows
  <2>2. CASE a \in 1 .. n
    BY <1>1, <1>4, <2>1, <2>2 DEF BurstInv, ReadInTurn
  <2>3. CASE a = n + 1
    <3>1. a - 1 = n
      BY <1>1, <2>3
    <3> QED BY <1>2, <1>3, <1>4, <2>1, <2>3, <3>1
  <2>4. a \in 1 .. n \/ a = n + 1
    BY <1>1
  <2> QED BY <2>2, <2>3, <2>4
<1>6. OneRow'
  <2> SUFFICES ASSUME NEW a \in 1 .. n + 1, NEW b \in 1 .. n + 1,
                      out'[a].packet_id = out'[b].packet_id, out'[a].packet_id # ZeroKey
               PROVE  (a - 1) % Depth = (b - 1) % Depth
    BY <1>4 DEF OneRow
  <2> DEFINE ra == (a - 1) % Depth
             rb == (b - 1) % Depth
  <2>1. row_key[ra] = row_key[rb] /\ row_key[ra] # ZeroKey /\ ra \in Rows /\ rb \in Rows
    BY <1>5
  <2> HIDE DEF ra, rb
  <2>2. ra = rb
    BY <2>1 DEF BurstInv, KeysApart
  <2> QED BY <2>2 DEF ra, rb
<1>7. CASE LastPop
  <2>1. row_key' = [r \in Rows |-> ZeroKey] /\ ~ready' /\ ~hasData'
    BY <1>7 DEF Pop, ResetWindow
  <2> QED BY <1>6, <2>1 DEF BurstInv, KeysApart, ReadInTurn
<1>8. CASE ~LastPop
  <2>1. /\ row_key' = row_key /\ ready' = ready
        /\ pop_row' = (pop_row + 1) % Depth
        /\ pop_col' = IF pop_row + 1 = Depth THEN pop_col + 1 ELSE pop_col
    BY <1>8 DEF Pop
  <2>2. pop_col' * Depth + pop_row' = n + 1
    <3>1. CASE pop_row + 1 = Depth
      <4>1. Depth % Depth = 0
        BY <1>1
      <4>2. pop_row' = 0 /\ pop_col' = pop_col + 1
        BY <2>1, <3>1, <4>1
      <4>3. (pop_col + 1) * Depth = pop_col * Depth + Depth
        BY <1>1
      <4>4. pop_col * Depth \in Int
        BY <1>1
      <4> QED BY <1>1, <3>1, <4>2, <4>3, <4>4
    <3>2. CASE pop_row + 1 # Depth
      <4>1. pop_row' = pop_row + 1 /\ pop_col' = pop_col
        BY <1>1, <2>1, <3>2
      <4>2. pop_col * Depth \in Int
        BY <1>1
      <4> QED BY <1>1, <4>1, <4>2
    <3> QED BY <3>1, <3>2
  <2>3. KeysApart'
    BY <2>1 DEF BurstInv, KeysApart
  <2>4. ReadInTurn'
    BY <1>1, <1>4, <1>5, <2>1, <2>2 DEF ReadInTurn
  <2> QED BY <1>6, <2>3, <2>4 DEF BurstInv
<1> QED BY <1>7, <1>8

LEMMA BurstStep == IInv /\ BurstInv /\ [Next]_vars => BurstInv'
<1> SUFFICES ASSUME IInv, BurstInv, [Next]_vars PROVE BurstInv'
  OBVIOUS
<1>1. CASE Advance \/ UNCHANGED vars
  BY <1>1 DEF Advance, vars, window, BurstInv, KeysApart, OneRow, ReadInTurn
<1> QED
  BY <1>1, BurstPush, BurstFlush, BurstPop DEF Next

\* Of m rounds over the rows, m places at most are of one row.
LEMMA OnePerRound ==
  ASSUME NEW i \in Nat, NEW j \in Nat, NEW m \in Nat, j - i + 1 <= m * Depth,
         NEW S, S \subseteq i .. j,
         \A a, b \in S : (a - 1) % Depth = (b - 1) % Depth
  PROVE  IsFiniteSet(S) /\ Cardinality(S) <= m
<1> DEFINE f == [a \in S |-> (a - i) \div Depth]
<1>1. Depth \in Nat \ {0}
  BY InterleaverAssumption
<1>2. ASSUME NEW a \in S
      PROVE  /\ a \in Nat /\ i <= a /\ a <= j /\ f[a] \in 0 .. m - 1
             /\ (a - i) = f[a] * Depth + ((a - i) % Depth) /\ (a - i) % Depth \in 0 .. Depth - 1
  <2> DEFINE q == (a - i) \div Depth
             d == (a - i) % Depth
  <2>1. a \in Nat /\ i <= a /\ a <= j /\ a - i \in Nat
    BY <1>2
  <2>2. q \in Int /\ d \in 0 .. Depth - 1 /\ a - i = q * Depth + d
    BY <1>1, <2>1
  <2>3. f[a] = q
    OBVIOUS
  <2> HIDE DEF q, d, f
  <2>4. m * Depth \in Nat /\ q * Depth \in Int
    BY <1>1, <2>2
  <2>5. q >= 0
    <3> SUFFICES ASSUME q <= -1 PROVE FALSE
      BY <2>2
    <3>1. q * Depth <= (-1) * Depth
      BY <1>1, <2>2, TimesGrows
    <3>2. (-1) * Depth = -Depth
      BY <1>1
    <3> QED BY <1>1, <2>1, <2>2, <2>4, <3>1, <3>2
  <2>6. q <= m - 1
    <3> SUFFICES ASSUME m <= q PROVE FALSE
      BY <2>2
    <3>1. m * Depth <= q * Depth
      BY <1>1, <2>2, TimesGrows
    <3> QED BY <1>1, <2>1, <2>2, <2>4, <3>1
  <2>7. q \in 0 .. m - 1
    BY <2>2, <2>5, <2>6
  <2>8. d = (a - i) % Depth
    BY DEF d
  <2>9. f[a] * Depth = q * Depth
    BY <2>3, Zenon
  <2>10. a - i = f[a] * Depth + d
    BY <2>2, <2>9, Zenon
  <2>11. f[a] \in 0 .. m - 1
    BY <2>3, <2>7, Zenon
  <2>12. a - i = f[a] * Depth + ((a - i) % Depth) /\ (a - i) % Depth \in 0 .. Depth - 1
    BY <2>2, <2>8, <2>10, Zenon
  <2> QED BY <2>1, <2>11, <2>12
<1>3. ASSUME NEW a \in S, NEW b \in S, f[a] = f[b] PROVE a = b
  <2> DEFINE q == f[a] * Depth
             da == (a - i) % Depth
             db == (b - i) % Depth
  <2>1. /\ a \in Nat /\ b \in Nat /\ q \in Int /\ a - i = q + da /\ b - i = q + db
        /\ da \in 0 .. Depth - 1 /\ db \in 0 .. Depth - 1
    <3>1. a - i = q + da /\ da \in 0 .. Depth - 1 /\ a \in Nat
      BY <1>2
    <3>2. b - i = f[b] * Depth + db /\ db \in 0 .. Depth - 1 /\ b \in Nat
      BY <1>2
    <3>3. f[b] * Depth = q
      BY <1>3, Zenon
    <3>4. b - i = q + db
      BY <3>2, <3>3, Zenon
    <3>5. f[a] \in 0 .. m - 1
      BY <1>2
    <3> HIDE DEF f
    <3>6. q \in Int
      BY <1>1, <3>5
    <3> QED BY <3>1, <3>2, <3>4, <3>6, Zenon
  <2> HIDE DEF q, da, db, f
  <2> DEFINE x == a - 1
             y == b - 1
  <2>2. x \in Int /\ y \in Int /\ x < y + Depth /\ y < x + Depth /\ (x = y => a = b)
    BY <1>1, <2>1
  <2>3. x % Depth = y % Depth
    BY <1>3
  <2> HIDE DEF x, y
  <2>4. ~(x < y)
    BY <1>1, <2>2, <2>3, ModApart
  <2>5. ~(y < x)
    BY <1>1, <2>2, <2>3, ModApart
  <2> QED BY <2>2, <2>4, <2>5
<1>4. f \in Injection(S, 0 .. m - 1)
  <2>1. f \in [S -> 0 .. m - 1]
    BY <1>2
  <2> QED BY <1>3, <2>1 DEF Injection, IsInjective
<1>5. IsFiniteSet(0 .. m - 1) /\ Cardinality(0 .. m - 1) = m
  <2>1. 0 \in Int /\ m - 1 \in Int /\ (IF 0 > m - 1 THEN 0 ELSE m - 1 - 0 + 1) = m
    OBVIOUS
  <2> QED BY <2>1, FS_Interval
<1> HIDE DEF f
<1> QED BY <1>4, <1>5, FS_Injection

\* The part of BurstsAreRecoverable that is about the wire
BurstsSpread ==
  \A m \in 0 .. N, i, j \in DOMAIN out :
    i <= j /\ j - i + 1 <= RecoverySpan(m, Depth) =>
      \A key \in Keys \ {ZeroKey} :
        Cardinality({n \in i .. j : out[n].packet_id = key}) <= m

LEMMA BurstsAreSpread == IInv /\ BurstInv => BurstsSpread
<1> SUFFICES ASSUME IInv, BurstInv, NEW m \in 0 .. N, NEW i \in DOMAIN out, NEW j \in DOMAIN out,
                    i <= j, j - i + 1 <= RecoverySpan(m, Depth), NEW key \in Keys \ {ZeroKey}
             PROVE  Cardinality({n \in i .. j : out[n].packet_id = key}) <= m
  BY DEF BurstsSpread
<1> DEFINE S == {n \in i .. j : out[n].packet_id = key}
<1>1. DOMAIN out = 1 .. Len(out) /\ Len(out) \in Nat
  BY DEF IInv, WindowIsSound, TypeOK
<1>2. i \in 1 .. Len(out) /\ j \in 1 .. Len(out) /\ i \in Nat /\ j \in Nat /\ m \in Nat
  BY <1>1, InterleaverAssumption
<1>3. i .. j \subseteq 1 .. Len(out) /\ j - i + 1 <= m * Depth
  BY <1>1, <1>2 DEF RecoverySpan
<1>4. \A a, b \in S : (a - 1) % Depth = (b - 1) % Depth
  BY <1>3 DEF BurstInv, OneRow
<1>5. S \subseteq i .. j
  OBVIOUS
<1> HIDE DEF S
<1>6. Cardinality(S) <= m
  BY <1>2, <1>3, <1>4, <1>5, OnePerRound
<1> QED BY <1>6 DEF S

-----------------------------------------------------------------------------
(* What the page says of bursts, and its drawing                             *)

\* How many thresholds a length is above says which counter it adds to.
LEMMA BucketIs ==
  ASSUME NEW len \in Nat, NEW j \in 0 .. 6, \A b \in 1 .. 6 : len > Thresholds[b] <=> b <= j
  PROVE  Bucket(len) = j + 1
<1>1. DOMAIN Thresholds = 1 .. 6
  BY DEF Thresholds
<1>2. {b \in DOMAIN Thresholds : len > Thresholds[b]} = 1 .. j
  BY <1>1
<1>3. Cardinality(1 .. j) = j
  <2>1. 1 \in Int /\ j \in Int /\ (IF 1 > j THEN 0 ELSE j - 1 + 1) = j
    OBVIOUS
  <2> QED BY <2>1, FS_Interval
<1> DEFINE above == {b \in DOMAIN Thresholds : len > Thresholds[b]}
<1>4. Bucket(len) = 1 + Cardinality(above)
  BY DEF Bucket
<1>5. above = 1 .. j
  BY <1>2
<1> HIDE DEF above
<1> QED BY <1>3, <1>4, <1>5

\* Where the bars are drawn, in hundredths
LEMMA BarSpans ==
  /\ DOMAIN Bins = 1 .. 7 /\ Len(Labels) = 7
  /\ BarSpan(1) = <<85, 115>> /\ BarSpan(2) = <<200, 500>> /\ BarSpan(3) = <<600, 1000>>
  /\ BarSpan(4) = <<1100, 5000>> /\ BarSpan(5) = <<5100, 10000>>
  /\ BarSpan(6) = <<10100, 50000>> /\ BarSpan(7) = <<50100, 500000>>
<1>1. DOMAIN Bins = 1 .. 7 /\ Len(Labels) = 7
  BY DEF Bins, Labels
<1>2. BarSpan(1) = <<85, 115>>
  BY DEF BarSpan, Bins, LargerOf, SmallerOf
<1>3. BarSpan(2) = <<200, 500>>
  BY DEF BarSpan, Bins, LargerOf, SmallerOf
<1>4. BarSpan(3) = <<600, 1000>>
  BY DEF BarSpan, Bins, LargerOf, SmallerOf
<1>5. BarSpan(4) = <<1100, 5000>>
  BY DEF BarSpan, Bins, LargerOf, SmallerOf
<1>6. BarSpan(5) = <<5100, 10000>>
  BY DEF BarSpan, Bins, LargerOf, SmallerOf
<1>7. BarSpan(6) = <<10100, 50000>>
  BY DEF BarSpan, Bins, LargerOf, SmallerOf
<1>8. BarSpan(7) = <<50100, 500000>>
  BY DEF BarSpan, Bins, LargerOf, SmallerOf
<1> QED BY <1>1, <1>2, <1>3, <1>4, <1>5, <1>6, <1>7, <1>8

DrawnOnlyAt(len, here) ==
  \A b \in 1 .. 7 : (BarSpan(b)[1] <= 100 * len /\ 100 * len <= BarSpan(b)[2]) <=> b = here

LEMMA BarHolds ==
  ASSUME NEW len \in 1 .. 600
  PROVE  /\ Labels[Bucket(len)][1] <= len
         /\ EndsWithPlus(Bucket(len)) \/ len <= Labels[Bucket(len)][Len(Labels[Bucket(len)])]
         /\ DrawnOnlyAt(len, Bucket(len))
         /\ \A span \in Int : Within(Bucket(len), span) => len <= span
<1> USE DEF Labels, EndsWithPlus, Within
<1>1. CASE len = 1
  <2>1. Bucket(len) = 1
    BY <1>1, BucketIs DEF Thresholds
  <2>2. DrawnOnlyAt(len, 1)
    BY <1>1, BarSpans DEF DrawnOnlyAt
  <2> QED BY <1>1, <2>1, <2>2, SMTT(30)
<1>2. CASE 2 <= len /\ len <= 5
  <2>1. Bucket(len) = 2
    BY <1>2, BucketIs DEF Thresholds
  <2>2. DrawnOnlyAt(len, 2)
    BY <1>2, BarSpans DEF DrawnOnlyAt
  <2> QED BY <1>2, <2>1, <2>2
<1>3. CASE 6 <= len /\ len <= 10
  <2>1. Bucket(len) = 3
    BY <1>3, BucketIs DEF Thresholds
  <2>2. DrawnOnlyAt(len, 3)
    BY <1>3, BarSpans DEF DrawnOnlyAt
  <2> QED BY <1>3, <2>1, <2>2
<1>4. CASE 11 <= len /\ len <= 50
  <2>1. Bucket(len) = 4
    BY <1>4, BucketIs DEF Thresholds
  <2>2. DrawnOnlyAt(len, 4)
    BY <1>4, BarSpans DEF DrawnOnlyAt
  <2> QED BY <1>4, <2>1, <2>2
<1>5. CASE 51 <= len /\ len <= 100
  <2>1. Bucket(len) = 5
    BY <1>5, BucketIs DEF Thresholds
  <2>2. DrawnOnlyAt(len, 5)
    BY <1>5, BarSpans DEF DrawnOnlyAt
  <2> QED BY <1>5, <2>1, <2>2
<1>6. CASE 101 <= len /\ len <= 500
  <2>1. Bucket(len) = 6
    BY <1>6, BucketIs DEF Thresholds
  <2>2. DrawnOnlyAt(len, 6)
    BY <1>6, BarSpans DEF DrawnOnlyAt
  <2> QED BY <1>6, <2>1, <2>2
<1>7. CASE 501 <= len
  <2>1. Bucket(len) = 7
    BY <1>7, BucketIs DEF Thresholds
  <2>2. DrawnOnlyAt(len, 7)
    BY <1>7, BarSpans DEF DrawnOnlyAt
  <2> QED BY <1>7, <2>1, <2>2
<1> QED BY <1>1, <1>2, <1>3, <1>4, <1>5, <1>6, <1>7

LEMMA SpanIs == Spans \subseteq Int
<1> SUFFICES ASSUME NEW m \in 0 .. 8, NEW depth \in {1, 2, 8, 64}
             PROVE  m * depth \in Int
  BY DEF Spans, RecoverySpan
<1>1. m \in Int /\ depth \in Int
  OBVIOUS
<1> QED BY <1>1

LEMMA BarsHold == BarsAreTrue
<1>1. DOMAIN Bins = 1 .. 7
  BY BarSpans
<1>2. \A len \in 1 .. 600 : \A b \in DOMAIN Bins :
        (BarSpan(b)[1] <= 100 * len /\ 100 * len <= BarSpan(b)[2]) <=> b = Bucket(len)
  BY <1>1, BarHolds, Zenon DEF DrawnOnlyAt
<1>3. \A len \in 1 .. 600 : \A span \in Spans : Within(Bucket(len), span) => len <= span
  BY SpanIs, BarHolds, Zenon
<1> QED BY <1>2, <1>3, BarHolds, ZenonT(60) DEF BarsAreTrue

\* The drawing of a matrix, by what covers one of its cells
CoveredOnce(drawn, r, c, k) ==
  LET here == {b \in drawn : b.row = r /\ b.from <= c /\ c < b.to}
  IN Cardinality(here) = 1 /\ \A b \in here : b.repair = (c >= k)

LEMMA CellsCover ==
  ASSUME NEW rows \in Nat, NEW cols \in Nat, NEW k \in Nat,
         NEW r \in 0 .. rows - 1, NEW c \in 0 .. cols - 1
  PROVE  CoveredOnce(Cells(rows, cols, k), r, c, k)
<1> DEFINE cell == [row |-> r, from |-> c, to |-> c + 1, repair |-> c >= k]
           here == {b \in Cells(rows, cols, k) : b.row = r /\ b.from <= c /\ c < b.to}
<1>1. cell \in here
  BY DEF Cells
<1>2. ASSUME NEW b \in here PROVE b = cell
  <2>1. PICK x \in 0 .. rows - 1, y \in 0 .. cols - 1 :
          b = [row |-> x, from |-> y, to |-> y + 1, repair |-> y >= k]
    BY DEF Cells
  <2>2. x = r /\ y = c
    BY <2>1
  <2> QED BY <2>1, <2>2
<1>3. here = {cell}
  BY <1>1, <1>2
<1>4. Cardinality(here) = 1 /\ cell.repair = (c >= k)
  BY <1>3, FS_Singleton
<1> HIDE DEF cell
<1>5. \A b \in here : b.repair = (c >= k)
  BY <1>3, <1>4
<1> QED BY <1>4, <1>5 DEF CoveredOnce

LEMMA BandsCover ==
  ASSUME NEW rows \in Nat, NEW cols \in Nat, NEW k \in Nat \ {0}, k <= cols,
         NEW r \in 0 .. rows - 1, NEW c \in 0 .. cols - 1
  PROVE  CoveredOnce(Bands(rows, cols, k), r, c, k)
<1> DEFINE source == [row |-> r, from |-> 0, to |-> k, repair |-> FALSE]
           repair == [row |-> r, from |-> k, to |-> cols, repair |-> TRUE]
           band == IF c >= k THEN repair ELSE source
           here == {b \in Bands(rows, cols, k) : b.row = r /\ b.from <= c /\ c < b.to}
<1> USE DEF source, repair
<1>1. band \in here
  <2>1. CASE c >= k
    <3>1. repair \in Bands(rows, cols, k)
      <4>1. repair \in [row : 0 .. rows - 1, from : {0, k}, to : {k, cols}, repair : BOOLEAN]
        OBVIOUS
      <4>2. repair.from = k /\ repair.to = cols /\ repair.repair = TRUE /\ k < cols
        BY <2>1
      <4> HIDE DEF source, repair
      <4>3. repair.from < repair.to
        BY <4>2
      <4>4. repair.repair = (repair.from = k)
        BY <4>2, Zenon
      <4>5. repair.to = IF repair.repair THEN cols ELSE k
        BY <4>2, Zenon
      <4> QED BY <4>1, <4>3, <4>4, <4>5, Zenon DEF Bands
    <3>2. repair.row = r /\ repair.from <= c /\ c < repair.to
      BY <2>1
    <3> HIDE DEF source, repair
    <3> QED BY <2>1, <3>1, <3>2
  <2>2. CASE ~(c >= k)
    <3>1. source \in Bands(rows, cols, k)
      <4>1. source \in [row : 0 .. rows - 1, from : {0, k}, to : {k, cols}, repair : BOOLEAN]
        OBVIOUS
      <4>2. source.from = 0 /\ source.to = k /\ source.repair = FALSE /\ 0 < k /\ 0 # k
        OBVIOUS
      <4> HIDE DEF source, repair
      <4>3. source.from < source.to
        BY <4>2
      <4>4. source.repair = (source.from = k)
        BY <4>2, Zenon
      <4>5. source.to = IF source.repair THEN cols ELSE k
        BY <4>2, Zenon
      <4> QED BY <4>1, <4>3, <4>4, <4>5, Zenon DEF Bands
    <3>2. source.row = r /\ source.from <= c /\ c < source.to
      BY <2>2
    <3> HIDE DEF source, repair
    <3> QED BY <2>2, <3>1, <3>2
  <2> QED BY <2>1, <2>2
<1>2. ASSUME NEW b \in here PROVE b = band
  <2>1. /\ b = [row |-> b.row, from |-> b.from, to |-> b.to, repair |-> b.repair]
        /\ b.from \in {0, k} /\ b.repair \in BOOLEAN
        /\ b.repair = (b.from = k) /\ b.to = IF b.repair THEN cols ELSE k
        /\ b.row = r /\ b.from <= c /\ c < b.to
    BY DEF Bands
  <2>2. CASE b.from = k
    <3>0. b.repair = TRUE
      BY <2>1, <2>2, Zenon
    <3>1. b.repair = TRUE /\ b.to = cols /\ c >= k
      BY <2>1, <2>2, <3>0
    <3>2. b = repair
      BY <2>1, <2>2, <3>1, Zenon
    <3> HIDE DEF source, repair
    <3> QED BY <3>1, <3>2
  <2>3. CASE b.from = 0 /\ b.from # k
    <3>0. b.repair = FALSE
      BY <2>1, <2>3, Zenon
    <3>1. b.repair = FALSE /\ b.to = k /\ ~(c >= k)
      BY <2>1, <2>3, <3>0
    <3>2. b = source
      BY <2>1, <2>3, <3>1, Zenon
    <3> HIDE DEF source, repair
    <3> QED BY <3>1, <3>2
  <2> QED BY <2>1, <2>2, <2>3
<1>3. here = {band}
  BY <1>1, <1>2
<1>4. Cardinality(here) = 1 /\ band.repair = (c >= k)
  <2>1. band.repair = (c >= k)
    <3>1. repair.repair = TRUE /\ source.repair = FALSE
      OBVIOUS
    <3>2. CASE c >= k
      <4>1. band = repair /\ repair.repair = TRUE
        BY <3>1, <3>2
      <4> HIDE DEF band, source, repair
      <4> QED BY <3>2, <4>1, Zenon
    <3>3. CASE ~(c >= k)
      <4>1. band = source /\ source.repair = FALSE
        BY <3>1, <3>3
      <4> HIDE DEF band, source, repair
      <4>2. (c >= k) = FALSE
        BY <3>3
      <4>3. band.repair = FALSE
        BY <4>1
      <4> QED BY <4>2, <4>3
    <3> QED BY <3>2, <3>3
  <2> QED BY <1>3, <2>1, FS_Singleton
<1> HIDE DEF band
<1>5. \A b \in here : b.repair = (c >= k)
  BY <1>3, <1>4
<1> QED BY <1>4, <1>5 DEF CoveredOnce

\* A rectangle for each cell of the matrix
LEMMA CellsCount ==
  ASSUME NEW rows \in Nat, NEW cols \in Nat, NEW k \in Nat
  PROVE  IsFiniteSet(Cells(rows, cols, k)) /\ Cardinality(Cells(rows, cols, k)) <= rows * cols
<1> DEFINE R == 0 .. rows - 1
           C == 0 .. cols - 1
           f == [b \in Cells(rows, cols, k) |-> <<b.row, b.from>>]
<1>1. IsFiniteSet(R) /\ Cardinality(R) = rows /\ IsFiniteSet(C) /\ Cardinality(C) = cols
  <2>1. 0 \in Int /\ rows - 1 \in Int /\ (IF 0 > rows - 1 THEN 0 ELSE rows - 1 - 0 + 1) = rows
    OBVIOUS
  <2>2. cols - 1 \in Int /\ (IF 0 > cols - 1 THEN 0 ELSE cols - 1 - 0 + 1) = cols
    OBVIOUS
  <2> QED BY <2>1, <2>2, FS_Interval
<1>2. \A b \in Cells(rows, cols, k) :
        /\ b.row \in R /\ b.from \in C
        /\ b = [row |-> b.row, from |-> b.from, to |-> b.from + 1, repair |-> b.from >= k]
  BY DEF Cells
<1>3. f \in Injection(Cells(rows, cols, k), R \X C)
  <2>1. f \in [Cells(rows, cols, k) -> R \X C]
    BY <1>2
  <2>2. ASSUME NEW a \in Cells(rows, cols, k), NEW b \in Cells(rows, cols, k), f[a] = f[b]
        PROVE  a = b
    <3>1. a.row = b.row /\ a.from = b.from
      BY <2>2
    <3> QED BY <1>2, <3>1
  <2> QED BY <2>1, <2>2 DEF Injection, IsInjective
<1> HIDE DEF R, C, f
<1>4. IsFiniteSet(R \X C) /\ Cardinality(R \X C) = rows * cols
  BY <1>1, FS_Product
<1> QED BY <1>3, <1>4, FS_Injection

\* Two rectangles at most for each row
LEMMA BandsCount ==
  ASSUME NEW rows \in Nat, NEW cols \in Nat, NEW k \in Nat
  PROVE  IsFiniteSet(Bands(rows, cols, k)) /\ Cardinality(Bands(rows, cols, k)) <= 2 * rows
<1> DEFINE R == 0 .. rows - 1
           C == 0 .. 1
           f == [b \in Bands(rows, cols, k) |-> <<b.row, IF b.repair THEN 1 ELSE 0>>]
<1>1. IsFiniteSet(R) /\ Cardinality(R) = rows /\ IsFiniteSet(C) /\ Cardinality(C) = 2
  <2>1. 0 \in Int /\ rows - 1 \in Int /\ (IF 0 > rows - 1 THEN 0 ELSE rows - 1 - 0 + 1) = rows
    OBVIOUS
  <2>2. 1 \in Int /\ (IF 0 > 1 THEN 0 ELSE 1 - 0 + 1) = 2
    OBVIOUS
  <2> QED BY <2>1, <2>2, FS_Interval
<1>2. \A b \in Bands(rows, cols, k) :
        /\ b.row \in R /\ b.repair \in BOOLEAN /\ b.from \in {0, k}
        /\ b = [row |-> b.row, from |-> b.from, to |-> b.to, repair |-> b.repair]
        /\ b.repair = (b.from = k) /\ b.to = IF b.repair THEN cols ELSE k
  BY DEF Bands
<1>3. f \in Injection(Bands(rows, cols, k), R \X C)
  <2>1. f \in [Bands(rows, cols, k) -> R \X C]
    BY <1>2
  <2>2. ASSUME NEW a \in Bands(rows, cols, k), NEW b \in Bands(rows, cols, k), f[a] = f[b]
        PROVE  a = b
    <3>1. a.row = b.row /\ a.repair = b.repair
      BY <1>2, <2>2
    <3>2. a.from = b.from /\ a.to = b.to
      BY <1>2, <3>1
    <3> QED BY <1>2, <3>1, <3>2
  <2> QED BY <2>1, <2>2 DEF Injection, IsInjective
<1> HIDE DEF R, C, f
<1>4. IsFiniteSet(R \X C) /\ Cardinality(R \X C) = rows * 2
  BY <1>1, FS_Product
<1>5. Cardinality(Bands(rows, cols, k)) <= rows * 2 /\ IsFiniteSet(Bands(rows, cols, k))
  BY <1>3, <1>4, FS_Injection
<1> QED BY <1>5

LEMMA DrawingHolds ==
  ASSUME PerCellLimit \in Nat
  PROVE  DrawingIsExact
<1> SUFFICES ASSUME NEW rows \in 1 .. 4, NEW k \in 2 .. 4, NEW m \in 0 .. 3
             PROVE  /\ \A r \in 0 .. rows - 1, c \in 0 .. k + m - 1 :
                         CoveredOnce(Drawing(rows, k + m, k), r, c, k)
                    /\ Cardinality(Drawing(rows, k + m, k))
                         <= IF rows * (k + m) > PerCellLimit THEN 2 * rows ELSE PerCellLimit
  BY DEF DrawingIsExact, CoveredOnce
<1> DEFINE cols == k + m
<1>1. /\ rows \in Nat /\ cols \in Nat /\ k \in Nat \ {0} /\ k <= cols /\ rows * cols \in Nat
      /\ 2 * rows \in Nat
  OBVIOUS
<1> HIDE DEF cols
<1>2. CASE rows * cols > PerCellLimit
  <2>1. Drawing(rows, cols, k) = Bands(rows, cols, k)
    BY <1>2 DEF Drawing
  <2> QED BY <1>1, <1>2, <2>1, BandsCover, BandsCount DEF cols
<1>3. CASE ~(rows * cols > PerCellLimit)
  <2>1. Drawing(rows, cols, k) = Cells(rows, cols, k)
    BY <1>3 DEF Drawing
  <2>2. IsFiniteSet(Cells(rows, cols, k)) /\ Cardinality(Cells(rows, cols, k)) <= rows * cols
    BY <1>1, CellsCount
  <2>3. Cardinality(Cells(rows, cols, k)) \in Nat
    BY <2>2, FS_CardinalityType
  <2>4. Cardinality(Cells(rows, cols, k)) <= PerCellLimit
    BY <1>1, <1>3, <2>2, <2>3
  <2> QED BY <1>1, <1>3, <2>1, <2>4, CellsCover DEF cols
<1> QED BY <1>2, <1>3

\* What interleaver/page.tsx says of bursts holds of interleaver.c for any depth, block
\* length and keys, wherever a burst begins and however the window was closed; and
\* the bars and the drawing of the page are right.
THEOREM BurstsSurvive ==
  ASSUME PerCellLimit \in Nat
  PROVE  Spec => []BurstsAreRecoverable
<1>1. IInv /\ BurstInv => BurstsAreRecoverable
  BY BurstsAreSpread, BarsHold, DrawingHolds DEF BurstsSpread, BurstsAreRecoverable
<1> QED
  BY <1>1, WindowInit, WindowStep, BurstInit, BurstStep, PTL DEF Spec
=============================================================================
