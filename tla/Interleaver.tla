----------------------------- MODULE Interleaver -----------------------------
(***************************************************************************)
(* The transmitter's symbol interleaver, src/interleaver.c: a matrix with  *)
(* one row per FEC block, written as blocks arrive and read column by      *)
(* column, so that neighbours on the wire belong to different blocks.      *)
(*                                                                         *)
(* A push that is refused (Rejects) or dropped as a duplicate, a tick that *)
(* finds nothing to do and a pop that finds no ready window return without *)
(* changing anything: they are stuttering steps.                           *)
(***************************************************************************)
EXTENDS Integers, FiniteSets, Sequences

CONSTANTS
  Depth,         \* rows: FEC blocks in a window
  N,             \* n = k_plus_m: symbols of a block
  FlushTimeout,  \* flush_timeout_ms (0: wait for a full window)
  Keys,          \* values packet_id (the block key) may take
  ZeroKey,       \* the value 0 of packet_id
  Bodies,        \* the rest of a symbol: header fields and payload
  Padding,       \* the body force_fill_row() writes: payload_len 0
  Garbage,       \* what malloc() left in a cell
  Symbols,       \* the symbols the caller may push
  MaxNow         \* bound: last instant of the clock

Rows == 0 .. Depth - 1
Cols == 0 .. N - 1

\* The parameter check of interleaver_create(), and what the model adds.
ASSUME InterleaverAssumption ==
  /\ Depth \in Nat \ {0}
  /\ N \in Nat \ {0}
  /\ FlushTimeout \in Nat
  /\ ZeroKey \in Keys
  /\ Padding \in Bodies
  /\ Garbage \in [packet_id : Keys, fec_id : Cols, body : Bodies]
  /\ Symbols \subseteq [packet_id : Keys, fec_id : Nat, body : Bodies]
  /\ MaxNow \in Nat

VARIABLES
  matrix,     \* matrix[row][col]
  mask,       \* slots[row].received_mask; symbol_count is its cardinality
  row_key,    \* row_block_key
  assigned,   \* the rows with row_assigned set
  blocks,     \* window_block_count
  complete,   \* complete_slots
  hasData,    \* window_has_data
  start,      \* window_start
  ready, pop_row, pop_col,
  owed,       \* history: symbols accepted and not yet popped
  out,        \* history: symbols popped from the current or last window
  now         \* CLOCK_MONOTONIC, in milliseconds

window == <<mask, row_key, assigned, blocks, complete, hasData, start, ready, pop_row, pop_col>>
vars == <<matrix, window, owed, out, now>>

Symbol == [packet_id : Keys, fec_id : Cols, body : Bodies]

-----------------------------------------------------------------------------

Init ==
  /\ matrix = [r \in Rows |-> [c \in Cols |-> Garbage]]
  /\ mask = [r \in Rows |-> {}]
  /\ row_key = [r \in Rows |-> ZeroKey]
  /\ assigned = {}
  /\ blocks = 0 /\ complete = 0
  /\ hasData = FALSE /\ start = 0
  /\ ready = FALSE /\ pop_row = 0 /\ pop_col = 0
  /\ owed = {} /\ out = <<>> /\ now = 0

\* Mutant: the rows stay taken.
ResetWindow_KeepsBlocks ==
  /\ mask' = [r \in Rows |-> {}]
  /\ row_key' = [r \in Rows |-> ZeroKey]
  /\ assigned' = {}
  /\ blocks' = blocks /\ complete' = 0
  /\ hasData' = FALSE /\ start' = 0
  /\ ready' = FALSE /\ pop_row' = 0 /\ pop_col' = 0

\* reset_window(): the matrix keeps its cells
ResetWindow ==
  /\ mask' = [r \in Rows |-> {}]
  /\ row_key' = [r \in Rows |-> ZeroKey]
  /\ assigned' = {}
  /\ blocks' = 0 /\ complete' = 0
  /\ hasData' = FALSE /\ start' = 0
  /\ ready' = FALSE /\ pop_row' = 0 /\ pop_col' = 0

\* find_row_for_block_key()
RowsOf(key) == {r \in assigned : row_key[r] = key}

Lowest(S) == CHOOSE r \in S : \A t \in S : r <= t

\* resolve_row(): the row of the block, or the next free one
ResolveRow(key) == IF RowsOf(key) # {} THEN Lowest(RowsOf(key)) ELSE blocks % Depth

\* The conditions under which push_symbol() returns -1
Rejects(sym) ==
  \/ ready
  \/ sym.fec_id \notin Cols
  \/ RowsOf(sym.packet_id) = {} /\ blocks >= Depth

IsDuplicate(sym) == sym.fec_id \in mask[ResolveRow(sym.packet_id)]

\* interleaver_push_symbol() on a symbol it stores
Push(sym) ==
  LET row   == ResolveRow(sym.packet_id)
      got   == mask[row] \cup {sym.fec_id}
      fills == got = Cols
  IN /\ ~Rejects(sym)
     /\ ~IsDuplicate(sym)
     /\ matrix' = [matrix EXCEPT ![row][sym.fec_id] = sym]
     /\ mask' = [mask EXCEPT ![row] = got]
     /\ row_key' = [row_key EXCEPT ![row] = sym.packet_id]
     /\ assigned' = assigned \cup {row}
     /\ blocks' = IF RowsOf(sym.packet_id) = {} THEN blocks + 1 ELSE blocks
     /\ hasData' = TRUE
     /\ start' = IF hasData THEN start ELSE now
     /\ complete' = IF fills THEN complete + 1 ELSE complete
     /\ ready' = (fills /\ complete + 1 = Depth)
     /\ owed' = owed \cup {sym}
     /\ out' = IF hasData THEN out ELSE <<>>
     /\ UNCHANGED <<pop_row, pop_col, now>>

\* Mutant: one complete row is not enough.
FlushDue_NeedsTwo ==
  FlushTimeout # 0 /\ ~ready /\ hasData /\ complete > 1 /\ now - start >= FlushTimeout

\* The guards of interleaver_tick()
FlushDue ==
  /\ FlushTimeout # 0
  /\ ~ready /\ hasData /\ complete >= 1
  /\ now - start >= FlushTimeout

\* Mutant: only rows some block was assigned to are filled.
ForceFill_AssignedOnly(row) ==
  [c \in Cols |-> IF c \in mask[row] \/ row \notin assigned THEN matrix[row][c]
                  ELSE [packet_id |-> row_key[row], fec_id |-> c, body |-> Padding]]

\* force_fill_row(): the missing cells of a row become padding
ForceFill(row) ==
  LET key == IF row \in assigned THEN row_key[row] ELSE ZeroKey
  IN [c \in Cols |-> IF c \in mask[row] THEN matrix[row][c]
                     ELSE [packet_id |-> key, fec_id |-> c, body |-> Padding]]

\* interleaver_tick() when it returns 1
Flush ==
  /\ FlushDue
  /\ matrix' = [r \in Rows |-> ForceFill(r)]
  /\ mask' = [r \in Rows |-> Cols]
  /\ assigned' = Rows
  /\ complete' = Depth
  /\ ready' = TRUE
  /\ pop_row' = 0 /\ pop_col' = 0
  /\ UNCHANGED <<row_key, blocks, hasData, start, owed, out, now>>

\* Mutant: the window is read row by row.
PopCell_RowMajor ==
  LET i == pop_col * Depth + pop_row IN matrix[i \div N][i % N]

\* interleaver_pop_ready_symbol(): the cell it returns ...
PopCell == matrix[pop_row][pop_col]

\* ... and the call returns 1: the window has been read to its end
LastPop == pop_row = Depth - 1 /\ pop_col = N - 1

Pop ==
  /\ ready
  /\ owed' = owed \ {PopCell}
  /\ out' = Append(out, PopCell)
  /\ \/ LastPop /\ ResetWindow
     \/ /\ ~LastPop
        /\ pop_row' = (pop_row + 1) % Depth
        /\ pop_col' = IF pop_row + 1 = Depth THEN pop_col + 1 ELSE pop_col
        /\ UNCHANGED <<mask, row_key, assigned, blocks, complete, hasData, start, ready>>
  /\ UNCHANGED <<matrix, now>>

Advance == now < MaxNow /\ now' = now + 1 /\ UNCHANGED <<matrix, window, owed, out>>

Next == (\E sym \in Symbols : Push(sym)) \/ Flush \/ Pop \/ Advance

Spec == Init /\ [][Next]_vars

\* tx_pipeline_run_once() ticks on every call and drains every ready window.
FairSpec == Spec /\ WF_vars(Advance) /\ WF_vars(Flush) /\ WF_vars(Pop)

-----------------------------------------------------------------------------

TypeOK ==
  /\ matrix \in [Rows -> [Cols -> Symbol]]
  /\ mask \in [Rows -> SUBSET Cols]
  /\ row_key \in [Rows -> Keys]
  /\ assigned \subseteq Rows
  /\ blocks \in 0 .. Depth /\ complete \in 0 .. Depth
  /\ hasData \in BOOLEAN /\ start \in Nat
  /\ ready \in BOOLEAN /\ pop_row \in Rows /\ pop_col \in Cols
  /\ owed \subseteq Symbol /\ out \in Seq(Symbol)
  /\ now \in Nat

\* Cells the running drain has yet to read
Unread == {p \in Rows \X Cols :
             p[2] > pop_col \/ (p[2] = pop_col /\ p[1] >= pop_row)}

\* A row is one block: its cells hold symbols of its own key at their own
\* fec_id, and no two rows assigned to blocks share a key.
RowIsBlock ==
  /\ \A r \in Rows, c \in Cols : c \in mask[r] =>
       /\ matrix[r][c].packet_id = row_key[r]
       /\ matrix[r][c].fec_id = c
  /\ ~ready => \A r, t \in assigned : row_key[r] = row_key[t] => r = t

\* reset_window(): "Don't memset the matrix - push_symbol overwrites every field
\* before pop reads it".  What pop is still going to read is exactly what was
\* accepted in this window and not yet popped, plus padding: nothing is left
\* over from an earlier window, lost with the reset, or sent twice.
DrainIsExact ==
  /\ ready => LET unread == {matrix[p[1]][p[2]] : p \in Unread}
              IN /\ owed \subseteq unread
                 /\ \A sym \in unread \ owed : sym.body = Padding
  /\ ~hasData => owed = {}

\* The window opens for reading when, and only when, every row is complete.
ReadyIsComplete ==
  /\ complete = Cardinality({r \in Rows : mask[r] = Cols})
  /\ ready <=> complete = Depth

\* The window as a whole: a row is one block, it is read when it is complete, and
\* what is read is what was accepted.
WindowIsSound == TypeOK /\ RowIsBlock /\ ReadyIsComplete /\ DrainIsExact

\* "sparse/control traffic must not wait forever for a full window": once a
\* block is complete, it goes out even if no other block ever follows.
CompleteGoesOut == complete >= 1 /\ start + FlushTimeout <= MaxNow ~> owed = {}
=============================================================================
