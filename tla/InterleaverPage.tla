---------------------------- MODULE InterleaverPage ----------------------------
(***************************************************************************)
(* What interleaver/page.tsx says of the interleaver: the longest burst a   *)
(* window survives, which bars of the burst histogram are within it, and    *)
(* the drawing of the matrix.                                               *)
(***************************************************************************)
EXTENDS Interleaver

CONSTANT PerCellLimit  \* PER_CELL_LIMIT

\* recoverySpanSymbols
RecoverySpan(m, depth) == m * depth

-----------------------------------------------------------------------------
(* The histogram of burst lengths, and the bars drawn of it                  *)

Thresholds == <<1, 5, 10, 50, 100, 500>>

\* stats_bucket_burst_length(): the counter that a burst adds to
Bucket(len) == 1 + Cardinality({b \in DOMAIN Thresholds : len > Thresholds[b]})

\* The numbers in the label each counter gets: "1", "2-5", ..., "501+"
Labels == <<<<1>>, <<2, 5>>, <<6, 10>>, <<11, 50>>, <<51, 100>>, <<101, 500>>, <<501>>>>
EndsWithPlus(b) == b = Len(Labels)

\* burstUpperBound() <= spanSymbols: the bar is drawn as recoverable, and counts
\* as covered.  A label that ends with "+" has no upper bound.
Within(b, span) == ~EndsWithPlus(b) /\ Labels[b][Len(Labels[b])] <= span

LargerOf(a, b) == IF a < b THEN b ELSE a
SmallerOf(a, b) == IF a < b THEN a ELSE b

\* The bars of the chart on the FEC page, on an axis that has no end for "501+"
Bins == <<<<1, 1>>, <<2, 5>>, <<6, 10>>, <<11, 50>>, <<51, 100>>, <<101, 500>>, <<501, 5000>>>>

\* Where renderItem() draws one, in hundredths: a bar of one length is widened,
\* and all are cut off at the ends of the axis.
BarSpan(b) ==
  LET lo == Bins[b][1]
      hi == Bins[b][2]
      wide == IF lo = hi THEN 15 * lo ELSE 0
  IN <<LargerOf(70, 100 * lo - wide), SmallerOf(600000, 100 * hi + wide)>>

-----------------------------------------------------------------------------
(* MatrixCanvas: rectangles that span the columns [from, to)                 *)

\* computeMatrixCells() and the rectangle of a cell
Cells(rows, cols, k) ==
  {[row |-> r, from |-> c, to |-> c + 1, repair |-> c >= k] : r \in 0 .. rows - 1, c \in 0 .. cols - 1}

\* Two bands in a row, of which an empty one is left out
Bands(rows, cols, k) ==
  {b \in [row : 0 .. rows - 1, from : {0, k}, to : {k, cols}, repair : BOOLEAN] :
     /\ b.from < b.to
     /\ b.repair = (b.from = k)
     /\ b.to = IF b.repair THEN cols ELSE k}

Drawing(rows, cols, k) ==
  IF rows * cols > PerCellLimit THEN Bands(rows, cols, k) ELSE Cells(rows, cols, k)

-----------------------------------------------------------------------------
\* Spans the page may compute, on both sides of the bounds in the labels
Spans == {RecoverySpan(m, depth) : m \in 0 .. 8, depth \in {1, 2, 8, 64}}

\* A burst is counted where its label says and drawn under no other bar, and a
\* bar is called recoverable for a span only if no burst in it is longer.
BarsAreTrue ==
  \A len \in 1 .. 600 :
    /\ Labels[Bucket(len)][1] <= len
    /\ EndsWithPlus(Bucket(len)) \/ len <= Labels[Bucket(len)][Len(Labels[Bucket(len)])]
    /\ \A b \in DOMAIN Bins :
         (BarSpan(b)[1] <= 100 * len /\ 100 * len <= BarSpan(b)[2]) <=> b = Bucket(len)
    /\ \A span \in Spans : Within(Bucket(len), span) => len <= span

\* Either way of drawing gives every cell one rectangle, of its kind, and the
\* drawing stays small: no more than two rectangles per row beyond the limit.
DrawingIsExact ==
  \A rows \in 1 .. 4, k \in 2 .. 4, m \in 0 .. 3 :
    LET drawn == Drawing(rows, k + m, k)
    IN /\ \A r \in 0 .. rows - 1, c \in 0 .. k + m - 1 :
            LET here == {b \in drawn : b.row = r /\ b.from <= c /\ c < b.to}
            IN Cardinality(here) = 1 /\ \A b \in here : b.repair = (c >= k)
       /\ Cardinality(drawn) <= IF rows * (k + m) > PerCellLimit THEN 2 * rows ELSE PerCellLimit

\* "a burst of up to [m x depth] symbols maps to at most m holes per block": so
\* it is for every m, wherever the burst begins in what has been read of a
\* window, flushed or full; and what the page draws of it is right.  Rows that
\* were flushed without a block all have key 0.
BurstsAreRecoverable ==
  /\ \A m \in 0 .. N, i, j \in DOMAIN out :
       i <= j /\ j - i + 1 <= RecoverySpan(m, Depth) =>
         \A key \in Keys \ {ZeroKey} :
           Cardinality({n \in i .. j : out[n].packet_id = key}) <= m
  /\ BarsAreTrue
  /\ DrawingIsExact
=============================================================================
