-------------------------- MODULE MCDeinterleaver --------------------------
(***************************************************************************)
(* Blocks of K = 2 source and M = 1 repair symbols, more blocks than slots. *)
(* The content of a symbol is fixed by its sender: position 1 carries the  *)
(* block builder's zero padding, the others a payload.                     *)
(***************************************************************************)
EXTENDS Deinterleaver, TLC

CONSTANTS zero, b1, b2

MCMeta == {[payload_len |-> n] : n \in {0, 1, SymbolSize + 1}}
MCZeroMeta == [payload_len |-> 0]

Sym(id, f, len) == [packet_id |-> id, fec_id |-> f, meta |-> [payload_len |-> len]]

\* Every symbol of every block, the interleaver's filler, a symbol of block id 0
\* that carries data, one with an oversized payload, one out of range.
MCSymbols ==
  {Sym(id, f, IF f = 1 THEN 0 ELSE 1) : id \in Ids \ {zero}, f \in FecIds}
    \cup {Sym(zero, 0, 0), Sym(zero, 0, 1)}
    \cup UNION {{Sym(id, 0, SymbolSize + 1), Sym(id, N, 1)} : id \in Ids \ {zero}}

Symmetry == Permutations(Ids \ {zero})

MCOverrides == {-1, 0}
=============================================================================
