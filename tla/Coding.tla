------------------------------- MODULE Coding -------------------------------
(***************************************************************************)
(* What the two ends of the link agree on: a block of K source symbols,    *)
(* padded if it was closed early, becomes K + M symbols on the wire.       *)
(*                                                                         *)
(* The bytes of a repair symbol are Wirehair's business (external): they   *)
(* are zeros here, and the decoder (RxPipeline) only counts symbols.       *)
(***************************************************************************)
EXTENDS Fragmentation

CONSTANTS
  K, M,        \* source and repair symbols of a block
  SymbolSize   \* bytes in a symbol

ASSUME CodingAssumption == K \in Nat \ {0} /\ M \in Nat \ {0} /\ SymbolSize \in Nat \ {0}

N == K + M

Body(sym) == [symbol_index |-> sym.symbol_index, total_symbols |-> sym.total_symbols,
              payload_len |-> sym.payload_len, data |-> sym.data]

\* A symbol without payload: what calloc(), the builder and the interleaver
\* leave where there is no fragment
Padding == [symbol_index |-> 0, total_symbols |-> 0, payload_len |-> 0, data |-> Zeros(SymbolSize)]

RepairBody(i) == [symbol_index |-> K + i, total_symbols |-> N,
                  payload_len |-> SymbolSize, data |-> Zeros(SymbolSize)]

\* ... as the builder keeps it, before the block has an id
PaddingSymbol == [packet_id |-> 0, symbol_index |-> 0, total_symbols |-> 0, payload_len |-> 0,
                  data |-> Zeros(SymbolSize)]

\* Mutant: the padding starts one symbol early.
Padded_Overwrites(syms) ==
  [i \in 1 .. K |-> IF i < Len(syms) \/ Len(syms) = K THEN syms[i] ELSE PaddingSymbol]

\* block_builder_finalize_with_padding(): zero symbols up to K
Padded(syms) ==
  [i \in 1 .. K |-> IF i <= Len(syms) THEN syms[i] ELSE PaddingSymbol]

\* The K + M symbols of a block as encode_and_drain() stamps them
Codeword(id, syms) ==
  [i \in 1 .. N |->
     [packet_id |-> id, fec_id |-> i - 1,
      body |-> IF i <= K THEN Body(syms[i]) ELSE RepairBody(i - K - 1)]]
=============================================================================
