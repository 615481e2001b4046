--------------------------- MODULE MCInterleaver ---------------------------
(***************************************************************************)
(* Three rows of two symbols, three blocks and block key 0: windows fill,    *)
(* time out half empty, are drained and reused by other blocks.            *)
(***************************************************************************)
EXTENDS InterleaverPage

CONSTANTS zero, b1, b2, b3, data, pad, junk

MCGarbage == [packet_id |-> zero, fec_id |-> 0, body |-> junk]

\* Every symbol of every block, and one whose fec_id is out of range.
MCSymbols ==
  [packet_id : Keys, fec_id : 0 .. N, body : {data}] \ {[packet_id |-> b, fec_id |-> N, body |-> data] : b \in Keys \ {b1}}
=============================================================================
