---------------------------- MODULE MCTxPipeline ----------------------------
(***************************************************************************)
(* Blocks of two source and one repair symbol, windows of two blocks;      *)
(* packets of one, two and three symbols.                                  *)
(***************************************************************************)
EXTENDS TxPipeline

MCPackets == {<<1>>, <<2, 3>>, <<4, 5, 6>>}
=============================================================================
