---------------------------- MODULE MCRxPipeline ----------------------------
(***************************************************************************)
(* Two blocks that compete for a slot, of two or three source symbols of   *)
(* two bytes and one repair symbol.                                        *)
(***************************************************************************)
EXTENDS RxPipeline

\* Two packets of one symbol each, of different length; a packet of two symbols
MCFullBlocks == << << <<1>>, <<2, 3>> >>, << <<4, 5, 6>> >> >>

\* With three source symbols: a packet of two symbols after one of one symbol;
\* a block closed early, padded after a packet of two symbols
MCPaddedBlock == << << <<1>>, <<2, 3, 4>> >>, << <<5, 6, 7>> >> >>
=============================================================================
