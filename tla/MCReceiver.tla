------------------------------ MODULE MCReceiver ------------------------------
(***************************************************************************)
(* The receive pipeline, and the reassembler on its own: a behaviour is     *)
(* about one of them.  The pipeline hands the reassembler fragments in      *)
(* order; on its own it is given them in any order.                        *)
(***************************************************************************)
EXTENDS MCRxPipeline, FragmentationCheck

VARIABLE about

\* What a behaviour is not about has one initial state.
MCInit ==
  /\ about \in {"pipeline", "reassembly"}
  /\ Init /\ FragInit
  /\ about = "pipeline" => lens = [i \in 1 .. 2 |-> 1]

MCNext ==
  \/ about = "pipeline" /\ Next /\ UNCHANGED <<about, fragVars>>
  \/ about = "reassembly" /\ FragNext /\ UNCHANGED <<about, vars>>

MCSpec == MCInit /\ [][MCNext]_<<about, fragVars, vars>>
=============================================================================
