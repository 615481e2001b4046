--------------------------- MODULE BlockLifecycle ---------------------------
(***************************************************************************)
(* What the receiver's block collector promises about every FEC block,     *)
(* whatever slot the block happens to sit in: the lifecycle drawn at the   *)
(* top of include/deinterleaver.h.  A block is unknown (EMPTY), collecting *)
(* symbols (FILLING) or frozen for the FEC decoder (READY).                *)
(*                                                                         *)
(* One step of the collector may move several blocks at once (a tick, or a *)
(* push that evicts a block to make room for another), so a step is a      *)
(* legal move of every block, in which at most one symbol is accepted.     *)
(***************************************************************************)
EXTENDS Naturals, FiniteSets

CONSTANTS
  Ids,        \* block ids
  FecIds,     \* symbol positions inside a block, 0 .. N-1
  K,          \* symbols the decoder needs
  Capacity    \* blocks the collector can hold at once

VARIABLES
  phase,      \* phase[id]: "EMPTY", "FILLING" or "READY"
  got         \* got[id]: the positions collected so far

vars == <<phase, got>>

Init ==
  /\ phase = [id \in Ids |-> "EMPTY"]
  /\ got = [id \in Ids |-> {}]

\* The block keeps its symbols or gains one.
Accepts(id) == got'[id] = got[id] \/ \E f \in FecIds : got'[id] = got[id] \cup {f}

Collect(id) ==
  /\ phase[id] \in {"EMPTY", "FILLING"}
  /\ Accepts(id)
  /\ got'[id] # {}
  /\ \/ phase'[id] = "FILLING"
     \/ /\ phase'[id] = "READY"
        /\ Cardinality(got'[id]) >= K

\* Decoded, discarded as irrecoverable, or evicted for another block.
Close(id) == phase'[id] = "EMPTY" /\ got'[id] = {}

Keep(id) == phase'[id] = phase[id] /\ got'[id] = got[id]

Gains(id) == ~(got'[id] \subseteq got[id])

Next ==
  /\ \A id \in Ids : Collect(id) \/ Close(id) \/ Keep(id)
  /\ \A i, j \in Ids : Gains(i) /\ Gains(j) => i = j
  /\ Cardinality({id \in Ids : phase'[id] # "EMPTY"}) <= Capacity

Spec == Init /\ [][Next]_vars
=============================================================================
