------------------------- MODULE FragmentationCheck -------------------------
(***************************************************************************)
(* The fragmenter and the reassembler against each other: two packets are  *)
(* cut into symbols, and the reassembler is given symbols of either, in    *)
(* any order and with repetitions.                                         *)
(***************************************************************************)
EXTENDS Fragmentation, FiniteSets

CONSTANTS
  FragSize,  \* symbol_size: bytes in a full symbol
  MaxLen,    \* bound: bytes in a packet
  MaxFrags,  \* max_symbols of fragment_packet()
  OutMax     \* max_packet_size of reassemble_packet()

\* What the sender has room to cut, the receiver has room to put together: packets
\* have at most TX_MAX_PACKET_LEN bytes, 9000, and REASSEM_BUF_SIZE is 9200.
ASSUME FragAssumption ==
  /\ FragSize \in Nat \ {0} /\ MaxLen \in Nat /\ MaxFrags \in Nat /\ OutMax \in Nat
  /\ \A len \in 1 .. MaxLen : NumFragments(len, FragSize) <= MaxFrags => len <= OutMax

VARIABLES
  lens,    \* lengths of the packets 1 and 2
  given    \* the symbols handed to reassemble_packet()

fragVars == <<lens, given>>

\* All bytes of all packets differ, so a byte out of place shows.
Packet(id) == [i \in 1 .. lens[id] |-> 10 * id + i]

Frags(id) == Fragment(Packet(id), id, FragSize)

FragInit == lens \in [1 .. 2 -> 1 .. MaxLen] /\ given = <<>>

Give(id, i) ==
  /\ ~TooBig(Packet(id), FragSize, MaxFrags)
  /\ Len(given) < MaxFrags
  /\ given' = Append(given, Frags(id)[i])
  /\ UNCHANGED lens

FragNext == \E id \in 1 .. 2 : \E i \in DOMAIN Frags(id) : Give(id, i)

FragSpec == FragInit /\ [][FragNext]_fragVars

OneEach(id) == Len(given) = Len(Frags(id)) /\ ToSet(given) = ToSet(Frags(id))

\* "Exact byte-level reassembly" (README, Phase 2), in whatever order the
\* fragments are handed over: the stride and the last, shorter fragment are
\* recovered from the symbols alone.
RoundTrip ==
  \A id \in 1 .. 2 : OneEach(id) => Reassemble(given, OutMax) = Succeed(Packet(id))
=============================================================================
