---------------------------- MODULE Fragmentation ----------------------------
(***************************************************************************)
(* src/packet_fragmenter.c and src/packet_reassembler.c: how a packet is   *)
(* cut into symbols and put together again.  A packet is a sequence of     *)
(* bytes; the data[] of a symbol is SymbolSize bytes, zero-padded.         *)
(***************************************************************************)
EXTENDS Integers, Sequences, SequencesExt

Zeros(n) == [i \in 1 .. n |-> 0]

CeilDiv(a, b) == (a + b - 1) \div b

\* The payload of fragment i of a packet
Slice(pkt, size, i) ==
  SubSeq(pkt, i * size + 1, IF (i + 1) * size < Len(pkt) THEN (i + 1) * size ELSE Len(pkt))

FragmentAt(pkt, id, size, total, i) ==
  LET bytes == Slice(pkt, size, i)
  IN [packet_id |-> id, symbol_index |-> i, total_symbols |-> total,
      payload_len |-> Len(bytes), data |-> bytes \o Zeros(size - Len(bytes))]

NumFragments(len, size) == CeilDiv(len, size)

\* fragment_packet() fails: more symbols than the caller has room for
TooBig(pkt, size, max) == NumFragments(Len(pkt), size) > max

\* fragment_packet(): the symbols of a packet, in order
Fragment(pkt, id, size) ==
  LET total == NumFragments(Len(pkt), size)
  IN [i \in 1 .. total |-> FragmentAt(pkt, id, size, total, i - 1)]

-----------------------------------------------------------------------------

Failed == [ok |-> FALSE, bytes |-> <<>>]
Succeed(bytes) == [ok |-> TRUE, bytes |-> bytes]

IsLast(sym) == sym.symbol_index = sym.total_symbols - 1

\* The first symbol that is not the last fragment, or 0
FirstNonLast(syms) ==
  LET total == syms[1].total_symbols
      found == {i \in DOMAIN syms : syms[i].symbol_index # total - 1}
  IN IF found = {} THEN 0 ELSE CHOOSE i \in found : \A j \in found : i <= j

\* The validation loop, which ends at the first non-last symbol
Consistent(syms) ==
  LET stop == IF FirstNonLast(syms) = 0 THEN Len(syms) ELSE FirstNonLast(syms)
  IN \A i \in 1 .. stop :
       /\ syms[i].symbol_index < syms[1].total_symbols
       /\ syms[i].packet_id = syms[1].packet_id
       /\ syms[i].total_symbols = syms[1].total_symbols

\* Mutant: symbols are laid end to end in the order they come.
Offset_ByPosition(syms, base, i) == (i - 1) * base

\* Where symbol i goes in the output buffer
Offset(syms, base, i) == syms[i].symbol_index * base

EndOf(syms, base, i) == Offset(syms, base, i) + syms[i].payload_len

\* The buffer after all copies: a byte holds what the last symbol wrote to it
Layout(syms, base) ==
  LET ends == {EndOf(syms, base, i) : i \in DOMAIN syms}
      len  == CHOOSE e \in ends : \A d \in ends : d <= e
      Writers(p) == {i \in DOMAIN syms : Offset(syms, base, i) < p /\ p <= EndOf(syms, base, i)}
  IN [p \in 1 .. len |->
        IF Writers(p) = {} THEN 0
        ELSE LET i == CHOOSE i \in Writers(p) : \A j \in Writers(p) : j <= i
             IN syms[i].data[p - Offset(syms, base, i)]]

\* reassemble_packet() with an output buffer of max bytes
Reassemble(syms, max) ==
  LET total == syms[1].total_symbols
      base  == syms[FirstNonLast(syms)].payload_len
  IN IF \/ syms = <<>>
        \/ total = 0 \/ Len(syms) # total
        \/ ~Consistent(syms)
     THEN Failed
     ELSE IF FirstNonLast(syms) = 0
     THEN IF syms[1].payload_len > max THEN Failed
          ELSE Succeed(SubSeq(syms[1].data, 1, syms[1].payload_len))
     ELSE IF base = 0 \/ \E i \in DOMAIN syms : EndOf(syms, base, i) > max
     THEN Failed
     ELSE Succeed(Layout(syms, base))
=============================================================================
