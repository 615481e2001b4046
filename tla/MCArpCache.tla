----------------------------- MODULE MCArpCache -----------------------------
(* Small instances of the ARP table: fewer slots than addresses. *)
EXTENDS ArpCache, TLC

Symmetry == Permutations(Ips) \cup Permutations(Macs)
=============================================================================
