----------------------------- MODULE MCMappedDns -----------------------------
(* Small instances of MappedDns for TLC. *)
EXTENDS MappedDns, TLC

Symmetry == Permutations(Names)

\* Only connections to the mapped network.
MCNetIPs == 4 .. 7
=============================================================================
