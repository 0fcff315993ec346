---------------------------- MODULE MCVpnService ----------------------------
(* Small instances of VpnService for TLC. *)
EXTENDS VpnService, TLC

Symmetry == Permutations(Conns) \cup Permutations(Services)
=============================================================================
