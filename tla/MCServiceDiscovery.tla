------------------------- MODULE MCServiceDiscovery -------------------------
(* ServiceDiscovery for TLC.  The servers are interchangeable, and so are   *)
(* the UUIDs: no definition tells one from another.                         *)
EXTENDS ServiceDiscovery, TLC

Symmetry == Permutations(Server) \cup Permutations(Uuid)
=============================================================================
