--------------------------- MODULE MCRegistryNodes ---------------------------
(***************************************************************************)
(* The nodes are interchangeable for TLC, and so are the administrators.   *)
(***************************************************************************)
EXTENDS RegistryNodes, TLC

Alike == Permutations(Nodes) \cup Permutations(Admins)
=============================================================================
