-------------------------- MODULE MCSysInterceptor --------------------------
(***************************************************************************)
(* Values of the interceptor's constants for TLC.                          *)
(***************************************************************************)
EXTENDS SysInterceptor, TLC

Wildcard == {-1}

Alike == Permutations(Threads) \cup Permutations(Admins)
=============================================================================
