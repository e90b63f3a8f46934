--------------------------- MODULE MCPolicyEngine ---------------------------
(***************************************************************************)
(* Values of the engine's constants for TLC.                               *)
(***************************************************************************)
EXTENDS PolicyEngineRefinement

CONSTANTS t1, t2, t3, r1, r2, r3

\* One user running the same program in every thread, as test/bench_stress.c does.
SameTask == [t \in Threads |-> [uid |-> 1000, comm |-> "bench_stress"]]

\* Two programs of two users: a program shared by users, a user with two programs.
MixedTask ==
    [t \in Threads |->
        [uid |-> IF t = t1 THEN 1000 ELSE 65534,
         comm |-> IF t = t3 THEN "test_logic" ELSE "test_burst"]]

On39(uid, comm, max) == [uid |-> uid, comm |-> comm, syscall_num |-> 39, max_calls |-> max]

\* r1 by user, r2 by program, r3 on every hooked system call.
LimitRules ==
    [r \in RuleIds |->
        CASE r = r1 -> On39(1000, NoComm, 1)
          [] r = r2 -> On39(AnyUid, "test_burst", 1)
          [] r = r3 -> [On39(65534, NoComm, 1) EXCEPT !.syscall_num = AnySyscall]]

\* "Deny all": a limit of 0.
DenyRules == [r \in RuleIds |-> On39(1000, NoComm, 0)]

One == <<r1>>
OneProgram == <<r2>>
Getpid == {39}

\* How many calls each thread makes.
Once == [t \in Threads |-> 1]
Twice == [t \in Threads |-> 2]

\* Threads of one program, and administrators, are interchangeable.
Alike == Permutations(Threads) \cup Permutations(Admins)
=============================================================================
