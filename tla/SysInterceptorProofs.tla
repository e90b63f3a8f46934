------------------------ MODULE SysInterceptorProofs ------------------------
(***************************************************************************)
(* Proofs about the hook table, for any number of administrators, threads  *)
(* and system calls, added to and removed from in any order.               *)
(***************************************************************************)
EXTENDS SysInterceptor, FiniteSetTheorems, TLAPS

\* hook_lock belongs to the one hooker between its two writes.
LockHeld == \A h \in Hookers : hpc[h] \in {"patch", "clear"} <=> hook_lock = h

\* What that hooker has found and relies on.
InFlight ==
    \A h \in Hookers :
        /\ hpc[h] \in {"patch", "clear"} =>
            num[h] \in Syscalls /\ syscall_refcount[num[h]] = 0
        /\ hpc[h] = "patch" => original_syscall_ptrs[num[h]] = "original"

\* HookTableSound alone does not survive HookPatch, which trusts HookSave.
IInv == TypeOK /\ LockHeld /\ InFlight /\ HookTableSound

LEMMA InitInv == Init => IInv
<1> SUFFICES ASSUME Init PROVE IInv
  OBVIOUS
<1> USE DEF Init, Handlers, Pointers
<1>1. TypeOK
  <2>1. /\ core \in CorePcs /\ table_found \in BOOLEAN /\ overridden \in BOOLEAN
        /\ hook_lock \in Hookers \cup {NoOne}
        /\ hpc \in [Hookers -> HookerPcs]
    BY DEF CorePcs, HookerPcs
  <2>2. num \in [Hookers -> Syscalls \cup Invalid]
    OBVIOUS
  <2>3. /\ rules \in [Syscalls \cup Invalid -> Nat]
        /\ sys_call_table \in [Syscalls -> Pointers]
        /\ syscall_refcount \in [Syscalls -> Nat]
        /\ original_syscall_ptrs \in [Syscalls -> Pointers]
    OBVIOUS
  <2>4. /\ pc \in [Threads -> {"user", "wrapper", "origin"}]
        /\ sysno \in [Threads -> Syscalls]
        /\ result \in [Threads -> Handlers \cup {"none", "ENOSYS", "fault"}]
    OBVIOUS
  <2> QED
    BY <2>1, <2>2, <2>3, <2>4 DEF TypeOK
<1>2. LockHeld /\ InFlight
  BY InterceptorAssumption DEF LockHeld, InFlight
<1>3. HookTableSound
  BY DEF HookTableSound
<1> QED
  BY <1>1, <1>2, <1>3 DEF IInv

\* One step of a hooker leaves the locks, the counts and the pointers sound.
LEMMA HookStepInv == ASSUME IInv, NEW h \in Hookers, HookStep(h) PROVE IInv'
<1> DEFINE n == num[h]
<1> USE DEF IInv, TypeOK, LockHeld, InFlight, HookTableSound, hooks, life, threads,
            AtH, GotoH, Pointers, Handlers
<1>n. NoOne \notin Hookers
  BY InterceptorAssumption
<1>1. CASE HookRefused(h)
  BY <1>1 DEF HookRefused, HookerPcs
<1>2. CASE HookSave(h)
  <2>0. n \in Syscalls /\ hook_lock = NoOne /\ hpc[h] = "hook"
    BY <1>2 DEF HookSave, CanHook
  <2>1. CASE FirstHook(n)
    <3>1. /\ original_syscall_ptrs' = [original_syscall_ptrs EXCEPT ![n] = sys_call_table[n]]
          /\ hook_lock' = h
          /\ hpc' = [hpc EXCEPT ![h] = "patch"]
          /\ UNCHANGED <<syscall_refcount, life, num, rules, sys_call_table, threads>>
      BY <1>2, <2>1 DEF HookSave
    <3>2. sys_call_table[n] = "original" /\ syscall_refcount[n] = 0
      BY <2>0, <2>1 DEF FirstHook
    <3>3. TypeOK'
      BY <2>0, <3>1 DEF HookerPcs
    <3>4. LockHeld' /\ InFlight'
      BY <1>n, <2>0, <3>1, <3>2
    <3>5. HookTableSound'
      BY <2>0, <3>1, <3>2
    <3> QED
      BY <3>3, <3>4, <3>5
  <2>2. CASE ~FirstHook(n)
    <3>1. /\ syscall_refcount' = [syscall_refcount EXCEPT ![n] = syscall_refcount[n] + 1]
          /\ hpc' = [hpc EXCEPT ![h] = "idle"]
          /\ UNCHANGED <<original_syscall_ptrs, hook_lock, life, num, rules,
                         sys_call_table, threads>>
      BY <1>2, <2>2 DEF HookSave, Grabbed
    <3>2. syscall_refcount[n] > 0
      BY <2>0, <2>2 DEF FirstHook
    <3>3. TypeOK'
      BY <2>0, <3>1 DEF HookerPcs
    <3>4. LockHeld' /\ InFlight'
      BY <1>n, <2>0, <3>1
    <3>5. HookTableSound'
      BY <2>0, <3>1, <3>2
    <3> QED
      BY <3>3, <3>4, <3>5
  <2> QED
    BY <2>1, <2>2
<1>3. CASE HookPatch(h)
  <2>0. n \in Syscalls /\ hpc[h] = "patch" /\ hook_lock = h
        /\ syscall_refcount[n] = 0 /\ original_syscall_ptrs[n] = "original"
    BY <1>3 DEF HookPatch
  <2>1. /\ sys_call_table' = [sys_call_table EXCEPT ![n] = "wrapper"]
        /\ syscall_refcount' = [syscall_refcount EXCEPT ![n] = syscall_refcount[n] + 1]
        /\ hook_lock' = NoOne
        /\ hpc' = [hpc EXCEPT ![h] = "idle"]
        /\ UNCHANGED <<original_syscall_ptrs, life, num, rules, threads>>
    BY <1>3 DEF HookPatch, Grabbed
  <2>2. TypeOK'
    BY <2>0, <2>1 DEF HookerPcs
  <2>3. LockHeld' /\ InFlight'
    BY <1>n, <2>0, <2>1
  <2>4. HookTableSound'
    BY <2>0, <2>1
  <2> QED
    BY <2>2, <2>3, <2>4
<1>4. CASE UnhookRestore(h)
  <2>0. n \in Syscalls /\ hook_lock = NoOne /\ hpc[h] = "unhook"
    BY <1>4 DEF UnhookRestore, CanHook
  <2>1. CASE Held(n) /\ LastUnhook(n)
    <3>1. /\ sys_call_table' = [sys_call_table EXCEPT ![n] = original_syscall_ptrs[n]]
          /\ syscall_refcount' = [syscall_refcount EXCEPT ![n] = syscall_refcount[n] - 1]
          /\ hook_lock' = h
          /\ hpc' = [hpc EXCEPT ![h] = "clear"]
          /\ UNCHANGED <<original_syscall_ptrs, life, num, rules, threads>>
      BY <1>4, <2>1 DEF UnhookRestore
    <3>2. syscall_refcount[n] = 1 /\ original_syscall_ptrs[n] = "original"
      BY <2>0, <2>1 DEF Held, LastUnhook
    <3>3. TypeOK'
      BY <2>0, <3>1, <3>2 DEF HookerPcs
    <3>4. LockHeld' /\ InFlight'
      BY <1>n, <2>0, <3>1, <3>2
    <3>5. HookTableSound'
      BY <2>0, <3>1, <3>2
    <3> QED
      BY <3>3, <3>4, <3>5
  <2>2. CASE ~(Held(n) /\ LastUnhook(n))
    <3>1. /\ syscall_refcount' = IF Held(n)
                THEN [syscall_refcount EXCEPT ![n] = syscall_refcount[n] - 1]
                ELSE syscall_refcount
          /\ hpc' = [hpc EXCEPT ![h] = "idle"]
          /\ UNCHANGED <<sys_call_table, hook_lock, original_syscall_ptrs, life, num,
                         rules, threads>>
      BY <1>4, <2>2 DEF UnhookRestore
    <3>2. syscall_refcount[n] = 0 \/ syscall_refcount[n] > 1
      BY <2>0, <2>2 DEF Held, LastUnhook
    <3>3. TypeOK'
      BY <2>0, <3>1, <3>2 DEF HookerPcs, Held
    <3>4. LockHeld' /\ InFlight'
      BY <1>n, <2>0, <3>1
    <3>5. HookTableSound'
      BY <2>0, <3>1, <3>2 DEF Held
    <3> QED
      BY <3>3, <3>4, <3>5
  <2> QED
    BY <2>1, <2>2
<1>5. CASE UnhookClear(h)
  <2>0. n \in Syscalls /\ hpc[h] = "clear" /\ hook_lock = h /\ syscall_refcount[n] = 0
    BY <1>5 DEF UnhookClear
  <2>1. /\ original_syscall_ptrs' = [original_syscall_ptrs EXCEPT ![n] = "null"]
        /\ hook_lock' = NoOne
        /\ hpc' = [hpc EXCEPT ![h] = "idle"]
        /\ UNCHANGED <<sys_call_table, syscall_refcount, life, num, rules, threads>>
    BY <1>5 DEF UnhookClear
  <2>2. TypeOK'
    BY <2>0, <2>1 DEF HookerPcs
  <2>3. LockHeld' /\ InFlight'
    BY <1>n, <2>0, <2>1
  <2>4. HookTableSound'
    BY <2>0, <2>1
  <2> QED
    BY <2>2, <2>3, <2>4
<1> QED
  BY <1>1, <1>2, <1>3, <1>4, <1>5 DEF HookStep

\* The other steps do not touch the table, its lock or a hooker between its writes.
LEMMA OtherStepInv ==
    ASSUME TypeOK, IInv, TypeOK',
           UNCHANGED <<hooks, hook_lock>>,
           \A h \in Hookers :
                \/ hpc[h] = "idle" /\ hpc'[h] \in {"hook", "unhook"}
                \/ hpc'[h] = hpc[h] /\ num'[h] = num[h]
    PROVE  IInv'
<1>1. LockHeld' /\ InFlight'
  BY DEF IInv, LockHeld, InFlight, hooks
<1>2. HookTableSound'
  BY DEF IInv, HookTableSound, hooks
<1> QED
  BY <1>1, <1>2 DEF IInv

LEMMA NextInv == IInv /\ [Next]_vars => IInv'
<1> SUFFICES ASSUME IInv, [Next]_vars PROVE IInv'
  OBVIOUS
<1> USE DEF hooks, life, threads, AtH, GotoH
<1>t. TypeOK
  BY DEF IInv
<1>1. ASSUME NEW h \in Hookers, HookStep(h) PROVE IInv'
  BY <1>1, HookStepInv
<1>2. ASSUME NEW a \in Admins, AdminStep(a) PROVE IInv'
  <2>1. a \in Hookers
    BY DEF Hookers
  <2>2. TypeOK'
    BY <1>2, <1>t, <2>1 DEF AdminStep, ListRule, UnlistRule, TypeOK, HookerPcs
  <2> QED
    BY <1>2, <1>t, <2>1, <2>2, OtherStepInv DEF AdminStep, ListRule, UnlistRule, MayServe, TypeOK
<1>3. ASSUME NEW t \in Threads, ThreadStep(t) PROVE IInv'
  <2>1. TypeOK'
    <3>1. ASSUME NEW n \in Syscalls, Dispatch(t, n) PROVE TypeOK'
      BY <3>1, <1>t DEF Dispatch, TypeOK
    <3>2. CASE EnforcePolicy(t)
      BY <3>2, <1>t DEF EnforcePolicy, TypeOK
    <3>3. CASE CallOriginal(t)
      <4>1. original_syscall_ptrs[sysno[t]] \in Handlers \cup {"null"}
        BY <1>t DEF TypeOK, Pointers
      <4>2. result' \in [Threads -> Handlers \cup {"none", "ENOSYS", "fault"}]
        BY <3>3, <4>1, <1>t DEF CallOriginal, TypeOK
      <4> QED
        BY <3>3, <4>2, <1>t DEF CallOriginal, TypeOK
    <3> QED
      BY <1>3, <3>1, <3>2, <3>3 DEF ThreadStep
  <2> QED
    BY <1>3, <1>t, <2>1, OtherStepInv DEF ThreadStep, Dispatch, EnforcePolicy, CallOriginal
<1>4. CASE CoreStep
  <2>1. Core \in Hookers
    BY DEF Hookers
  <2>2. TypeOK'
    <3>1. ASSUME NEW n \in Syscalls \cup Invalid, CleanupRule(n) PROVE TypeOK'
      <4>1. rules' \in [Syscalls \cup Invalid -> Nat]
        BY <3>1, <1>t DEF CleanupRule, TypeOK
      <4> QED
        BY <3>1, <4>1, <1>t, <2>1 DEF CleanupRule, TypeOK, HookerPcs
    <3>2. CASE RegisterDevice \/ FindTable \/ OverrideDispatcher
      BY <3>2, <1>t DEF RegisterDevice, FindTable, OverrideDispatcher, TypeOK, CorePcs
    <3>3. CASE RollBack \/ RestoreDispatcher \/ WaitForZeroWrappers \/ FreeModule
      BY <3>3, <1>t DEF RollBack, RestoreDispatcher, WaitForZeroWrappers, FreeModule, TypeOK,
                        CorePcs
    <3> QED
      BY <1>4, <3>1, <3>2, <3>3 DEF CoreStep
  <2> QED
    BY <1>4, <1>t, <2>1, <2>2, OtherStepInv
    DEF CoreStep, RegisterDevice, FindTable, OverrideDispatcher, RollBack, RestoreDispatcher,
        WaitForZeroWrappers, FreeModule, CleanupRule, TypeOK
<1>5. CASE UNCHANGED vars
  <2>1. TypeOK'
    BY <1>5, <1>t DEF vars, TypeOK
  <2> QED
    BY <1>5, <1>t, <2>1, OtherStepInv DEF vars
<1>6. CASE Unloaded
  BY <1>5, <1>6 DEF Unloaded
<1> QED
  BY <1>1, <1>2, <1>3, <1>4, <1>5, <1>6 DEF Next

THEOREM Invariance == Spec => []IInv
  BY InitInv, NextInv, PTL DEF Spec

\* Types, the reference counts included: no unhook takes one below zero.
THEOREM TypeCorrect == Spec => []TypeOK
<1>1. IInv => TypeOK
  BY DEF IInv
<1> QED
  BY <1>1, Invariance, PTL

\* Concurrent add_rule() and remove_rule() never leave the wrapper in the table
\* without the real handler, nor save the wrapper as the handler.
THEOREM HookTable == Spec => []HookTableSound
<1>1. IInv => HookTableSound
  BY DEF IInv
<1> QED
  BY <1>1, Invariance, PTL
-----------------------------------------------------------------------------
(* No listed rule lacks its hook. The counter may be too high, when an unhook *)
(* has overtaken the hook it was to undo, so the balance is an inequality.    *)

Hooking(n) == {h \in Hookers : hpc[h] \in {"hook", "patch"} /\ num[h] = n}
Unhooking(n) == {h \in Hookers : hpc[h] = "unhook" /\ num[h] = n}

\* The hooks there are and those to come cover the rules there are and the
\* unhooks to come.
Balanced ==
    \A n \in Syscalls :
        syscall_refcount[n] + Cardinality(Hooking(n)) >= rules[n] + Cardinality(Unhooking(n))

\* Nobody hooks before the table is found.
Loaded ==
    /\ core \notin {"device", "discover", "gone"} => table_found
    /\ \A h \in Hookers : hpc[h] # "idle" => table_found

CountInv == IInv /\ Loaded /\ Balanced

\* A hooker among those hooking, or unhooking, is one of finitely many.
LEMMA HookersFinite ==
    \A n : /\ IsFiniteSet(Hooking(n)) /\ Cardinality(Hooking(n)) \in Nat
           /\ IsFiniteSet(Unhooking(n)) /\ Cardinality(Unhooking(n)) \in Nat
<1>1. IsFiniteSet(Hookers)
  BY InterceptorAssumption, FS_AddElement DEF Hookers
<1> QED
  BY <1>1, FS_Subset, FS_CardinalityType DEF Hooking, Unhooking

LEMMA HookersFiniteNext ==
    \A n : /\ IsFiniteSet(Hooking(n)') /\ Cardinality(Hooking(n)') \in Nat
           /\ IsFiniteSet(Unhooking(n)') /\ Cardinality(Unhooking(n)') \in Nat
<1>1. IsFiniteSet(Hookers)
  BY InterceptorAssumption, FS_AddElement DEF Hookers
<1> QED
  BY <1>1, FS_Subset, FS_CardinalityType DEF Hooking, Unhooking

\* An administrator, or core_exit(), takes up a hook or an unhook of n.
LEMMA Begin ==
    ASSUME TypeOK, NEW h \in Hookers, NEW n, NEW label \in {"hook", "unhook"},
           hpc[h] = "idle",
           hpc' = [hpc EXCEPT ![h] = label], num' = [num EXCEPT ![h] = n]
    PROVE  /\ \A m : m # n => Hooking(m)' = Hooking(m) /\ Unhooking(m)' = Unhooking(m)
           /\ label = "hook" =>
                /\ Cardinality(Hooking(n)') = Cardinality(Hooking(n)) + 1
                /\ Unhooking(n)' = Unhooking(n)
           /\ label = "unhook" =>
                /\ Cardinality(Unhooking(n)') = Cardinality(Unhooking(n)) + 1
                /\ Hooking(n)' = Hooking(n)
<1>1. \A k \in Hookers : hpc'[k] = (IF k = h THEN label ELSE hpc[k])
                         /\ num'[k] = (IF k = h THEN n ELSE num[k])
  BY DEF TypeOK
<1>2. \A m : m # n => Hooking(m)' = Hooking(m) /\ Unhooking(m)' = Unhooking(m)
  BY <1>1 DEF Hooking, Unhooking
<1>3. CASE label = "hook"
  <2>1. Hooking(n)' = Hooking(n) \cup {h} /\ h \notin Hooking(n) /\ Unhooking(n)' = Unhooking(n)
    BY <1>1, <1>3 DEF Hooking, Unhooking
  <2> QED
    BY <1>2, <1>3, <2>1, HookersFinite, FS_AddElement
<1>4. CASE label = "unhook"
  <2>1. Unhooking(n)' = Unhooking(n) \cup {h} /\ h \notin Unhooking(n) /\ Hooking(n)' = Hooking(n)
    BY <1>1, <1>4 DEF Hooking, Unhooking
  <2> QED
    BY <1>2, <1>4, <2>1, HookersFinite, FS_AddElement
<1> QED
  BY <1>3, <1>4

\* A hooker is done with its hook, or with the count of its unhook.
LEMMA Finish ==
    ASSUME TypeOK, NEW h \in Hookers, NEW label \in {"idle", "clear"},
           hpc[h] \in {"hook", "patch", "unhook"},
           hpc' = [hpc EXCEPT ![h] = label], UNCHANGED num
    PROVE  /\ \A m : m # num[h] => Hooking(m)' = Hooking(m) /\ Unhooking(m)' = Unhooking(m)
           /\ hpc[h] \in {"hook", "patch"} =>
                /\ Cardinality(Hooking(num[h])') = Cardinality(Hooking(num[h])) - 1
                /\ Unhooking(num[h])' = Unhooking(num[h])
           /\ hpc[h] = "unhook" =>
                /\ Cardinality(Unhooking(num[h])') = Cardinality(Unhooking(num[h])) - 1
                /\ Hooking(num[h])' = Hooking(num[h])
<1> DEFINE n == num[h]
<1>1. \A k \in Hookers : hpc'[k] = (IF k = h THEN label ELSE hpc[k]) /\ num'[k] = num[k]
  BY DEF TypeOK
<1>2. \A m : m # n => Hooking(m)' = Hooking(m) /\ Unhooking(m)' = Unhooking(m)
  BY <1>1 DEF Hooking, Unhooking
<1>3. CASE hpc[h] \in {"hook", "patch"}
  <2>1. Hooking(n)' = Hooking(n) \ {h} /\ h \in Hooking(n) /\ Unhooking(n)' = Unhooking(n)
    BY <1>1, <1>3 DEF Hooking, Unhooking
  <2> QED
    BY <1>2, <1>3, <2>1, HookersFinite, FS_RemoveElement
<1>4. CASE hpc[h] = "unhook"
  <2>1. Unhooking(n)' = Unhooking(n) \ {h} /\ h \in Unhooking(n) /\ Hooking(n)' = Hooking(n)
    BY <1>1, <1>4 DEF Hooking, Unhooking
  <2> QED
    BY <1>2, <1>4, <2>1, HookersFinite, FS_RemoveElement
<1> QED
  BY <1>3, <1>4

LEMMA CountInit == Init => CountInv
<1> SUFFICES ASSUME Init PROVE CountInv
  OBVIOUS
<1>1. IInv
  BY InitInv
<1>2. Loaded
  BY DEF Init, Loaded
<1>3. ASSUME NEW n \in Syscalls
      PROVE  syscall_refcount[n] + Cardinality(Hooking(n)) >= rules[n] + Cardinality(Unhooking(n))
  <2>1. Unhooking(n) = {} /\ Hooking(n) = {} /\ syscall_refcount[n] = 0 /\ rules[n] = 0
    BY DEF Init, Hooking, Unhooking
  <2> QED
    BY <2>1, FS_EmptySet
<1> QED
  BY <1>1, <1>2, <1>3 DEF CountInv, Balanced

\* Without early ioctls a hook or an unhook of a number of the table is not refused.
LEMMA LoadedStep == "early" \notin Env /\ IInv /\ Loaded /\ [Next]_vars => Loaded'
<1> SUFFICES ASSUME "early" \notin Env, TypeOK, Loaded, [Next]_vars PROVE Loaded'
  BY DEF IInv
<1> USE DEF Loaded, TypeOK, hooks, life, threads, AtH, GotoH
<1>1. ASSUME NEW h \in Hookers, HookStep(h) PROVE Loaded'
  BY <1>1 DEF HookStep, HookRefused, HookSave, HookPatch, UnhookRestore, UnhookClear
<1>2. ASSUME NEW a \in Admins, AdminStep(a) PROVE Loaded'
  BY <1>2 DEF AdminStep, ListRule, UnlistRule, MayServe
<1>3. ASSUME NEW t \in Threads, ThreadStep(t) PROVE Loaded'
  BY <1>3 DEF ThreadStep, Dispatch, EnforcePolicy, CallOriginal
<1>4. CASE CoreStep
  BY <1>4 DEF CoreStep, RegisterDevice, FindTable, OverrideDispatcher, RollBack,
              TableMissing, DispatcherMissing, RestoreDispatcher, WaitForZeroWrappers,
              FreeModule, CleanupRule
<1>5. CASE UNCHANGED vars
  BY <1>5 DEF vars
<1> QED
  BY <1>1, <1>2, <1>3, <1>4, <1>5 DEF Next, Unloaded

\* Listing a rule is made up for by the hook to come, unlisting covers the unhook.
LEMMA BalanceBegin ==
    ASSUME TypeOK, TypeOK', Balanced, NEW h \in Hookers, NEW n \in Syscalls \cup Invalid,
           hpc[h] = "idle", num' = [num EXCEPT ![h] = n], UNCHANGED syscall_refcount,
           \/ /\ hpc' = [hpc EXCEPT ![h] = "hook"]
              /\ rules' = [rules EXCEPT ![n] = @ + 1]
           \/ /\ hpc' = [hpc EXCEPT ![h] = "unhook"]
              /\ rules' = [rules EXCEPT ![n] = @ - 1]
    PROVE  Balanced'
<1> SUFFICES ASSUME NEW m \in Syscalls
             PROVE  syscall_refcount[m]' + Cardinality(Hooking(m)')
                        >= rules[m]' + Cardinality(Unhooking(m)')
  BY DEF Balanced
<1>1. syscall_refcount[m] + Cardinality(Hooking(m)) >= rules[m] + Cardinality(Unhooking(m))
  BY DEF Balanced
<1>2. /\ syscall_refcount[m] \in Nat /\ rules[m] \in Nat /\ rules[m]' \in Nat
      /\ Cardinality(Hooking(m)) \in Nat /\ Cardinality(Unhooking(m)) \in Nat
  BY HookersFinite DEF TypeOK
<1>3. CASE m # n
  <2>1. Hooking(m)' = Hooking(m) /\ Unhooking(m)' = Unhooking(m)
    BY <1>3, Begin
  <2>2. rules[m]' = rules[m]
    BY <1>3 DEF TypeOK
  <2> QED
    BY <1>1, <2>1, <2>2
<1>4. CASE m = n /\ hpc' = [hpc EXCEPT ![h] = "hook"] /\ rules' = [rules EXCEPT ![n] = @ + 1]
  <2>1. /\ Cardinality(Hooking(m)') = Cardinality(Hooking(m)) + 1
        /\ Unhooking(m)' = Unhooking(m)
    BY <1>4, Begin
  <2>2. rules[m]' = rules[m] + 1
    BY <1>4 DEF TypeOK
  <2> QED
    BY <1>1, <1>2, <2>1, <2>2
<1>5. CASE m = n /\ hpc' = [hpc EXCEPT ![h] = "unhook"] /\ rules' = [rules EXCEPT ![n] = @ - 1]
  <2>1. /\ Cardinality(Unhooking(m)') = Cardinality(Unhooking(m)) + 1
        /\ Hooking(m)' = Hooking(m)
    BY <1>5, Begin
  <2>2. rules[m]' = rules[m] - 1
    BY <1>5 DEF TypeOK
  <2> QED
    BY <1>1, <1>2, <2>1, <2>2
<1> QED
  BY <1>3, <1>4, <1>5

\* A hook raises the count; an unhook lowers it by one at most.
LEMMA BalanceFinish ==
    ASSUME TypeOK, TypeOK', Balanced, NEW h \in Hookers, NEW label \in {"idle", "clear"},
           hpc' = [hpc EXCEPT ![h] = label], UNCHANGED <<num, rules>>,
           num[h] \in Syscalls,
           \/ /\ hpc[h] \in {"hook", "patch"}
              /\ syscall_refcount' = Grabbed(num[h])
           \/ /\ hpc[h] = "unhook"
              /\ syscall_refcount' = IF Held(num[h])
                    THEN [syscall_refcount EXCEPT ![num[h]] = @ - 1] ELSE syscall_refcount
    PROVE  Balanced'
<1> SUFFICES ASSUME NEW m \in Syscalls
             PROVE  syscall_refcount[m]' + Cardinality(Hooking(m)')
                        >= rules[m]' + Cardinality(Unhooking(m)')
  BY DEF Balanced
<1>1. syscall_refcount[m] + Cardinality(Hooking(m)) >= rules[m] + Cardinality(Unhooking(m))
  BY DEF Balanced
<1>2. /\ syscall_refcount[m] \in Nat /\ rules[m] \in Nat /\ syscall_refcount[m]' \in Nat
      /\ Cardinality(Hooking(m)) \in Nat /\ Cardinality(Unhooking(m)) \in Nat
  BY HookersFinite DEF TypeOK
<1>3. CASE m # num[h]
  <2>1. Hooking(m)' = Hooking(m) /\ Unhooking(m)' = Unhooking(m)
    BY <1>3, Finish
  <2>2. syscall_refcount[m]' = syscall_refcount[m]
    BY <1>3 DEF TypeOK, Grabbed
  <2> QED
    BY <1>1, <2>1, <2>2
<1>4. CASE m = num[h] /\ hpc[h] \in {"hook", "patch"}
  <2>1. /\ Cardinality(Hooking(m)') = Cardinality(Hooking(m)) - 1
        /\ Unhooking(m)' = Unhooking(m)
    BY <1>4, Finish
  <2>2. syscall_refcount[m]' = syscall_refcount[m] + 1
    BY <1>4 DEF TypeOK, Grabbed
  <2> QED
    BY <1>1, <1>2, <2>1, <2>2
<1>5. CASE m = num[h] /\ hpc[h] = "unhook"
  <2>1. /\ Cardinality(Unhooking(m)') = Cardinality(Unhooking(m)) - 1
        /\ Hooking(m)' = Hooking(m)
    BY <1>5, Finish
  <2>2. syscall_refcount[m]' >= syscall_refcount[m] - 1
    BY <1>2, <1>5 DEF TypeOK, Held
  <2> QED
    BY <1>1, <1>2, <2>1, <2>2
<1> QED
  BY <1>3, <1>4, <1>5

\* Steps that move no hooker in or out of the two sets.
LEMMA BalanceKept ==
    ASSUME Balanced, UNCHANGED <<rules, syscall_refcount>>,
           \A n \in Syscalls : Hooking(n)' = Hooking(n) /\ Unhooking(n)' = Unhooking(n)
    PROVE  Balanced'
BY DEF Balanced

LEMMA BalancedStep == CountInv /\ IInv' /\ [Next]_vars => Balanced'
<1> SUFFICES ASSUME CountInv, TypeOK', [Next]_vars PROVE Balanced'
  BY DEF IInv
<1>t. TypeOK /\ Balanced /\ Loaded /\ InFlight
  BY DEF CountInv, IInv
<1> USE DEF hooks, life, threads, AtH, GotoH
<1>1. ASSUME NEW h \in Hookers, HookStep(h) PROVE Balanced'
  <2>1. CASE HookRefused(h)
    <3>1. num[h] \notin Syscalls
      BY <2>1, <1>t DEF HookRefused, CanHook, Loaded
    <3>2. \A n \in Syscalls : Hooking(n)' = Hooking(n) /\ Unhooking(n)' = Unhooking(n)
      BY <2>1, <3>1, <1>t DEF HookRefused, Hooking, Unhooking, TypeOK
    <3> QED
      BY <2>1, <3>2, <1>t, BalanceKept DEF HookRefused
  <2>2. CASE HookSave(h) /\ FirstHook(num[h])
    <3>1. \A n \in Syscalls : Hooking(n)' = Hooking(n) /\ Unhooking(n)' = Unhooking(n)
      BY <2>2, <1>t DEF HookSave, Hooking, Unhooking, TypeOK
    <3> QED
      BY <2>2, <3>1, <1>t, BalanceKept DEF HookSave
  <2>3. CASE HookSave(h) /\ ~FirstHook(num[h])
    <3>1. /\ hpc' = [hpc EXCEPT ![h] = "idle"] /\ UNCHANGED <<num, rules>>
          /\ num[h] \in Syscalls /\ hpc[h] = "hook"
          /\ syscall_refcount' = Grabbed(num[h])
      BY <2>3 DEF HookSave, CanHook
    <3> QED
      BY <3>1, <1>t, BalanceFinish
  <2>4. CASE HookPatch(h)
    <3>1. /\ hpc' = [hpc EXCEPT ![h] = "idle"] /\ UNCHANGED <<num, rules>>
          /\ hpc[h] = "patch" /\ syscall_refcount' = Grabbed(num[h])
      BY <2>4 DEF HookPatch
    <3>2. num[h] \in Syscalls
      BY <3>1, <1>t DEF InFlight
    <3> QED
      BY <3>1, <3>2, <1>t, BalanceFinish
  <2>5. CASE UnhookRestore(h)
    <3>1. /\ hpc' \in {[hpc EXCEPT ![h] = "idle"], [hpc EXCEPT ![h] = "clear"]}
          /\ UNCHANGED <<num, rules>>
          /\ num[h] \in Syscalls /\ hpc[h] = "unhook"
          /\ syscall_refcount' = IF Held(num[h])
                THEN [syscall_refcount EXCEPT ![num[h]] = @ - 1] ELSE syscall_refcount
      BY <2>5 DEF UnhookRestore, CanHook
    <3> QED
      BY <3>1, <1>t, BalanceFinish
  <2>6. CASE UnhookClear(h)
    <3>1. \A n \in Syscalls : Hooking(n)' = Hooking(n) /\ Unhooking(n)' = Unhooking(n)
      BY <2>6, <1>t DEF UnhookClear, Hooking, Unhooking, TypeOK
    <3> QED
      BY <2>6, <3>1, <1>t, BalanceKept DEF UnhookClear
  <2> QED
    BY <1>1, <2>1, <2>2, <2>3, <2>4, <2>5, <2>6 DEF HookStep
<1>2. ASSUME NEW a \in Admins, NEW n \in Syscalls \cup Invalid, ListRule(a, n) PROVE Balanced'
  BY <1>2, <1>t, BalanceBegin DEF ListRule, MayServe, Hookers
<1>3. ASSUME NEW a \in Admins, NEW n \in Syscalls \cup Invalid, UnlistRule(a, n) PROVE Balanced'
  BY <1>3, <1>t, BalanceBegin DEF UnlistRule, MayServe, Hookers
<1>4. ASSUME NEW n \in Syscalls \cup Invalid, CleanupRule(n) PROVE Balanced'
  BY <1>4, <1>t, BalanceBegin DEF CleanupRule, Hookers
<1>5. ASSUME UNCHANGED <<hpc, num, rules, syscall_refcount>> PROVE Balanced'
  BY <1>5, <1>t, BalanceKept DEF Hooking, Unhooking
<1>6. ASSUME NEW t \in Threads, ThreadStep(t) PROVE Balanced'
  BY <1>5, <1>6 DEF ThreadStep, Dispatch, EnforcePolicy, CallOriginal
<1>7. CASE CoreStep
  BY <1>4, <1>5, <1>7 DEF CoreStep, RegisterDevice, FindTable, OverrideDispatcher, RollBack,
                          RestoreDispatcher, WaitForZeroWrappers, FreeModule
<1>8. CASE UNCHANGED vars
  BY <1>5, <1>8 DEF vars
<1> QED
  BY <1>1, <1>2, <1>3, <1>6, <1>7, <1>8 DEF Next, AdminStep, Unloaded

\* However administrators race, a rule listed after the load has its hook: a call
\* it is about goes through the wrapper once nobody is at work on its number.
THEOREM RulesAreHooked == ASSUME "early" \notin Env PROVE Spec => []NoRuleUnhooked
<1>1. Init => CountInv
  BY CountInit
<1>2. CountInv /\ [Next]_vars => CountInv'
  BY NextInv, LoadedStep, BalancedStep DEF CountInv
<1>3. CountInv => NoRuleUnhooked
  <2> SUFFICES ASSUME CountInv, NEW n \in Syscalls, rules[n] > 0,
                      \A h \in Hookers : hpc[h] # "idle" => num[h] # n
               PROVE  syscall_refcount[n] >= rules[n] /\ sys_call_table[n] = "wrapper"
    BY DEF NoRuleUnhooked
  <2>1. Cardinality(Hooking(n)) = 0 /\ Cardinality(Unhooking(n)) = 0
    <3>1. Hooking(n) = {} /\ Unhooking(n) = {}
      BY DEF Hooking, Unhooking
    <3> QED
      BY <3>1, FS_EmptySet
  <2>2. syscall_refcount[n] \in Nat /\ rules[n] \in Nat
    BY DEF CountInv, IInv, TypeOK
  <2>3. syscall_refcount[n] >= rules[n]
    BY <2>1, <2>2 DEF CountInv, Balanced
  <2>4. syscall_refcount[n] > 0
    BY <2>2, <2>3
  <2> QED
    BY <2>3, <2>4 DEF CountInv, IInv, HookTableSound
<1> QED
  BY <1>1, <1>2, <1>3, PTL DEF Spec
=============================================================================
