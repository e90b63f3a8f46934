--------------------------- MODULE SysInterceptor ---------------------------
(***************************************************************************)
(* The hook table of kmod/sys_interceptor.c: which system calls go through *)
(* my_dummy_syscall(), how many rules hold each hook, and where the        *)
(* original handlers are saved. Its callers are the ioctl handlers, which  *)
(* list a rule under one lock and hook its system call under another, and  *)
(* core_init() and core_exit(). The policy a hooked call is subjected to   *)
(* is one opaque step here (see PolicyEngine).                             *)
(***************************************************************************)
EXTENDS Integers, FiniteSets

CONSTANTS
    Threads,    \* callers of system calls
    Admins,     \* root processes inside defender_ioctl()
    Core,       \* the process running core_init() or core_exit()
    NoOne,      \* hook_lock is free
    Syscalls,   \* numbers within the table
    Invalid,    \* numbers hook_specific_syscall() refuses, as the wildcard -1
    MaxRules,   \* bound: rules listed at once on one number
    Env         \* which of Events may happen

\* An ioctl on the registered device before core_init() is done; a system call table
\* (see MmuScanner) or a dispatcher that cannot be found; rmmod.
Events == {"early", "no_table", "no_dispatcher", "unload"}
Hookers == Admins \cup {Core}

ASSUME InterceptorAssumption ==
    /\ IsFiniteSet(Admins)
    /\ Core \notin Admins
    /\ NoOne \notin Hookers
    /\ Syscalls \cap Invalid = {}
    /\ MaxRules \in Nat
    /\ Env \subseteq Events

VARIABLES
    core,                   \* stage of the module's life
    hpc,                    \* where each hooker is
    num,                    \* the number it hooks or unhooks
    rules,                  \* rules listed per number
    table_found,            \* sys_call_table_ptr is set
    overridden,             \* the kernel dispatches through the table
    hook_lock,
    sys_call_table,         \* per number: "original" or "wrapper"
    syscall_refcount,
    original_syscall_ptrs,  \* per number: "null", or what the table held
    pc,                     \* where each thread is
    sysno,                  \* the number it calls
    result                  \* what its last hooked call came to

hooks == <<sys_call_table, syscall_refcount, original_syscall_ptrs>>
life == <<core, table_found, overridden>>
threads == <<pc, sysno, result>>
vars == <<life, hpc, num, rules, hook_lock, hooks, threads>>

CorePcs == {"device", "discover", "override", "live", "draining", "cleanup", "gone"}
HookerPcs == {"idle", "hook", "patch", "unhook", "clear"}
Handlers == {"original", "wrapper"}
Pointers == Handlers \cup {"null"}

Init ==
    /\ core = "device"
    /\ hpc = [h \in Hookers |-> "idle"]
    /\ num \in [Hookers -> Syscalls]
    /\ rules = [n \in Syscalls \cup Invalid |-> 0]
    /\ table_found = FALSE
    /\ overridden = FALSE
    /\ hook_lock = NoOne
    /\ sys_call_table = [n \in Syscalls |-> "original"]
    /\ syscall_refcount = [n \in Syscalls |-> 0]
    /\ original_syscall_ptrs = [n \in Syscalls |-> "null"]
    /\ pc = [t \in Threads |-> "user"]
    /\ sysno \in [Threads -> Syscalls]
    /\ result = [t \in Threads |-> "none"]

AtH(h, label) == hpc[h] = label
GotoH(h, label) == hpc' = [hpc EXCEPT ![h] = label]
-----------------------------------------------------------------------------
(* The ioctl handlers.                                                     *)

\* The device answers from register_chrdev() on; rmmod waits for open files.
MayServe(a) ==
    /\ AtH(a, "idle")
    /\ core = "live" \/ (core \in {"discover", "override"} /\ "early" \in Env)

\* add_rule(): the node is published, the hook is still to come.
ListRule(a, n) ==
    /\ MayServe(a)
    /\ rules[n] < MaxRules
    /\ rules' = [rules EXCEPT ![n] = @ + 1]
    /\ num' = [num EXCEPT ![a] = n]
    /\ GotoH(a, "hook")
    /\ UNCHANGED <<life, hook_lock, hooks, threads>>

\* remove_rule(): the first node on n is unlisted, the hook is released after.
UnlistRule(a, n) ==
    /\ MayServe(a)
    /\ rules[n] > 0
    /\ rules' = [rules EXCEPT ![n] = @ - 1]
    /\ num' = [num EXCEPT ![a] = n]
    /\ GotoH(a, "unhook")
    /\ UNCHANGED <<life, hook_lock, hooks, threads>>
-----------------------------------------------------------------------------
(* hook_specific_syscall() and unhook_specific_syscall().                  *)

CanHook(n) == n \in Syscalls /\ table_found

\* The caller only logs the error: the rule stays listed.
HookRefused(h) ==
    /\ hpc[h] \in {"hook", "unhook"}
    /\ ~CanHook(num[h])
    /\ GotoH(h, "idle")
    /\ UNCHANGED <<life, num, rules, hook_lock, hooks, threads>>

NotGrabbed(n) == syscall_refcount       \* faulty: the hook is not counted
Grabbed(n) == [syscall_refcount EXCEPT ![n] = @ + 1]

SaveAlways(n) == TRUE                   \* faulty: every hook saves the pointer
FirstHook(n) == syscall_refcount[n] = 0

\* The first rule on a number saves the pointer before it patches the table.
HookSave(h) ==
    LET n == num[h]
    IN  /\ AtH(h, "hook")
        /\ CanHook(n)
        /\ hook_lock = NoOne
        /\ IF FirstHook(n)
           THEN /\ original_syscall_ptrs' = [original_syscall_ptrs EXCEPT ![n] = sys_call_table[n]]
                /\ hook_lock' = h
                /\ GotoH(h, "patch")
                /\ UNCHANGED syscall_refcount
           ELSE /\ syscall_refcount' = Grabbed(n)
                /\ GotoH(h, "idle")
                /\ UNCHANGED <<original_syscall_ptrs, hook_lock>>
        /\ UNCHANGED <<life, num, rules, sys_call_table, threads>>

HookPatch(h) ==
    /\ AtH(h, "patch")
    /\ sys_call_table' = [sys_call_table EXCEPT ![num[h]] = "wrapper"]
    /\ syscall_refcount' = Grabbed(num[h])
    /\ hook_lock' = NoOne
    /\ GotoH(h, "idle")
    /\ UNCHANGED <<life, num, rules, original_syscall_ptrs, threads>>

AlwaysHeld(n) == TRUE                   \* faulty: releases what nobody hooked
Held(n) == syscall_refcount[n] > 0

LastUnhook(n) == syscall_refcount[n] = 1

\* The last one restores the table before it forgets the pointer.
UnhookRestore(h) ==
    LET n == num[h]
    IN  /\ AtH(h, "unhook")
        /\ CanHook(n)
        /\ hook_lock = NoOne
        /\ IF Held(n)
           THEN syscall_refcount' = [syscall_refcount EXCEPT ![n] = @ - 1]
           ELSE UNCHANGED syscall_refcount
        /\ IF Held(n) /\ LastUnhook(n)
           THEN /\ sys_call_table' = [sys_call_table EXCEPT ![n] = original_syscall_ptrs[n]]
                /\ hook_lock' = h
                /\ GotoH(h, "clear")
           ELSE /\ GotoH(h, "idle")
                /\ UNCHANGED <<sys_call_table, hook_lock>>
        /\ UNCHANGED <<life, num, rules, original_syscall_ptrs, threads>>

UnhookClear(h) ==
    /\ AtH(h, "clear")
    /\ original_syscall_ptrs' = [original_syscall_ptrs EXCEPT ![num[h]] = "null"]
    /\ hook_lock' = NoOne
    /\ GotoH(h, "idle")
    /\ UNCHANGED <<life, num, rules, sys_call_table, syscall_refcount, threads>>
-----------------------------------------------------------------------------
(* my_dummy_syscall().                                                     *)

\* Only a patched entry is of interest: other calls never enter the module.
Dispatch(t, n) ==
    /\ pc[t] = "user"
    /\ overridden /\ sys_call_table[n] = "wrapper"
    /\ pc' = [pc EXCEPT ![t] = "wrapper"]
    /\ sysno' = [sysno EXCEPT ![t] = n]
    /\ UNCHANGED <<life, hpc, num, rules, hook_lock, hooks, result>>

\* enforce_syscall_policy() returns, after any delay.
EnforcePolicy(t) ==
    /\ pc[t] = "wrapper"
    /\ pc' = [pc EXCEPT ![t] = "origin"]
    /\ UNCHANGED <<life, hpc, num, rules, hook_lock, hooks, sysno, result>>

\* The saved pointer is read without a lock. After the module is gone the thread
\* runs and reads freed memory.
CallOriginal(t) ==
    /\ pc[t] = "origin"
    /\ pc' = [pc EXCEPT ![t] = "user"]
    /\ result' = [result EXCEPT ![t] =
            IF core = "gone" THEN "fault"
            ELSE IF original_syscall_ptrs[sysno[t]] = "null" THEN "ENOSYS"
            ELSE original_syscall_ptrs[sysno[t]]]
    /\ UNCHANGED <<life, hpc, num, rules, hook_lock, hooks, sysno>>
-----------------------------------------------------------------------------
(* core_init() and core_exit().                                            *)

RegisterDevice ==
    /\ core = "device"
    /\ core' = "discover"
    /\ UNCHANGED <<hpc, num, rules, table_found, overridden, hook_lock, hooks, threads>>

\* init_interceptor(): the pointer to the table is published first.
FindTable ==
    /\ core = "discover"
    /\ table_found' = TRUE
    /\ core' = "override"
    /\ UNCHANGED <<hpc, num, rules, overridden, hook_lock, hooks, threads>>

OverrideDispatcher ==
    /\ core = "override"
    /\ overridden' = TRUE
    /\ core' = "live"
    /\ UNCHANGED <<hpc, num, rules, table_found, hook_lock, hooks, threads>>

\* The scanner, or the lookup through kprobes in the other build, has returned 0.
TableMissing == core = "discover" /\ "no_table" \in Env

\* x64_sys_call is not found: such a kernel dispatches through the table anyway.
DispatcherMissing == core = "override" /\ "no_dispatcher" \in Env

\* The rollback unregisters the device and no more; an ioctl that is still in progress
\* then is left out.
RollBack ==
    /\ TableMissing \/ DispatcherMissing
    /\ \A a \in Admins : AtH(a, "idle")
    /\ core' = "gone"
    /\ UNCHANGED <<hpc, num, rules, table_found, overridden, hook_lock, hooks, threads>>

\* stop_policy_engine(), cleanup_interceptor(): the dispatcher is put back.
RestoreDispatcher ==
    /\ "unload" \in Env
    /\ core = "live"
    /\ \A a \in Admins : AtH(a, "idle")
    /\ overridden' = FALSE
    /\ core' = "draining"
    /\ UNCHANGED <<hpc, num, rules, table_found, hook_lock, hooks, threads>>

\* wait_for_zero_wrappers() sees no thread in enforce_syscall_policy(). It does
\* not see those that have not entered it yet or have left it.
WaitForZeroWrappers ==
    /\ core = "draining"
    /\ core' = "cleanup"
    /\ UNCHANGED <<hpc, num, rules, table_found, overridden, hook_lock, hooks, threads>>

\* cleanup_registry() releases the hook of every rule it takes off the list.
CleanupRule(n) ==
    /\ core = "cleanup"
    /\ AtH(Core, "idle")
    /\ rules[n] > 0
    /\ rules' = [rules EXCEPT ![n] = @ - 1]
    /\ num' = [num EXCEPT ![Core] = n]
    /\ GotoH(Core, "unhook")
    /\ UNCHANGED <<life, hook_lock, hooks, threads>>

FreeModule ==
    /\ core = "cleanup"
    /\ AtH(Core, "idle")
    /\ \A n \in DOMAIN rules : rules[n] = 0
    /\ core' = "gone"
    /\ UNCHANGED <<hpc, num, rules, table_found, overridden, hook_lock, hooks, threads>>
-----------------------------------------------------------------------------
\* The module is gone and every call has returned.
Unloaded == core = "gone" /\ (\A t \in Threads : pc[t] = "user") /\ UNCHANGED vars

HookStep(h) ==
    HookRefused(h) \/ HookSave(h) \/ HookPatch(h) \/ UnhookRestore(h) \/ UnhookClear(h)

AdminStep(a) == \E n \in Syscalls \cup Invalid : ListRule(a, n) \/ UnlistRule(a, n)

ThreadStep(t) == (\E n \in Syscalls : Dispatch(t, n)) \/ EnforcePolicy(t) \/ CallOriginal(t)

CoreStep ==
    \/ RegisterDevice \/ FindTable \/ OverrideDispatcher \/ RollBack
    \/ RestoreDispatcher \/ WaitForZeroWrappers \/ FreeModule
    \/ \E n \in Syscalls \cup Invalid : CleanupRule(n)

Next ==
    \/ \E h \in Hookers : HookStep(h)
    \/ \E a \in Admins : AdminStep(a)
    \/ \E t \in Threads : ThreadStep(t)
    \/ CoreStep \/ Unloaded

Spec == Init /\ [][Next]_vars
-----------------------------------------------------------------------------
(* Properties.                                                             *)

TypeOK ==
    /\ core \in CorePcs
    /\ hpc \in [Hookers -> HookerPcs]
    /\ num \in [Hookers -> Syscalls \cup Invalid]
    /\ rules \in [Syscalls \cup Invalid -> Nat]
    /\ table_found \in BOOLEAN /\ overridden \in BOOLEAN
    /\ hook_lock \in Hookers \cup {NoOne}
    /\ sys_call_table \in [Syscalls -> Pointers]
    /\ syscall_refcount \in [Syscalls -> Nat]
    /\ original_syscall_ptrs \in [Syscalls -> Pointers]
    /\ pc \in [Threads -> {"user", "wrapper", "origin"}]
    /\ sysno \in [Threads -> Syscalls]
    /\ result \in [Threads -> Handlers \cup {"none", "ENOSYS", "fault"}]

\* Whatever administrators add and remove at once, an entry of the table is never
\* NULL, it holds the wrapper only while the real handler is saved, and the wrapper
\* is never saved as the original, which would make it call itself.
HookTableSound ==
    \A n \in Syscalls :
        /\ sys_call_table[n] \in Handlers
        /\ sys_call_table[n] = "wrapper" => original_syscall_ptrs[n] = "original"
        /\ original_syscall_ptrs[n] # "wrapper"
        /\ syscall_refcount[n] > 0 <=> sys_call_table[n] = "wrapper"

\* core_main.c:63, core_exit(): "Ripristina Dispatcher Override e sys_call_table". Once
\* the module is gone no entry of the table leads into it.
TableRestored == core = "gone" => \A n \in Syscalls : sys_call_table[n] = "original"

\* Whatever race has made the counter wrong, it is never too low, for a rule set
\* after the module was loaded: a call that a listed rule is about goes through
\* the wrapper, unless the rule's own hook is still to come.
NoRuleUnhooked ==
    \A n \in Syscalls :
        rules[n] > 0 /\ (\A h \in Hookers : hpc[h] # "idle" => num[h] # n) =>
            syscall_refcount[n] >= rules[n] /\ sys_call_table[n] = "wrapper"

\* registry_data.h:52, "0 se il processo può procedere": a hooked call that the
\* policy has let go reaches its original handler.
CallReachesOriginal == \A t \in Threads : result[t] \notin {"ENOSYS", "fault"}
=============================================================================
