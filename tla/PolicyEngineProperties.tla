----------------------- MODULE PolicyEngineProperties -----------------------
(***************************************************************************)
(* What the throttling engine has to keep, and what its comments and its   *)
(* README say it keeps.                                                    *)
(***************************************************************************)
EXTENDS PolicyEngine

\* Not between the first atomic_inc and the last atomic_dec of active_wrappers.
OutsidePcs == {"user", "wrapper", "notify", "origin"}
Inside(t) == pc[t] \notin OutsidePcs

\* Counted by total_blocked_threads.
BlockedPcs == {"stats", "enqueue", "waiting", "asleep", "interrupted", "cancelled", "released"}
Blocked(t) == pc[t] \in BlockedPcs

\* About to read or reading the rule list, or holding a waiter.
UsesRegistry(t) == pc[t] \notin OutsidePcs \cup {"entered", "leave"}

\* Suspended in wait_event_interruptible().
Suspended(t) == pc[t] \in {"waiting", "asleep"}

\* In the queue, or granted on the way out of it.
Waits(t) == pc[t] \in {"waiting", "asleep", "interrupted"}

\* A walk has granted t and is about to take its node out of the queue.
BeingUnlinked(t) == cur = t /\ \E k \in Walkers : kpc[k] = "unlink"

\* The types of the variables other than the gauges.
Types ==
    /\ pc \in [Threads -> ThreadPcs]
    /\ sysno \in [Threads -> Syscalls]
    /\ calls \in [Threads -> Nat]
    /\ granted \in [Threads -> BOOLEAN]
    /\ fifo_waiters \in Seq(Threads)
    /\ fifo_lock \in Walkers \cup {NoOne}
    /\ kpc \in [Walkers -> WalkerPcs]
    /\ todo \in Seq(Threads)
    /\ cur \in Threads \cup {NoOne}
    /\ armed \in BOOLEAN
    /\ global_monitor_state \in BOOLEAN
    /\ rules_list \in Seq(RuleIds)
    /\ current_calls \in [RuleIds -> Nat]
    /\ corrupt \in BOOLEAN
    /\ passed \in [RuleIds -> Nat]
    /\ ahead \in [Threads -> SUBSET Threads]

\* Type correctness. The gauges are atomic_t that never go below zero.
TypeOK == Types /\ active_wrappers \in Nat /\ total_blocked_threads \in Nat

InsideSet == {t \in Threads : Inside(t)}
BlockedSet == {t \in Threads : Blocked(t)}

\* Every path out of enforce_syscall_policy() undoes what the way in counted:
\* rmmod waits for the first gauge, the statistics report the second.
GaugesExact ==
    /\ active_wrappers = Cardinality(InsideSet)
    /\ total_blocked_threads = Cardinality(BlockedSet)

\* A suspended thread without a token is in the queue: whoever walks it next
\* finds the thread, whatever timer, flush and signals have done.
NoLostWaiter ==
    \A t \in Threads : Suspended(t) /\ ~granted[t] => t \in ToSet(fifo_waiters)

\* A thread sleeps on a true wait condition only while a walker is committed to
\* waking it: the one granting it, or a flush that has its node ahead.
NoLostWakeup ==
    \A t \in Threads :
        pc[t] = "asleep" /\ (granted[t] \/ ~global_monitor_state) =>
            \E k \in Walkers :
                \/ kpc[k] \in {"unlink", "wake"} /\ cur = t
                \/ k # Timer /\ kpc[k] = "lock"
                \/ k # Timer /\ kpc[k] \in {"walk", "unlink", "wake"} /\ t \in ToSet(todo)

\* A thread leaves the frame that its queued node is in only when it finds the monitor
\* off, or when the walk that has granted it is about to unlink the node.
NoDanglingWaiter ==
    [][\A t \in Threads :
        Waits(t) /\ ~Waits(t)' /\ t \in ToSet(fifo_waiters)' =>
            ~global_monitor_state \/ BeingUnlinked(t)]_vars

\* README.md:39, "rispetto della soglia MAX". In one window at most max_calls calls
\* counted against a rule are let through, granted ones included.
RateLimit ==
    \A r \in ToSet(rules_list) : passed[r] <= Rule[r].max_calls

\* README.md:45, "FIFO Strict". The timer never grants a waiter over one that queued
\* before it, still waits and is counted against the same rule.
ServedInOrder ==
    [][\A w \in Threads :
        fifo_lock = Timer /\ ~granted[w] /\ granted'[w] =>
            \A u \in ahead[w] \ {w} :
                Waits(u) =>
                    Selected(rules_list, Task[u], sysno[u])
                        # Selected(rules_list, Task[w], sysno[w])]_vars

\* registry_data.c, cleanup_registry(): "non ci sono più lettori attivi". Once
\* rmmod is past wait_for_zero_wrappers() no thread is where it reads the rules,
\* and the timer neither runs nor will: the nodes can be freed at once.
NoReaderAfterZero ==
    kpc[Rmmod] \in {"cleanup", "freed"} =>
        /\ \A t \in Threads : ~UsesRegistry(t)
        /\ kpc[Timer] = "idle" /\ ~armed

\* policy_engine.c, wait_for_zero_wrappers(): rmmod does not sleep on a gauge of zero
\* unless the thread that brought it there is about to wake it up, whoever else comes
\* in and leaves in between.
UnloadIsWoken ==
    kpc[Rmmod] = "zerosleep" /\ active_wrappers = 0 =>
        \E t \in Threads : pc[t] = "notify"
-----------------------------------------------------------------------------
(* Liveness, under FairSpec.                                               *)

\* With limits of at least 1 every call comes back: each window grants the
\* head of the queue, unless callers that never queued have used it up, and
\* the bounded calls leave no caller to do that for ever.
AllCallsComplete == \A t \in Threads : pc[t] # "user" ~> pc[t] = "user" \/ corrupt

\* The monitor is on and some rule is set on t's call.
HasCause(t) ==
    global_monitor_state /\ Selected(rules_list, Task[t], sysno[t]) # NoRule

\* README.md:519, step 5: a thread suspended without a cause does not
\* stay so unless the cause comes back. Switching the monitor off lets go
\* whoever is queued or queues later; removing the rule lets its waiters go at
\* the next tick, even if its limit was 0.
NeedlessWaitEnds ==
    \A t \in Threads :
        Suspended(t) /\ ~HasCause(t) ~> ~Suspended(t) \/ HasCause(t) \/ corrupt

\* rmmod always ends, whatever waits when it begins.
UnloadCompletes == kpc[Rmmod] # "idle" ~> kpc[Rmmod] = "freed" \/ corrupt
-----------------------------------------------------------------------------
(* What the repository says and the code does not keep.                    *)

\* policy_engine.c:37, the waiter is "allocata sullo STACK di ogni thread
\* sospeso": every node a walk uses belongs to a thread still in its frame.
WalkUsesLiveWaiters == \A k \in Walkers : \A w \in WalkerTouches(k) : Live(w)

\* core_main.c:64, "Aspetta che tutti i thread già dentro il codice del modulo
\* completino": no thread is in the module's text once the module is freed.
UnloadLeavesNobodyInside ==
    kpc[Rmmod] = "freed" => \A t \in Threads : pc[t] = "user"
=============================================================================
