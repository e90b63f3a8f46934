---------------------------- MODULE PolicyEngine ----------------------------
(***************************************************************************)
(* The throttling engine of kmod/policy_engine.c: threads whose system     *)
(* call is hooked enter enforce_syscall_policy(), are counted against a    *)
(* rule and wait on a node on their own stack when the rule is exhausted;  *)
(* the epoch timer opens a new window every second and grants queued       *)
(* threads in FIFO order; the ioctl handlers switch the monitor, change    *)
(* rules and reset counters; core_exit() flushes, waits for the wrappers   *)
(* and frees everything.                                                   *)
(*                                                                         *)
(* One step of a thread is one access to shared state. A critical section  *)
(* of fifo_lock that touches no memory but the queue's is one step; the    *)
(* walks of the timer and of the flush are split, because each of their    *)
(* stores can be seen by the waiter before the next one is made.           *)
(***************************************************************************)
EXTENDS RegistryRules, FiniteSets

CONSTANTS
    Threads,        \* user threads that call hooked system calls
    Task,           \* [Threads -> [uid, comm]], what current_euid() and get_task_comm() say
    Syscalls,       \* the system call numbers they use
    Admins,         \* root processes inside defender_ioctl()
    Timer, Rmmod,   \* the epoch timer's softirq, the process running core_exit()
    NoOne,          \* no owner of fifo_lock, no current waiter of a walk
    InitialRules,   \* the rules listed at the start, all hooked
    MaxCalls,       \* bound: calls each thread makes, [Threads -> Nat]
    Env             \* which of Events may happen

Events == {"signal", "toggle", "add", "remove", "reset_stats", "unload"}
Walkers == Admins \cup {Timer, Rmmod}   \* those who walk fifo_waiters

ASSUME EngineAssumption ==
    /\ IsFiniteSet(Threads)
    /\ NoOne \notin Threads \cup Walkers
    /\ Timer # Rmmod /\ {Timer, Rmmod} \cap Admins = {}
    /\ Syscalls \subseteq Nat
    /\ InitialRules \in Seq(RuleIds)
    /\ MaxCalls \in [Threads -> Nat]
    /\ Env \subseteq Events

VARIABLES
    pc,                     \* where each thread is
    sysno,                  \* the system call it is making
    calls,                  \* how many it has made, at most MaxCalls[t]
    active_wrappers,
    total_blocked_threads,
    granted,                \* the token of each thread's stack waiter
    fifo_waiters,           \* the queue of waiters, named by their thread
    fifo_lock,              \* the walker holding it, or NoOne
    kpc,                    \* where each walker is
    todo,                   \* nodes the walk under way has still to visit
    cur,                    \* the waiter it is granting
    armed,                  \* epoch_timer is pending
    global_monitor_state,
    rules_list,
    current_calls,
    corrupt,                \* a node outside its owner's live frame was used
    passed,                 \* history: calls let through in this window, per rule
    ahead                   \* history: who queued before each waiter and is still queued

call     == <<sysno, calls>>
gauges   == <<active_wrappers, total_blocked_threads>>
queue    == <<granted, fifo_waiters, ahead>>
walk     == <<fifo_lock, kpc, todo, cur, armed>>
registry == <<rules_list, current_calls, passed>>
vars == <<pc, call, gauges, queue, walk, global_monitor_state, registry, corrupt>>

ThreadPcs == {"user", "wrapper", "entered", "count", "blocked", "stats", "enqueue",
              "waiting", "asleep", "interrupted", "cancelled", "released", "peak",
              "leave", "notify", "origin"}
WalkerPcs == {"idle", "lock", "walk", "unlink", "wake",
              "deltimer", "restore", "waitzero", "zerosleep", "cleanup", "freed"}

Init ==
    /\ pc = [t \in Threads |-> "user"]
    /\ sysno \in [Threads -> Syscalls]
    /\ calls = [t \in Threads |-> 0]
    /\ active_wrappers = 0
    /\ total_blocked_threads = 0
    /\ granted = [t \in Threads |-> FALSE]
    /\ fifo_waiters = <<>>
    /\ fifo_lock = NoOne
    /\ kpc = [k \in Walkers |-> "idle"]
    /\ todo = <<>>
    /\ cur = NoOne
    /\ armed = TRUE                         \* start_policy_engine()
    /\ global_monitor_state = TRUE
    /\ rules_list = InitialRules
    /\ current_calls = [r \in RuleIds |-> 0]
    /\ corrupt = FALSE
    /\ passed = [r \in RuleIds |-> 0]
    /\ ahead = [t \in Threads |-> {}]
-----------------------------------------------------------------------------
(* The stack nodes.                                                        *)

\* t is inside the block of enforce_syscall_policy() whose variable its waiter is. The
\* node is dead from the end of the block on, a little before the frame is given up.
Live(t) == pc[t] \in {"waiting", "asleep", "interrupted", "cancelled", "released", "peak"}

\* t has left the block, but has not entered the wrapper again, so the bytes of
\* the dead node may or may not have been overwritten. From the next entry on
\* nothing is known of them.
Intact(t) == Live(t) \/ pc[t] \in {"leave", "notify", "origin", "user"}

\* The nodes list_del_init() of t's node writes: its own and its neighbours'.
Linked(t) ==
    {t} \cup {fifo_waiters[i] : i \in
        {j \in DOMAIN fifo_waiters :
            \E k \in DOMAIN fifo_waiters : fifo_waiters[k] = t /\ k \in {j - 1, j + 1}}}

Unlink(t) ==
    /\ \E i \in 1 .. Len(fifo_waiters) :
        fifo_waiters[i] = t /\ fifo_waiters' = RemoveAt(fifo_waiters, i)
    /\ ahead' = [u \in Threads |-> ahead[u] \ {t}]

\* The nodes used by what a walker does next.
WalkerTouches(k) ==
    CASE kpc[k] = "walk" /\ todo # <<>>  -> {Head(todo)}
      [] kpc[k] = "unlink" -> Linked(cur)
      [] kpc[k] = "wake" -> {cur}
      [] OTHER -> {}

\* The nodes used by what a thread does to the queue next. A thread that left
\* its node in the queue builds its next one on top of it.
ThreadTouches(t) ==
    IF fifo_lock # NoOne THEN {}
    ELSE CASE pc[t] = "enqueue" /\ fifo_waiters # <<>> ->
                {Last(fifo_waiters)} \cup (IF t \in ToSet(fifo_waiters) THEN {t} ELSE {})
           [] pc[t] = "interrupted" /\ ~granted[t] -> Linked(t)
           [] OTHER -> {}
-----------------------------------------------------------------------------
(* The threads: my_dummy_syscall() and enforce_syscall_policy().           *)

At(t, label) == ~corrupt /\ pc[t] = label
Goto(t, label) == pc' = [pc EXCEPT ![t] = label]

\* The wait condition of wait_event_interruptible().
MayGoIfGranted(t) == granted[t]                 \* faulty: the monitor is not looked at
AnyWakeUp(t) == TRUE                            \* faulty: the condition is not tested
MayGo(t) == granted[t] \/ ~global_monitor_state

Hooked(n) == \E i \in DOMAIN rules_list : Rule[rules_list[i]].syscall_num = n

\* Until cleanup_interceptor() puts the dispatcher back, calls go through the table.
DispatcherOverridden ==
    kpc[Rmmod] \in {"idle", "lock", "walk", "unlink", "wake", "deltimer", "restore"}

Dispatch(t, n) ==
    /\ At(t, "user")
    /\ DispatcherOverridden /\ Hooked(n)
    /\ calls[t] < MaxCalls[t]
    /\ Goto(t, "wrapper")
    /\ calls' = [calls EXCEPT ![t] = @ + 1]
    /\ sysno' = [sysno EXCEPT ![t] = n]
    /\ UNCHANGED <<gauges, queue, walk, global_monitor_state, registry, corrupt>>

EnterPolicy(t) ==
    /\ At(t, "wrapper")
    /\ Goto(t, "entered")
    /\ active_wrappers' = active_wrappers + 1
    /\ UNCHANGED <<call, total_blocked_threads, queue, walk, global_monitor_state,
                   registry, corrupt>>

ReadMonitor(t) ==
    /\ At(t, "entered")
    /\ Goto(t, IF global_monitor_state THEN "count" ELSE "leave")
    /\ UNCHANGED <<call, gauges, queue, walk, global_monitor_state, registry, corrupt>>

\* is_throttled(): the traversal and its one atomic increment.
CountCall(t) ==
    /\ At(t, "count")
    /\ LET r == Selected(rules_list, Task[t], sysno[t])
           over == OverLimit(r, current_calls)
       IN  /\ Goto(t, IF over THEN "blocked" ELSE "leave")
           /\ current_calls' = Counted(r, current_calls)
           /\ passed' = IF over THEN passed ELSE Counted(r, passed)
    /\ UNCHANGED <<call, gauges, queue, walk, global_monitor_state, rules_list, corrupt>>

\* The waiter is initialised on the stack, the thread counted as blocked.
BlockThread(t) ==
    /\ At(t, "blocked")
    /\ Goto(t, "stats")
    /\ granted' = [granted EXCEPT ![t] = FALSE]
    /\ total_blocked_threads' = total_blocked_threads + 1
    /\ UNCHANGED <<call, active_wrappers, fifo_waiters, ahead, walk,
                   global_monitor_state, registry, corrupt>>

\* update_thread_stats() reads the registry; what it records is left out here.
RecordBlocked(t) ==
    /\ At(t, "stats")
    /\ Goto(t, "enqueue")
    /\ UNCHANGED <<call, gauges, queue, walk, global_monitor_state, registry, corrupt>>

QueuedFirst(t) == <<t>> \o fifo_waiters         \* faulty: list_add()
Queued(t) == Append(fifo_waiters, t)            \* list_add_tail()

Enqueue(t) ==
    /\ At(t, "enqueue")
    /\ fifo_lock = NoOne
    /\ \A u \in ThreadTouches(t) : Intact(u)
    /\ Goto(t, "waiting")
    /\ fifo_waiters' = Queued(t)
    /\ ahead' = [ahead EXCEPT ![t] = ToSet(fifo_waiters)]
    /\ UNCHANGED <<call, gauges, granted, walk, global_monitor_state, registry, corrupt>>

\* wait_event_interruptible() joins the private wait queue before it tests the
\* condition, so test and sleep are one step against wake_up().
Sleep(t) ==
    /\ At(t, "waiting")
    /\ ~MayGo(t)
    /\ Goto(t, "asleep")
    /\ UNCHANGED <<call, gauges, queue, walk, global_monitor_state, registry, corrupt>>

Proceed(t) ==
    /\ At(t, "waiting")
    /\ MayGo(t)
    /\ Goto(t, "released")
    /\ UNCHANGED <<call, gauges, queue, walk, global_monitor_state, registry, corrupt>>

\* A signal wakes the thread; it is interrupted unless the condition holds.
Interrupt(t) ==
    /\ "signal" \in Env
    /\ ~corrupt /\ pc[t] \in {"waiting", "asleep"}
    /\ Goto(t, IF MayGo(t) THEN "released" ELSE "interrupted")
    /\ UNCHANGED <<call, gauges, queue, walk, global_monitor_state, registry, corrupt>>

\* faulty: the node stays in the queue
StayQueued(t) ==
    /\ UNCHANGED <<fifo_waiters, ahead>>
    /\ passed' = Counted(Selected(rules_list, Task[t], sysno[t]), passed)

\* Out of the queue without a token: the call goes through uncounted.
Withdraw(t) ==
    /\ Unlink(t)
    /\ passed' = Counted(Selected(rules_list, Task[t], sysno[t]), passed)

\* The interrupted thread leaves the queue unless it was granted meanwhile, and
\* makes its call all the same.
AbandonQueue(t) ==
    /\ At(t, "interrupted")
    /\ fifo_lock = NoOne
    /\ \A u \in ThreadTouches(t) : Intact(u)
    /\ Goto(t, "cancelled")
    /\ IF granted[t]
       THEN UNCHANGED <<fifo_waiters, ahead, passed>>
       ELSE Withdraw(t)
    /\ UNCHANGED <<call, gauges, granted, walk, global_monitor_state,
                   rules_list, current_calls, corrupt>>

\* faulty: the interrupted path falls into the other one; it skips the last decrement
FallThrough(t) == IF pc[t] = "released" THEN "peak" ELSE "released"
SkipLeave(t) == IF pc[t] = "released" THEN "peak" ELSE "origin"
AfterUncount(t) == IF pc[t] = "released" THEN "peak" ELSE "leave"

Uncount(t) ==
    /\ ~corrupt /\ pc[t] \in {"cancelled", "released"}
    /\ Goto(t, AfterUncount(t))
    /\ total_blocked_threads' = total_blocked_threads - 1
    /\ UNCHANGED <<call, active_wrappers, queue, walk, global_monitor_state,
                   registry, corrupt>>

\* update_peak_delay() reads the registry; what it records is left out here.
RecordDelay(t) ==
    /\ At(t, "peak")
    /\ Goto(t, "leave")
    /\ UNCHANGED <<call, gauges, queue, walk, global_monitor_state, registry, corrupt>>

NobodyNotifies == "origin"                      \* faulty: no wake_up()
AfterLeave == IF active_wrappers = 1 THEN "notify" ELSE "origin"

LeavePolicy(t) ==
    /\ At(t, "leave")
    /\ Goto(t, AfterLeave)
    /\ active_wrappers' = active_wrappers - 1
    /\ UNCHANGED <<call, total_blocked_threads, queue, walk, global_monitor_state,
                   registry, corrupt>>

NotifyUnload(t) ==
    /\ At(t, "notify")
    /\ Goto(t, "origin")
    /\ kpc' = [kpc EXCEPT ![Rmmod] = IF @ = "zerosleep" THEN "waitzero" ELSE @]
    /\ UNCHANGED <<call, gauges, queue, fifo_lock, todo, cur, armed,
                   global_monitor_state, registry, corrupt>>

\* The saved pointer is fetched and the original system call made: the thread
\* is out of the module's text.
CallOriginal(t) ==
    /\ At(t, "origin")
    /\ Goto(t, "user")
    /\ UNCHANGED <<call, gauges, queue, walk, global_monitor_state, registry, corrupt>>
-----------------------------------------------------------------------------
(* The walks of fifo_waiters: epoch_timer_callback(), flush_all_waiters().  *)

AtK(k, label) == ~corrupt /\ kpc[k] = label
GotoK(k, label) == kpc' = [kpc EXCEPT ![k] = label]

\* del_timer'ed on expiry; reset_all_counters() opens the window before the lock.
TimerFire ==
    /\ AtK(Timer, "idle")
    /\ armed
    /\ armed' = FALSE
    /\ current_calls' = [r \in RuleIds |->
            IF r \in ToSet(rules_list) THEN 0 ELSE current_calls[r]]
    /\ passed' = [r \in RuleIds |-> IF r \in ToSet(rules_list) THEN 0 ELSE passed[r]]
    /\ GotoK(Timer, "lock")
    /\ UNCHANGED <<pc, call, gauges, queue, fifo_lock, todo, cur,
                   global_monitor_state, rules_list, corrupt>>

AcquireFifo(k) ==
    /\ AtK(k, "lock")
    /\ fifo_lock = NoOne
    /\ fifo_lock' = k
    /\ todo' = fifo_waiters
    /\ GotoK(k, "walk")
    /\ UNCHANGED <<pc, call, gauges, queue, cur, armed, global_monitor_state,
                   registry, corrupt>>

ForgetGrant(w) == granted' = granted /\ cur' = w  \* faulty: the token is not given
Grant(w) ==
    /\ granted' = [granted EXCEPT ![w] = TRUE]
    /\ cur' = w

\* The timer counts the waiter's call against the new window.
TimerVisit ==
    /\ AtK(Timer, "walk")
    /\ todo # <<>> /\ Intact(Head(todo))
    /\ LET w == Head(todo)
           r == Selected(rules_list, Task[w], sysno[w])
       IN  /\ current_calls' = Counted(r, current_calls)
           /\ IF OverLimit(r, current_calls)
              THEN UNCHANGED <<kpc, granted, cur, passed>>
              ELSE /\ GotoK(Timer, "unlink")
                   /\ Grant(w)
                   /\ passed' = Counted(r, passed)
    /\ todo' = Tail(todo)
    /\ UNCHANGED <<pc, call, gauges, fifo_waiters, ahead, fifo_lock, armed,
                   global_monitor_state, rules_list, corrupt>>

\* The flush of set_global_monitor_state(0) grants every waiter.
FlushVisit(k) ==
    /\ AtK(k, "walk") /\ k # Timer
    /\ todo # <<>> /\ Intact(Head(todo))
    /\ GotoK(k, "unlink")
    /\ Grant(Head(todo))
    /\ todo' = Tail(todo)
    /\ UNCHANGED <<pc, call, gauges, fifo_waiters, ahead, fifo_lock, armed,
                   global_monitor_state, registry, corrupt>>

UnlinkGranted(k) ==
    /\ AtK(k, "unlink")
    /\ \A u \in Linked(cur) : Intact(u)
    /\ Unlink(cur)
    /\ GotoK(k, "wake")
    /\ UNCHANGED <<pc, call, gauges, granted, fifo_lock, todo, cur, armed,
                   global_monitor_state, registry, corrupt>>

\* wake_up() on the waiter's private wait queue.
WakeGranted(k) ==
    /\ AtK(k, "wake")
    /\ Intact(cur)
    /\ pc' = [pc EXCEPT ![cur] = IF @ = "asleep" THEN "waiting" ELSE @]
    /\ cur' = NoOne
    /\ GotoK(k, "walk")
    /\ UNCHANGED <<call, gauges, queue, fifo_lock, todo, armed, global_monitor_state,
                   registry, corrupt>>

NotRearmed(k) == armed                          \* faulty: no mod_timer()
Rearmed(k) == armed \/ k = Timer

\* The walk is over: the timer is armed again, rmmod goes on.
ReleaseFifo(k) ==
    /\ AtK(k, "walk")
    /\ todo = <<>>
    /\ fifo_lock' = NoOne
    /\ armed' = Rearmed(k)
    /\ GotoK(k, IF k = Rmmod THEN "deltimer" ELSE "idle")
    /\ UNCHANGED <<pc, call, gauges, queue, todo, cur, global_monitor_state,
                   registry, corrupt>>

\* A node whose waiter has gone out of scope is used: whatever the stack holds
\* by now is followed as list pointers, written or locked. The model stops.
TouchStale ==
    /\ ~corrupt
    /\ \/ \E k \in Walkers : \E w \in WalkerTouches(k) : ~Live(w)
       \/ \E t \in Threads : \E w \in ThreadTouches(t) : ~Live(w)
    /\ corrupt' = TRUE
    /\ UNCHANGED <<pc, call, gauges, queue, walk, global_monitor_state, registry>>
-----------------------------------------------------------------------------
(* The ioctl handlers. An open device pins the module, so none of them runs *)
(* once core_exit() has begun.                                              *)

MayServe(a) == AtK(a, "idle") /\ kpc[Rmmod] = "idle"

NoFlush(on) == "idle"                           \* faulty: the waiters are left alone
AfterToggle(on) == IF on THEN "idle" ELSE "lock"

\* set_global_monitor_state(): switching off is followed by a flush.
Toggle(a, on) ==
    /\ "toggle" \in Env
    /\ MayServe(a)
    /\ global_monitor_state' = on
    /\ GotoK(a, AfterToggle(on))
    /\ UNCHANGED <<pc, call, gauges, queue, fifo_lock, todo, cur, armed,
                   registry, corrupt>>

\* add_rule(): a fresh node at the tail of the list. Hooking is in SysInterceptor.
AddRule(a, r) ==
    /\ "add" \in Env
    /\ MayServe(a)
    /\ r \notin ToSet(rules_list)
    /\ rules_list' = Append(rules_list, r)
    /\ current_calls' = [current_calls EXCEPT ![r] = 0]
    /\ passed' = [passed EXCEPT ![r] = 0]
    /\ UNCHANGED <<pc, call, gauges, queue, walk, global_monitor_state, corrupt>>

\* remove_rule(): the first rule on n leaves the list.
RemoveRule(a, n) ==
    /\ "remove" \in Env
    /\ MayServe(a)
    /\ \E i \in 1 .. Len(rules_list) :
        /\ rules_list[i] = FirstOn(rules_list, n)
        /\ rules_list' = RemoveAt(rules_list, i)
    /\ UNCHANGED <<pc, call, gauges, queue, walk, global_monitor_state,
                   current_calls, passed, corrupt>>

\* reset_rule_stats() clears the window's counter along with the statistics.
ResetStats(a, n) ==
    /\ "reset_stats" \in Env
    /\ MayServe(a)
    /\ LET r == FirstOn(rules_list, n)
       IN  /\ r # NoRule
           /\ current_calls' = [current_calls EXCEPT ![r] = 0]
    /\ UNCHANGED <<pc, call, gauges, queue, walk, global_monitor_state,
                   rules_list, passed, corrupt>>
-----------------------------------------------------------------------------
(* rmmod: core_exit().                                                      *)

\* stop_policy_engine() begins with set_global_monitor_state(0).
StopPolicyEngine ==
    /\ "unload" \in Env
    /\ AtK(Rmmod, "idle")
    /\ \A a \in Admins : kpc[a] = "idle"
    /\ global_monitor_state' = FALSE
    /\ GotoK(Rmmod, "lock")
    /\ UNCHANGED <<pc, call, gauges, queue, fifo_lock, todo, cur, armed,
                   registry, corrupt>>

AnyTime == TRUE                                 \* faulty: del_timer()
TimerQuiet == kpc[Timer] = "idle"

\* del_timer_sync() waits for a running callback, also when it re-arms itself.
DelTimerSync ==
    /\ AtK(Rmmod, "deltimer")
    /\ TimerQuiet
    /\ armed' = FALSE
    /\ GotoK(Rmmod, "restore")
    /\ UNCHANGED <<pc, call, gauges, queue, fifo_lock, todo, cur,
                   global_monitor_state, registry, corrupt>>

CleanupInterceptor ==
    /\ AtK(Rmmod, "restore")
    /\ GotoK(Rmmod, "waitzero")
    /\ UNCHANGED <<pc, call, gauges, queue, fifo_lock, todo, cur, armed,
                   global_monitor_state, registry, corrupt>>

WaitForZeroWrappers ==
    /\ AtK(Rmmod, "waitzero")
    /\ GotoK(Rmmod, IF active_wrappers = 0 THEN "cleanup" ELSE "zerosleep")
    /\ UNCHANGED <<pc, call, gauges, queue, fifo_lock, todo, cur, armed,
                   global_monitor_state, registry, corrupt>>

\* cleanup_char_device(), cleanup_registry(); then the kernel frees the module.
CleanupRegistry ==
    /\ AtK(Rmmod, "cleanup")
    /\ rules_list' = <<>>
    /\ GotoK(Rmmod, "freed")
    /\ UNCHANGED <<pc, call, gauges, queue, fifo_lock, todo, cur, armed,
                   global_monitor_state, current_calls, passed, corrupt>>
-----------------------------------------------------------------------------
\* Nothing follows a corruption, or the end of rmmod and of every call.
Halted ==
    /\ corrupt \/ (kpc[Rmmod] = "freed" /\ \A t \in Threads : pc[t] = "user")
    /\ UNCHANGED vars

\* What a thread does with fifo_lock, and without.
QueueStep(t) == Enqueue(t) \/ AbandonQueue(t)

ThreadStep(t) ==
    \/ EnterPolicy(t) \/ ReadMonitor(t) \/ CountCall(t)
    \/ BlockThread(t) \/ RecordBlocked(t) \/ Sleep(t) \/ Proceed(t)
    \/ Uncount(t) \/ RecordDelay(t)
    \/ LeavePolicy(t) \/ NotifyUnload(t) \/ CallOriginal(t)

\* What a walker waits for, the lock or the timer, and what it does by itself.
WaitStep(k) == AcquireFifo(k) \/ (k = Rmmod /\ DelTimerSync)

WalkStep(k) ==
    \/ FlushVisit(k) \/ UnlinkGranted(k) \/ WakeGranted(k) \/ ReleaseFifo(k)
    \/ k = Timer /\ (TimerFire \/ TimerVisit)
    \/ k = Rmmod /\ (CleanupInterceptor \/ WaitForZeroWrappers \/ CleanupRegistry)

AdminStep(a) ==
    \/ \E on \in BOOLEAN : Toggle(a, on)
    \/ \E r \in RuleIds : AddRule(a, r)
    \/ \E n \in Syscalls \cup {AnySyscall} : RemoveRule(a, n) \/ ResetStats(a, n)

Next ==
    \/ \E t \in Threads :
        \/ \E n \in Syscalls : Dispatch(t, n)
        \/ ThreadStep(t) \/ QueueStep(t) \/ Interrupt(t)
    \/ \E k \in Walkers : WaitStep(k) \/ WalkStep(k)
    \/ \E a \in Admins : AdminStep(a)
    \/ StopPolicyEngine \/ TouchStale \/ Halted

Spec == Init /\ [][Next]_vars

\* Every runnable thread, walker and the timer get the CPU; fifo_lock is a queued
\* spinlock, which serves its waiters in turn; del_timer_sync() keeps retrying
\* while the timer is idle for a second at a time. Nothing makes a thread call, a
\* signal arrive or an administrator act.
Fairness ==
    /\ \A t \in Threads : WF_vars(ThreadStep(t)) /\ SF_vars(QueueStep(t))
    /\ \A k \in Walkers : WF_vars(WalkStep(k)) /\ SF_vars(WaitStep(k))
    /\ WF_vars(TouchStale)

FairSpec == Spec /\ Fairness
=============================================================================
