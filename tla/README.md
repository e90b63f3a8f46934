# A TLA+ model of syscall-throttling

The repository is a Linux kernel module that limits how often a user or a
program may make a system call. It finds and patches `sys_call_table`, counts
the calls that match a rule, and suspends callers over the limit until a timer
opens the next one-second window. A device with six ioctl commands, and a
command line tool for it, set the rules. This directory models the module and
its tool in TLA+, checks the models with TLC on small instances, and proves
their main properties with TLAPS for instances of every size.

    tlc -config PolicyEngine_core.cfg MCPolicyEngine.tla      # and _limit, _complete, _deny, _rmmod
    tlc -config SysInterceptor_table.cfg MCHookTable.tla
    tlc -config RegistryNodes_rcu.cfg MCRegistryNodes.tla
    tlc -config CharDevice_control.cfg MCCharDevice.tla
    tlapm ListFacts.tla                       # and the seven *Proofs.tla

## 1. The system

| Component | State | Operations | Modelled in |
|---|---|---|---|
| Policy engine (`kmod/policy_engine.c`) | `global_monitor_state`, `active_wrappers`, `total_blocked_threads`, the queue `fifo_waiters` of nodes on the callers' stacks, `fifo_lock`, `epoch_timer` | `enforce_syscall_policy()`, the timer callback, flush, toggle, stop, wait for zero wrappers | `PolicyEngine`; what it promises in `ThrottleSpec` |
| Rule registry (`kmod/registry_data.c`) | `rules_list`, per rule its fields, `current_calls` and statistics; `registry_lock` or RCU | add, remove, `is_throttled()`, reset of counters, statistics, snapshot, cleanup | `RegistryRules` (matching, counting), `RegistryNodes` (the list in memory), `RuleStats` (statistics, snapshot) |
| Interceptor (`kmod/sys_interceptor.c`) | `sys_call_table`, `syscall_refcount`, `original_syscall_ptrs`, `hook_lock`, the dispatcher's first bytes, CR0/CR4 | hook, unhook, the wrapper, init, cleanup | `SysInterceptor`, without the register writes and the bytes patched into the dispatcher |
| Lifecycle (`kmod/core_main.c`) | none of its own | `core_init()` with rollback, `core_exit()` | `SysInterceptor` (both), `PolicyEngine` (exit) |
| Character device (`kmod/char_device.c`) | major number | six ioctl commands for root | `CharDevice`; what they do to waiters and hooks in `PolicyEngine` and `SysInterceptor` |
| CLI (`userspace/cli_tool.c`) | none | one ioctl per run | `CliTool`, run by `CharDevice` |
| MMU scanner (`kmod/mmu_scanner.c`) | none | search of memory for the table | `MmuScanner`, composed with the interceptor in `MCHookTable` |
| Kprobes discovery | none | one symbol lookup | its two outcomes, `FindTable` and `TableMissing` of `SysInterceptor` |
| Tests, scripts, plots | none | drivers | not modelled; they set the instances |

How the parts meet: a hooked call runs `my_dummy_syscall()`, which calls the
engine, which calls the registry (count, statistics) and then sleeps; the timer
calls the registry from softirq and grants waiters; ioctls write the registry,
the hook table and the monitor's switch; `rmmod` stops the engine, restores the
dispatcher, waits for the gauge and frees the registry, which releases the hooks.
All of it is shared memory; nothing is persisted and nothing is sent.

What makes it hard:

* The queue's nodes live on the stacks of threads that may leave at any time: on a token,
  on a switch-off, on a signal. The wait condition is read without the
  lock that the walks hold.
* Three walkers (timer, toggle, rmmod) against any number of callers.
* The rule list is read without a lock while nodes are linked, unlinked and freed.
* Listing a rule and hooking its system call are two critical sections.
* Blocking a caller and recording it in a rule are several critical sections, between
  which the rule may be cleared, removed or set anew.
* Unloading has to know that nobody is in the module's text any more.
* Progress rests on a timer that re-arms itself and on a wake-up of `rmmod`.

`PROJECT.json` lists each hazard at its line, with the properties aimed at it or
the reason why there is none.

## 2. The modules

### The engine

**`RegistryRules`** is the registry seen by one reader: `Matches`, `Selected`
(the rule at which the loop of `is_throttled()` breaks), `OverLimit` and
`Counted` (`atomic_inc_return()` and the comparison), and `FirstOn` (the rule that
removal and the reset operate on, which need not be the one that
throttles). Rules are identifiers with constant fields; a list is a sequence of
them. Equality of names stands for `strncmp`: names are cut to 16 bytes on both sides.

**`PolicyEngine`** is the engine with the ioctls and `core_exit()`. A thread's
`pc` is its place in the code:

| `pc` | where | next action |
|---|---|---|
| `user` | in user space | `Dispatch` |
| `wrapper` | in `my_dummy_syscall()`, not counted yet | `EnterPolicy` (line 66) |
| `entered` | | `ReadMonitor` (68) |
| `count` | | `CountCall` (80) |
| `blocked`, `stats`, `enqueue` | setting up the waiter | `BlockThread`, `RecordBlocked`, `Enqueue` (88-107) |
| `waiting`, `asleep` | `wait_event_interruptible()` | `Proceed`, `Sleep`, `Interrupt` (110) |
| `interrupted`, `cancelled` | signal path | `AbandonQueue`, `Uncount` (111-118) |
| `released`, `peak` | normal path | `Uncount`, `RecordDelay` (126-133) |
| `leave`, `notify` | last decrement, `wake_up()` of rmmod | `LeavePolicy`, `NotifyUnload` |
| `origin` | back in the wrapper | `CallOriginal` |

A walker's `kpc` does the same for the timer, the administrators who flush and
`rmmod`. The walks are split at each store a waiter can see before the next one:
the token (`TimerVisit`, `FlushVisit`), the unlinking (`UnlinkGranted`), the
wake-up (`WakeGranted`). Critical sections of `fifo_lock` that touch only the
queue are one step, as no one else reads the queue without the lock.
`TimerFire` is the expiry with `reset_all_counters()`, which runs before the lock is
taken.

The nodes: `Live(t)` says that t is in the block whose variable its waiter is; past its end
the node is dead, a little before the frame is given up.
A step that uses a node which is not live may either find the bytes intact
(as long as the thread has not entered the wrapper again, `Intact`), and
then goes on as written, or find anything; the second is `TouchStale`, which sets
`corrupt` and ends the behaviour: no property is claimed beyond undefined behaviour.
Two variables are history: `passed` (calls let through per rule and window) and
`ahead` (who queued before each waiter).

**`PolicyEngineProperties`** states what the engine has to keep;
**`MCPolicyEngine`** gives TLC its constants.

**`ThrottleSpec`** is what the engine promises, with no lock, timer callback, token,
gauge or list node in it: each rule has a budget per window, a call over it is refused
and queues, every window serves the first of each rule's waiters as far as the budget
goes, and a caller may give up waiting, upon which it makes its call without being
charged. `before` is who queued before each waiter and waits still. The monitor has a
switch: while it is off calls bypass the engine, and whoever switches it off (`flushing`)
sends home all who wait and is done when the queue is empty. A waiter that leaves by itself
because the monitor is off may forget to sign off (`WalkOut`); it is then `absent`, and a
later window spends at most one call of a budget on it (`ServeAbsent`), unless a flush
strikes it off (`StrikeOff`). That is the promise as the code keeps it, `ServeAbsent`
included, and not the one its documentation would make.

**`PolicyEngineRefinement`** instantiates it: a granted waiter counts as served
although the walk has yet to unlink it, `absent` are the nodes that nobody waits on
(`Abandoned`), and what is spent of a budget is the count cut
at the limit, as `current_calls` counts refused calls too. `ImplementsThrottle` holds
while the rules are left alone, whatever signals, toggles and `rmmod` do; a list of rules that
changes is not in `ThrottleSpec`. It does not hold across `IOCTL_RESET_STATS`, which gives a
waiter at the back of the timer's walk a budget that one before it was refused.

### The registry

**`RegistryNodes`** is the list node by node, in both builds of the module. A
traversal loads one pointer at a time (`Load`, `Examine`), in an RCU section or under
`registry_lock`; `Allocate`, `LockToWrite`, `Publish` are `add_rule()`, `Want`,
`LockToWrite`, `Unlink`, then `Synchronize`, `GracePeriodEnds`, `Kfree` are
`remove_rule()`. An unlinked node keeps its forward pointer (`Kept`), which readers on it
still follow; `pending` are the readers a `synchronize_rcu()` waits for. `kmalloc()` may
hand a freed node out again. The timer is a softirq: the process it interrupts, if any,
stands still until it ends. Four variables are history, each per traversal: `seen`, the nodes
linked at some moment of it; `answers`, what a search that took no time would have found at some
moment of it; `visited`, the nodes it has examined; `due`, those linked ever since it began that
it has not examined yet. In the spinlock build the timer may interrupt the holder of `registry_lock` and spin
on it (`SelfDeadlock`, then only `SpinForEver`). `README.md:247` of the repository
reports deadlocks of that build under load without naming the cause; this is a way to
one. Callers and administrators take the lock without disabling bottom halves, so it
does not need more than one CPU.

**`RuleStats`** has one operator for each operation on the statistics, named as in the
source, over a list of rules with their counters, and `Report` and `Export` for what
leaves the kernel.

### The control path

**`CliTool`** maps a command line, as `getopt()` splits it, to the one ioctl the tool
makes: sentinels, later options overriding earlier ones, the order of precedence of the
actions. **`CharDevice`** runs it: tools and other clients issue ioctls (`RunTool`,
`CallIoctl`), which may be refused (`Refuse`: not root, unknown command, a bad pointer,
no memory), pass (`Accept`), work on the rules in one critical section each (`SetRule` to
`ListRules`), copy the answer out (`CopyOut`, which may fail) and become an exit status.
Meanwhile callers block, record how many were blocked, are let go and record their
delay (`Block`, `RecordBlocked`, `Unblock`, `RecordDelay`), in separate steps as in the
engine. **`MCCharDevice`** gives the command lines.

### The hook table

**`SysInterceptor`** is the hook table with its callers: `ListRule`/`UnlistRule`
are the list operations of `add_rule()`/`remove_rule()`, after which the
administrator is at `hook`/`unhook`, waiting for `hook_lock`. `HookSave` and `HookPatch`,
`UnhookRestore` and `UnhookClear` are the halves of the two critical sections, split
because threads read the table and the saved pointers without a lock. `core` is the
stage of `core_init()`/`core_exit()`; `TableMissing`, `DispatcherMissing` and `RollBack`
are its failures. The policy is one opaque step here. **`MCSysInterceptor`** gives the
constants.

**`MmuScanner`** is the search for the table as recursive functions over a memory of
numbered pages: the page walk (`sys_vtpmo`), the signature with `good_area`, the scan of
a page (`Validation`) and of all pages (`Scan`), with the addresses they read.
`Tables` says without any loop where a table is. **`MCHookTable`** composes the search
with the interceptor: what `FindTable` sets is what the search must find, and
while it runs nothing unmapped may be read.

### Proofs

**`ListFacts`** holds lemmas about lists, gauges and loops that the proofs share (removing,
appending, the tail, the first element with a property, one thread more or less in a counted
set, what a recursive function over the indices of a loop computes).
**`PolicyEngineProofs`** (types, gauges, unloading, the wake-up of `rmmod`, no waiter lost, the
limit, no wake-up lost), **`PolicyEngineOrderProofs`** (which nodes are in the queue, order of
service) and **`PolicyEngineRefinementProofs`** (the engine implements `ThrottleSpec`) build on
each other; **`RegistryNodesProofs`**, **`SysInterceptorProofs`**, **`CharDeviceProofs`** and
**`MmuScannerProofs`** stand for themselves.

Definitions commented `faulty:` are plausible slips in the code next to the
definitions they would replace. No action uses them; each makes one of the checked
properties fail, which is how it is known that the property can.

## 3. What the runs show

Passing runs:

| Run | Instance | Properties |
|---|---|---|
| `engine_core` | 2 threads of one program under its limit of 1, with two calls each; signals, 2 administrators who switch the monitor, rmmod | `TypeOK`; `GaugesExact`; `NoLostWaiter`: who is suspended without a token is in the queue; `NoDanglingWaiter`: a thread leaves its queued node only if it finds the monitor off or the walk is about to unlink the node; `ServedInOrder`: first come, first granted, per rule; `ImplementsThrottle`: every step is one of `ThrottleSpec` or invisible to it |
| `engine_limit` | 3 threads of 2 users and 2 programs, a rule by program and one by user on all numbers, both with limit 1 and one thread matching both, added and removed, monitor toggled | `RateLimit`: at most MAX calls per rule and window; `NoLostWakeup`: nobody sleeps on a true condition unless a walker is bound to reach it |
| `engine_complete` | 3 threads, limit 1 | `AllCallsComplete`: every call returns |
| `engine_deny` | 2 threads, limit 0, toggles, rule removed | `NeedlessWaitEnds`: nobody stays suspended once the monitor is off or the rule is gone, also who queues after the flush |
| `engine_rmmod` | 2 threads, limit 0, signals, an administrator resetting statistics, rmmod | `UnloadCompletes`: rmmod ends; `NoReaderAfterZero`: the registry is freed without readers; `UnloadIsWoken`: rmmod does not sleep on a gauge of zero unless a thread is about to wake it |
| `hook_table` | 2 administrators, 2 numbers and the wildcard, 1 caller, from load to unload, with a table or a dispatcher that is not found; every memory of two pages of four words | `TypeOK`; `HookTableSound`; `NoRuleUnhooked`: however adding and removing race, a listed rule has its hook; `ScanFindsTable`: the search finds the lowest table, also across a page border; `ScanReadsOnlyMapped`: it reads no page that is not there |
| `registry_nodes` | 1 caller, the timer, 2 administrators, 2 nodes, 2 keys of which one is searched for; both builds | `TypeOK`; `NoUseAfterFree`: no traversal stands on freed memory; `TraversalIsAtomic`: a search answers what an immediate one would have answered at some moment of it; `VisitsOnce`: no traversal comes back to a node it has visited, so that it ends; `NothingMissed`: one that stops at nothing (the timer's reset, the printing of the rules) visits each node that stays linked |
| `control_path` | A tool and another client, 2 callers of one number with one blocking call each | `TypeOK` (the export never exceeds the payload); `StatsCoherent`: counters, peaks, averages and victims agree with each other, in the kernel and in every report; `OneRuleCharged`: only the first rule on a number ever shows events; `ExitStatusIsTruthful`: success exactly if the registry did it; `WildcardOutOfReach`: the tool never sets, removes or clears a rule on every call |

Runs that show where the code departs from what the repository says:

| Run | What happens |
|---|---|
| `stale_waiter` | The timer stores the token of a waiter that is about to test its condition. The thread leaves; the walk unlinks and wakes a dead node. |
| `inside_after_unload` | `rmmod` waits for the counted section only; a thread at the edges of the wrapper remains in freed text. |
| `hook_race` | A rule is removed between its listing and its hooking. The hook is then counted for no rule, no cleanup releases it, and `rmmod` leaves `my_dummy_syscall()` in the table. |
| `lost_original` | Removing the rule clears the saved pointer under a delayed call, which returns `-ENOSYS`. |

Departures met while modelling that have no run of their own:

* A thread that has read the monitor as on queues after the flush of a switch-off, sees
  the monitor off at `policy_engine.c:110` and leaves without unlinking its node, which
  stays in the queue until a later window or flush touches it. `NoDanglingWaiter`
  names this case; `ImplementsThrottle` shows what it costs callers as long as the dead frame's
  bytes are intact: a later window charges its rule for a call nobody makes. It is the case in
  which `run_test_corners.sh:61` announces "SUCCESSO".
* A rule without user and program, as `README.md:550` sets with `cli_tool -s 39 -m 0` and
  as `defender_api.h:16` ("-1 per tutti") suggests, matches nobody (`registry_data.c:155`).
* `good_area()` rejects a place if *any* entry before the first unimplemented call equals
  it; its comment says it looks for places where *all* are the same
  (`mmu_scanner.c:103`). Entry 0 is not compared. `Tables` follows the code.
* The tool prints "[Nessun blocco registrato]" (`cli_tool.c:43`) while a thread is blocked but
  none has recorded a delay yet: the victim goes with the longest delay, not with the
  block.
* The peak and the average of a rule are those of `total_blocked_threads`, one gauge for all
  rules, charged to the first rule on the number.
* `IOCTL_LIST_RULES` stops at 50 rules and does not say so; `add_rule()` returns 0 when the
  hook is refused.
* `TableRestored` also fails with one administrator if a rule is set before the load fails
  (`early` with `no_dispatcher`): `RollBack` does not know of the hook. It holds with one
  administrator and `early` and `unload`.

Each passing property is checked where the code keeps it, with the events under which it does
not keep it left out by `Env`, and these are few: `NoDanglingWaiter` holds whatever happens;
`ServedInOrder` and `ImplementsThrottle` hold under signals, toggles and unloading, and fail
when the statistics are cleared; `RateLimit` holds under toggles and rule changes, and
fails when a waiter is interrupted (it makes its call anyway; `ThrottleSpec` has that as
`GiveUp`) or when the statistics are cleared (the window's counter is too,
`registry_data.c:346`); `NoRuleUnhooked` holds once the
module is loaded, and fails for a rule set between `init_char_device()` and the discovery of the
table, whose hook is refused. Adding the event to the `Env` of the run shows each of the failures.

Bounds of the engine. `MaxCalls` (calls per thread) is 1 or 2: the second call is needed where a
thread meets what its own first call left behind (the node, the gauge, a place in the
queue). In `engine_core` two threads with two calls each are, in turn, the one granted, the
one left waiting and the one arriving with its second call, which is enough to break order and
budget, and two administrators are one that flushes and one that switches the monitor on
again meanwhile. It has one rule; that waiters of several rules share a queue is what
`ServedFirstCome` and `Implements` (section 4) add to it, for any number of rules and threads.
In `engine_limit` the three threads are one per rule and one that both rules match.
Limits of 0 and 1 are the boundary values the tests use; at 1 a
comparison off by one lets a second call through, which `RateLimit` catches. The kernel's
`jiffies` are not modelled: the timer
may fire whenever it is armed, so windows are arbitrarily short and properties do not
rest on time.

Of the others. `MaxRules` = 2 is the least at which a hook is shared and at which one rule is
before another. Two nodes are one to stand on and one to be led to; as they are
reused, a list of any history is met. `MAX_RULES_EXPORT` = 1 is below `MaxRules`, so that the
snapshot is cut. Delays of 1 and 2 let a later delay be longer, shorter or equal. In the
scanner four words per page, the first unimplemented call at 2 and the other at 3 put a
table at each place relative to a border; three values of a word are one too low, one not
aligned, and one that may be a handler. Page directories are absent, 2 MB or tables with any
subset of their pages. The command lines name each action once, plus
a rule on -1, a removal of -1, two actions at once, a missing limit, and an unknown option.

`SYMMETRY` is used for safety only, over threads, administrators or nodes that are
interchangeable in the instance.

Fairness (`Fairness` in `PolicyEngine`): runnable threads and walkers get the CPU
(weak fairness), `fifo_lock` is a queued spinlock (strong fairness for the steps that
take it), the timer fires while it is armed, and `del_timer_sync()` finds the timer idle
some time, as it runs for microseconds in each second. No fairness for calls, signals or
administrators. The liveness properties exempt `corrupt`, behind which anything may happen.
As `MaxCalls` bounds the calls, `AllCallsComplete` does not speak of newcomers without end: since
the counters are reset before the queue is walked, they may use up every window before
the waiters are looked at, and the code does nothing against it.
The other modules state safety only and no fairness.

Deadlock is checked in all runs; `Halted` and `Unloaded` are the intended ends, and
`SpinForEver` is the end `SelfDeadlock` comes to.

## 4. What is proved

All theorems are about all values of the constants: any number of threads, rules,
administrators, clients, nodes, any memory and any command line. They rest on the named
assumptions about the constants (`RegistryAssumption`, `EngineAssumption`, `NodesAssumption`, `InterceptorAssumption`,
`DeviceAssumption`, `ScannerAssumption`: the processes are distinct, the sets that are counted
are finite, limits are integers, pages have words and the signature spans less than a page)
and, where it says so below, on which events occur.

| Theorem | States | Assumes |
|---|---|---|
| `PolicyEngineProofs!TypeCorrect` | `[]TypeOK` | |
| `PolicyEngineProofs!GaugesCorrect` | `[]GaugesExact` | |
| `PolicyEngineProofs!RegistryFreedSafely` | `[]NoReaderAfterZero` | |
| `PolicyEngineProofs!RmmodIsWoken` | `[]UnloadIsWoken` | |
| `PolicyEngineProofs!WaitersNotLost` | `[]NoLostWaiter` | |
| `PolicyEngineProofs!NoWakeupLost` | `[]NoLostWakeup` | |
| `PolicyEngineProofs!LimitKept` | `[]RateLimit` | `OnlyCountedCalls`: no signal, no reset of statistics |
| `PolicyEngineOrderProofs!NobodyDangles` | `NoDanglingWaiter` | |
| `PolicyEngineOrderProofs!ServedFirstCome` | `ServedInOrder` | `RulesAlone`: no rule set or removed, no reset of statistics |
| `PolicyEngineRefinementProofs!Implements` | `ImplementsThrottle` | `RulesAlone` |
| `RegistryNodesProofs!TypesCorrect` | `[]TypeOK` | |
| `RegistryNodesProofs!FreedNodesUnreachable` | `[]NoUseAfterFree` | |
| `RegistryNodesProofs!SearchesAreAtomic` | `[]TraversalIsAtomic` | |
| `RegistryNodesProofs!TraversalsEnd` | `[]VisitsOnce` | |
| `RegistryNodesProofs!FullTraversals` | `[]NothingMissed` | |
| `SysInterceptorProofs!TypeCorrect` | `[]TypeOK` | |
| `SysInterceptorProofs!HookTable` | `[]HookTableSound` | |
| `SysInterceptorProofs!RulesAreHooked` | `[]NoRuleUnhooked` | no `early` |
| `CharDeviceProofs!TypesCorrect` | `[]TypeOK` | |
| `CharDeviceProofs!StatisticsCoherent` | `[]StatsCoherent` | |
| `CharDeviceProofs!FirstRuleCharged` | `[]OneRuleCharged` | |
| `CharDeviceProofs!StatusesTruthful` | `[]ExitStatusIsTruthful` | |
| `CharDeviceProofs!ToolsReach` | `WildcardOutOfReach` | |
| `MmuScannerProofs!FoundTable` | `[]ScanFindsTable` | |
| `MmuScannerProofs!FoundSafely` | `[]ScanReadsOnlyMapped` | |

`OnlyCountedCalls` and `RulesAlone` also say that limits are not negative, as `RateLimit`
and budgets would otherwise mean nothing. Toggles, flushes, signals and `rmmod` are allowed
in both last theorems about the engine.

**Gauges, types, unloading** (`IInv == Types /\ GaugesExact /\ Shutdown`). `GaugesExact`
equates each gauge with the cardinality of the set of threads at the program points it counts;
a step moves one thread across at most one border of each set. That the gauges are natural
numbers is not inductive by itself: a decrement
preserves it only because the decrementing thread is in the set, so type
correctness follows from exactness and not the other way round. `Shutdown` says what
`NoReaderAfterZero` leaves unsaid: from `stop_policy_engine()` on the monitor is off and no
ioctl turns it on, from `del_timer_sync()` on the timer is dead, and past
`wait_for_zero_wrappers()` every thread inside is at most before its test of the monitor or
after its last use of the registry. A thread that enters late reads the monitor as off
and leaves; that is why the registry is safe although the text is not
(`inside_after_unload`).

**The queue** (`QInv`). `NoLostWaiter` is not inductive because `UnlinkGranted` takes out
whatever `cur` names. Its strengthening says that `fifo_lock` belongs to the one walker inside
its critical section (`FifoLockHeld`) and that a walker about to unlink a thread has granted
it, unless the thread is past its wait (`Serving`): a thread cannot queue anew before the lock is
released. Two lemmas on lists say that linking out one node keeps the others, also when a dead
node and its successor share a thread's stack.

**The limit** (`LimitInv`). `RateLimit` speaks of the history variable only; `WithinLimit` adds
that `current_calls` is at least what has passed, which is why the comparison stops the next
call, and that nobody is on the path a signal opens.

**Wake-ups** (`WakeupInv == QInv /\ Attended`). A sleeper that has its token is the
one the walk is about to unlink or wake; a sleeper without one, after the
switch-off, has a flush ahead of it that has not started or has its node
still to visit. `NoLostWakeup` is the disjunction, which is too weak to survive a switch-on.

**The wake-up of `rmmod`.** `UnloadIsWoken` is inductive over `IInv`: `rmmod` goes to sleep on a
gauge that is not zero, the gauge gets there only by the last decrement of a thread, which
is at `notify` from then on, and when it notifies `rmmod` sleeps no more. A thread that comes in
meanwhile raises the gauge above zero, as it was never below (`GaugesExact`).

**The queue, node by node** (`WaitersInv == QInv /\ QueueIsWaiters /\ WalkIsAhead`, under any
events). Every waiter without a token is in the queue, once; a node in the
queue is one of these, or being unlinked, or its thread has gone (`QueueIsWaiters`). What a walk
has still to visit is in the queue, each node once, and a flush leaves none behind it
(`WalkIsAhead`). One needs the other: the walk grants what it visits, and a thread with
a token no longer withdraws. That a thread never queues a second node over the first,
still linked, one is `EnqueueFresh`: linking it would touch the dead one, which is no longer
intact. `NobodyDangles` follows step by step: with the monitor on a thread gets past its
wait by a token, hence from a walk at `unlink`, or by a signal, hence through `AbandonQueue`.

**The order** (`OrderInv == IInv /\ WaitersInv /\ QueueOrdered /\ WalkOrdered /\ ListedCounted`).
While the rules are left alone, `ahead` knows the order of the queue (`QueueOrdered`),
the walk of the timer visits in that order, and whoever it has left behind has a rule
that is exhausted for the rest of the window (`WalkOrdered`). So a waiter that is granted
cannot be preceded by one of the same rule, the rule not being exhausted. Nodes whose threads
have gone stay in the queue without a place in the order. `ListedCounted` says
that a rule listed before `cleanup_registry()` is a rule with a counter. That one
`Selected` rule is in the list rests on `LeastIndex`, the least of a set of naturals,
which `ListFacts` derives from the well-founded order of the naturals.

**The refinement.** Under `OrderInv` each step of one thread maps to a step of `ThrottleSpec`
by that thread or changes nothing it sees (`ThreadStepRefines`, `QueueStepRefines`). A grant
(`GrantSeen`) by the timer is `Serve`, by `FirstIsServed` and by the cut at the limit
(`Refused`, `Charged`), or `ServeAbsent` if nobody waits on the node any more; by a flush
it is `SendHome` or `StrikeOff`. Unlinking and waking are not seen. The end of a flush is
`Flushed`, as `WalkIsAhead` has left nobody in the queue; the expiry is `NewWindow`, and
that the registry is freed is seen by nobody, by `Shutdown`.

**The list in memory** (`NodesInv == TypeOK /\ Locking /\ Ownership /\ Coverage`). An
administrator between `kmalloc()` and linking, or between unlinking and `kfree()`, is the only
one to hold its node. `Coverage` is the grace period: from the nodes a traversal may have
met, no pointer leads outside them, and each that is unlinked meanwhile is kept by an
administrator that waits, or is yet to wait, for this reader. For `TraversalIsAtomic` that is not enough
(`Searching`): from where the reader stands there must be a set of nodes ahead, closed
under the pointers, in which the next match is one of the answers a search at some moment
would have given; unlinking and appending keep such a set. `VisitsOnce` and `NothingMissed` are
about order (`Walking`): there is a ranking of the nodes a traversal may meet in which every
pointer leads upwards, from below a node that is `due` none leads past it, what was visited lies
behind the reader and what is due ahead (`InOrder`). At the beginning it is the order of the
list; unlinking only makes pointers skip the node, which is due no longer (`UnlinkForward`), and
an appended node gets a rank above the last one (`PublishForward`). Ranks need not be those of
the list later on: of two unlinked nodes either may have come first.

**The hook table** (`TypeOK /\ LockHeld /\ InFlight /\ HookTableSound`): `LockHeld` says that
a hooker in the middle of a critical section holds `hook_lock`, hence that there is one;
`InFlight` says what the entry under its hands looks like between the two halves
(saved but not patched, restored but not forgotten). `NoRuleUnhooked` needs a count over
all hookers (`Balanced`): on every number, the reference count plus the hooks still to come
is at least the rules listed plus the releases still to come. Each step of `add_rule()` and
`remove_rule()` keeps it, whoever overtakes whom; a release that finds a count of 0 does
nothing and can only leave too many (`hook_race`), never too few.

**The control path** (`ControlInv`). The gauge is the number of callers between `Block` and
`Unblock`, so what a caller has read and is about to record is between one and the number of
threads; without that a count of 0 would break the coherence of the rule it is charged to.
`RuleOperation` lists all that happens to the list of rules and `Successors` all that becomes
of one rule; that a rule stays coherent is then a fact about one rule and one operation, and
needs no assumption on the order of operations. The only arithmetic is that one more event
of at most the new peak keeps the sum below events times peak (`SumBelow`), and that the
average, rounded down, lies between one and the peak (`RoundedAverage`). `OneRuleCharged` is
inductive over `RuleOperation`: the rule at which the search stops has no other on its number
before it, removal moves a rule forward but never out of turn, and a new rule has no events.
`Fits` relates where a client is to what it was told, what it has and what was done for it.
The proof of `WildcardOutOfReach` first says what a tool can ask for: whatever the fold over a
command line gives, a request to set, remove or clear never has the number -1, which is the
tool's sign of an option not given (`RequestIsGiven`, `ToolsAsk`). Then appending such a rule,
removing the first on a number and clearing one leave the rules on every call as they are and in their order
(`SameWildcards`, a bijection between the positions before and after).

**The search** (`MmuScanner`). The two nested loops are recursive functions over the indices
still ahead. That these exist and obey their equations is `LoopComputes`, proved once for any
loop with a next index; what they return is proved by `BackwardInduction`, which is about
a set of indices and not about a predicate, and so in this prover's reach. `Right` is the
induction hypothesis on the rest of the memory: the result is the lowest of `Tables` from here
on or nothing, and nothing unmapped was read. `GoOn` carries it over an address that is no
table, `TablesOnPage` says that the addresses of a page the inner loop stops at are those where a
table begins, and `SignatureIdentifies` that the comparisons of the loop, in their order, come to
the condition `Tables` states without one.

Only model-checked: liveness (`AllCallsComplete`, `NeedlessWaitEnds`, `UnloadCompletes`), which
is out of the prover's reach. Every invariant, action property and refinement that a passing
run checks is the subject of a theorem.

## 5. What is left out, and why

* In `PolicyEngine` a traversal of the rule list is one step. `TraversalIsAtomic` is the
  reason why it may be: a search answers what it would have at one moment.
  `reset_all_counters()` is one step too: `NothingMissed` says that it reaches every rule that
  stays, each rule's window is its own, and the properties look at one rule at a time.
* `PolicyEngine` and `CharDevice` are not composed: the first has the waiters and the
  limits, the second the statistics and the commands. `Block` and `Unblock` are possible
  in `CharDevice` whenever the engine could do them, and more often.
* CR0, CR4 and the bytes patched over the dispatcher's first instruction, which other CPUs may be
  executing: what they see is a matter of the processor, not of this code.
* 1 GB pages, which `sys_vtpmo()` does not know, and frame numbers that do not fit an
  `int`; the search only asks whether a page is there.
* An ioctl that is still inside the handler when `core_init()` fails and the
  module goes away. (An open file holds `rmmod` off, not a failing load.)
* Allocation failure: `add_rule()` returns before it changes anything.
* `time_epoch`, which nobody reads, the TSC, message texts and logging.
* The kernel is at least 5.15 in `PolicyEngine` (restoring the dispatcher ends all hooks at
  once); in `SysInterceptor` the `no_dispatcher` event covers a kernel without
  `x64_sys_call`.
* Speculative or torn accesses: words are read and written whole. The compiler's freedom
  to reorder the plain stores of a walk is not modelled.

## 6. Plan

Written, in this order: the engine with its properties and proofs, the interceptor with
its proofs, `ThrottleSpec` and the refinement, `RegistryNodes` with its proofs, `RuleStats`,
`CliTool` and `CharDevice`, `MmuScanner`, the proofs of limit, wake-ups, order and
refinement, those about the control path and the search, and the order and the refinement
again with the switch, the flushes and `rmmod`. What would come next:

1. The administrator who throttles `ioctl()` for himself, as a caller of `PolicyEngine` whose
   call is a command.
2. `ThrottleSpec` with a changing list of rules, so that the refinement extends to those who
   set and remove them.
