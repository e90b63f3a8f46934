------------------------- MODULE PolicyEngineProofs -------------------------
(***************************************************************************)
(* Proofs about the throttling engine, for any number of threads,          *)
(* administrators and rules, whatever signals, toggles, rule changes and   *)
(* rmmod do meanwhile: type correctness, the exactness of the two gauges,  *)
(* the safety of freeing the registry in core_exit(); fifo_lock excludes,  *)
(* no suspended thread is ever lost, none sleeps through the event it      *)
(* waits for; and the limit of each window.                                *)
(***************************************************************************)
EXTENDS PolicyEngineProperties, ListFacts

(* Facts about the operators the model is built from.                      *)

\* atomic_inc_return() on the selected rule, if there is one, keeps counters counters.
LEMMA CountedType ==
    ASSUME NEW r, NEW count \in [RuleIds -> Nat]
    PROVE  Counted(r, count) \in [RuleIds -> Nat]
<1>1. CASE r = NoRule
  BY <1>1 DEF Counted
<1>2. CASE r # NoRule
  <2>1. Counted(r, count) = [count EXCEPT ![r] = count[r] + 1]
    BY <1>2 DEF Counted
  <2>2. ASSUME NEW y \in RuleIds PROVE [count EXCEPT ![r] = count[r] + 1][y] \in Nat
    OBVIOUS
  <2> QED
    BY <2>1, <2>2
<1> QED
  BY <1>1, <1>2

\* The nodes of a list are what the list is made of.
LEMMA ToSetType ==
    ASSUME NEW S, NEW s \in Seq(S)
    PROVE  ToSet(s) \subseteq S
BY DEF ToSet

\* Linking out a waiter keeps the queue a queue of threads.
LEMMA UnlinkType ==
    ASSUME Types, NEW t, Unlink(t)
    PROVE  /\ fifo_waiters' \in Seq(Threads)
           /\ ahead' \in [Threads -> SUBSET Threads]
<1>1. fifo_waiters' \in Seq(Threads)
  BY RemoveAtElements DEF Unlink, Types
<1>2. ahead' \in [Threads -> SUBSET Threads]
  BY DEF Unlink, Types
<1> QED
  BY <1>1, <1>2
-----------------------------------------------------------------------------
(* Type correctness.                                                       *)

LEMMA TypesInit == Init => Types
<1> SUFFICES ASSUME Init PROVE Types
  OBVIOUS
<1>1. fifo_waiters \in Seq(Threads) /\ todo \in Seq(Threads)
  BY EmptySeq DEF Init
<1>2. rules_list \in Seq(RuleIds)
  BY EngineAssumption DEF Init
<1>3. pc \in [Threads -> ThreadPcs] /\ kpc \in [Walkers -> WalkerPcs]
  BY DEF Init, ThreadPcs, WalkerPcs
<1>4. /\ sysno \in [Threads -> Syscalls]
      /\ calls \in [Threads -> Nat]
      /\ granted \in [Threads -> BOOLEAN]
      /\ current_calls \in [RuleIds -> Nat]
      /\ passed \in [RuleIds -> Nat]
      /\ ahead \in [Threads -> SUBSET Threads]
  BY DEF Init
<1>5. /\ fifo_lock \in Walkers \cup {NoOne}
      /\ cur \in Threads \cup {NoOne}
      /\ armed \in BOOLEAN /\ global_monitor_state \in BOOLEAN /\ corrupt \in BOOLEAN
  BY DEF Init
<1> QED
  BY <1>1, <1>2, <1>3, <1>4, <1>5 DEF Types

LEMMA TypesStep == Types /\ [Next]_vars => Types'
<1> SUFFICES ASSUME Types, [Next]_vars PROVE Types'
  OBVIOUS
<1> USE DEF Types, ThreadPcs, WalkerPcs, call, gauges, queue, walk, registry,
            At, Goto, AtK, GotoK
<1>1. ASSUME NEW t \in Threads, NEW n \in Syscalls, Dispatch(t, n) PROVE Types'
  BY <1>1 DEF Dispatch
<1>2. ASSUME NEW t \in Threads, ThreadStep(t) PROVE Types'
  <2>1. CASE EnterPolicy(t)   BY <2>1 DEF EnterPolicy
  <2>2. CASE ReadMonitor(t)   BY <2>2 DEF ReadMonitor
  <2>3. CASE CountCall(t)
    <3> DEFINE r == Selected(rules_list, Task[t], sysno[t])
    <3>1. current_calls' = Counted(r, current_calls) /\ passed' \in {passed, Counted(r, passed)}
      BY <2>3 DEF CountCall
    <3>2. current_calls' \in [RuleIds -> Nat] /\ passed' \in [RuleIds -> Nat]
      BY <3>1, CountedType
    <3> QED
      BY <2>3, <3>2 DEF CountCall
  <2>4. CASE BlockThread(t)   BY <2>4 DEF BlockThread
  <2>5. CASE RecordBlocked(t) BY <2>5 DEF RecordBlocked
  <2>6. CASE Sleep(t)         BY <2>6 DEF Sleep
  <2>7. CASE Proceed(t)       BY <2>7 DEF Proceed
  <2>8. CASE Uncount(t)       BY <2>8 DEF Uncount, AfterUncount
  <2>9. CASE RecordDelay(t)   BY <2>9 DEF RecordDelay
  <2>10. CASE LeavePolicy(t)  BY <2>10 DEF LeavePolicy, AfterLeave
  <2>11. CASE NotifyUnload(t) BY <2>11 DEF NotifyUnload
  <2>12. CASE CallOriginal(t) BY <2>12 DEF CallOriginal
  <2> QED
    BY <1>2, <2>1, <2>2, <2>3, <2>4, <2>5, <2>6, <2>7, <2>8, <2>9, <2>10, <2>11, <2>12
    DEF ThreadStep
<1>3. ASSUME NEW t \in Threads, QueueStep(t) PROVE Types'
  <2>1. CASE Enqueue(t)
    BY <2>1, ToSetType, AppendProperties DEF Enqueue, Queued
  <2>2. CASE AbandonQueue(t)
    <3>1. CASE granted[t]
      BY <2>2, <3>1 DEF AbandonQueue
    <3>2. CASE ~granted[t]
      <4>1. Withdraw(t)
        BY <2>2, <3>2 DEF AbandonQueue
      <4>2. passed' \in [RuleIds -> Nat]
        BY <4>1, CountedType DEF Withdraw
      <4>3. fifo_waiters' \in Seq(Threads) /\ ahead' \in [Threads -> SUBSET Threads]
        BY <4>1, UnlinkType DEF Withdraw
      <4> QED
        BY <2>2, <4>2, <4>3 DEF AbandonQueue
    <3> QED
      BY <3>1, <3>2
  <2> QED
    BY <1>3, <2>1, <2>2 DEF QueueStep
<1>4. ASSUME NEW t \in Threads, Interrupt(t) PROVE Types'
  BY <1>4 DEF Interrupt
<1>5. ASSUME NEW k \in Walkers, WaitStep(k) PROVE Types'
  <2>1. CASE AcquireFifo(k)   BY <2>1 DEF AcquireFifo
  <2>2. CASE DelTimerSync     BY <2>2 DEF DelTimerSync
  <2> QED
    BY <1>5, <2>1, <2>2 DEF WaitStep
<1>6. ASSUME NEW k \in Walkers, WalkStep(k) PROVE Types'
  <2>1. CASE FlushVisit(k)
    <3>1. Head(todo) \in Threads /\ Tail(todo) \in Seq(Threads)
      BY <2>1, HeadTailProperties DEF FlushVisit
    <3> QED
      BY <2>1, <3>1 DEF FlushVisit, Grant
  <2>2. CASE UnlinkGranted(k)
    BY <2>2, UnlinkType DEF UnlinkGranted
  <2>3. CASE WakeGranted(k)   BY <2>3 DEF WakeGranted
  <2>4. CASE ReleaseFifo(k)   BY <2>4 DEF ReleaseFifo, Rearmed
  <2>5. CASE TimerFire        BY <2>5 DEF TimerFire
  <2>6. CASE TimerVisit
    <3> DEFINE w == Head(todo)
               r == Selected(rules_list, Task[w], sysno[w])
    <3>1. w \in Threads /\ todo' \in Seq(Threads)
      BY <2>6, HeadTailProperties DEF TimerVisit
    <3>2. current_calls' \in [RuleIds -> Nat]
      BY <2>6, CountedType DEF TimerVisit
    <3>3. CASE OverLimit(r, current_calls)
      <4>1. UNCHANGED <<kpc, granted, cur, passed>>
        BY <2>6, <3>3 DEF TimerVisit
      <4> QED
        BY <2>6, <3>1, <3>2, <4>1 DEF TimerVisit
    <3>4. CASE ~OverLimit(r, current_calls)
      <4>0. passed' = Counted(r, passed)
        BY <2>6, <3>4 DEF TimerVisit
      <4>1. passed' \in [RuleIds -> Nat]
        BY <4>0, CountedType
      <4>2. granted' \in [Threads -> BOOLEAN] /\ cur' \in Threads
        BY <2>6, <3>1, <3>4 DEF TimerVisit, Grant
      <4>3. kpc' \in [Walkers -> WalkerPcs]
        BY <2>6, <3>4 DEF TimerVisit
      <4> QED
        BY <2>6, <3>1, <3>2, <4>1, <4>2, <4>3 DEF TimerVisit
    <3> QED
      BY <3>3, <3>4
  <2>7. CASE CleanupInterceptor  BY <2>7 DEF CleanupInterceptor
  <2>8. CASE WaitForZeroWrappers BY <2>8 DEF WaitForZeroWrappers
  <2>9. CASE CleanupRegistry     BY <2>9, EmptySeq DEF CleanupRegistry
  <2> QED
    BY <1>6, <2>1, <2>2, <2>3, <2>4, <2>5, <2>6, <2>7, <2>8, <2>9 DEF WalkStep
<1>7. ASSUME NEW a \in Admins, AdminStep(a) PROVE Types'
  <2>1. ASSUME NEW on \in BOOLEAN, Toggle(a, on) PROVE Types'
    BY <2>1 DEF Toggle, MayServe, AfterToggle
  <2>2. ASSUME NEW r \in RuleIds, AddRule(a, r) PROVE Types'
    BY <2>2, AppendProperties DEF AddRule
  <2>3. ASSUME NEW n, RemoveRule(a, n) PROVE Types'
    <3>1. PICK i \in 1 .. Len(rules_list) : rules_list' = RemoveAt(rules_list, i)
      BY <2>3 DEF RemoveRule
    <3>2. rules_list' \in Seq(RuleIds)
      BY <3>1, RemoveAtElements, Zenon
    <3> QED
      BY <2>3, <3>2 DEF RemoveRule
  <2>4. ASSUME NEW n, ResetStats(a, n) PROVE Types'
    BY <2>4 DEF ResetStats
  <2> QED
    BY <1>7, <2>1, <2>2, <2>3, <2>4 DEF AdminStep
<1>8. CASE StopPolicyEngine
  BY <1>8 DEF StopPolicyEngine
<1>9. CASE TouchStale
  BY <1>9 DEF TouchStale
<1>10. CASE UNCHANGED vars
  BY <1>10 DEF vars
<1>11. CASE Halted
  BY <1>10, <1>11 DEF Halted
<1> QED
  BY <1>1, <1>2, <1>3, <1>4, <1>5, <1>6, <1>7, <1>8, <1>9, <1>10, <1>11 DEF Next
-----------------------------------------------------------------------------
(* The gauges.                                                             *)

\* Both populations are finite, so their sizes are natural numbers.
LEMMA GaugesFinite ==
    /\ IsFiniteSet(InsideSet) /\ Cardinality(InsideSet) \in Nat
    /\ IsFiniteSet(BlockedSet) /\ Cardinality(BlockedSet) \in Nat
<1>1. InsideSet \subseteq Threads /\ BlockedSet \subseteq Threads
  BY DEF InsideSet, BlockedSet
<1>2. IsFiniteSet(InsideSet) /\ IsFiniteSet(BlockedSet)
  BY <1>1, FS_Subset, EngineAssumption
<1> QED
  BY <1>2, FS_CardinalityType

One(b) == IF b THEN 1 ELSE 0

\* What moving one thread to another place does to the two populations.
LEMMA GaugesMove ==
    ASSUME Types, GaugesExact, NEW t \in Threads, NEW label, Goto(t, label)
    PROVE  /\ Cardinality(InsideSet)'
                = active_wrappers + One(label \notin OutsidePcs) - One(pc[t] \notin OutsidePcs)
           /\ Cardinality(BlockedSet)'
                = total_blocked_threads + One(label \in BlockedPcs) - One(pc[t] \in BlockedPcs)
<1>1. InsideSet' = IF label \notin OutsidePcs THEN InsideSet \cup {t} ELSE InsideSet \ {t}
  BY DEF Types, Goto, InsideSet, Inside
<1>2. BlockedSet' = IF label \in BlockedPcs THEN BlockedSet \cup {t} ELSE BlockedSet \ {t}
  BY DEF Types, Goto, BlockedSet, Blocked
<1>3. t \in InsideSet <=> pc[t] \notin OutsidePcs
  BY DEF InsideSet, Inside
<1>4. t \in BlockedSet <=> pc[t] \in BlockedPcs
  BY DEF BlockedSet, Blocked
<1>5. Cardinality(InsideSet)'
        = Cardinality(InsideSet) + One(label \notin OutsidePcs) - One(t \in InsideSet)
  <2>1. /\ Cardinality(InsideSet \cup {t})
                = IF t \in InsideSet THEN Cardinality(InsideSet) ELSE Cardinality(InsideSet) + 1
        /\ Cardinality(InsideSet \ {t})
                = IF t \in InsideSet THEN Cardinality(InsideSet) - 1 ELSE Cardinality(InsideSet)
    BY GaugesFinite, CardinalityMove
  <2>2. CASE label \notin OutsidePcs
    <3>1. Cardinality(InsideSet)' = Cardinality(InsideSet \cup {t})
      BY <1>1, <2>2
    <3> QED
      BY <2>1, <2>2, <3>1, GaugesFinite DEF One
  <2>3. CASE ~(label \notin OutsidePcs)
    <3>1. Cardinality(InsideSet)' = Cardinality(InsideSet \ {t})
      BY <1>1, <2>3
    <3> QED
      BY <2>1, <2>3, <3>1, GaugesFinite DEF One
  <2> QED
    BY <2>2, <2>3
<1>6. Cardinality(BlockedSet)'
        = Cardinality(BlockedSet) + One(label \in BlockedPcs) - One(t \in BlockedSet)
  <2>1. /\ Cardinality(BlockedSet \cup {t})
                = IF t \in BlockedSet THEN Cardinality(BlockedSet) ELSE Cardinality(BlockedSet) + 1
        /\ Cardinality(BlockedSet \ {t})
                = IF t \in BlockedSet THEN Cardinality(BlockedSet) - 1 ELSE Cardinality(BlockedSet)
    BY GaugesFinite, CardinalityMove
  <2>2. CASE label \in BlockedPcs
    <3>1. Cardinality(BlockedSet)' = Cardinality(BlockedSet \cup {t})
      BY <1>2, <2>2
    <3> QED
      BY <2>1, <2>2, <3>1, GaugesFinite DEF One
  <2>3. CASE ~(label \in BlockedPcs)
    <3>1. Cardinality(BlockedSet)' = Cardinality(BlockedSet \ {t})
      BY <1>2, <2>3
    <3> QED
      BY <2>1, <2>3, <3>1, GaugesFinite DEF One
  <2> QED
    BY <2>2, <2>3
<1> QED
  BY <1>3, <1>4, <1>5, <1>6 DEF GaugesExact, One

LEMMA GaugesInit == Init => GaugesExact
<1> SUFFICES ASSUME Init PROVE GaugesExact
  OBVIOUS
<1>1. InsideSet = {} /\ BlockedSet = {}
  BY DEF Init, InsideSet, Inside, BlockedSet, Blocked, OutsidePcs, BlockedPcs
<1> QED
  BY <1>1, FS_EmptySet DEF Init, GaugesExact

LEMMA GaugesStep == Types /\ GaugesExact /\ [Next]_vars => GaugesExact'
<1> SUFFICES ASSUME Types, GaugesExact, [Next]_vars PROVE GaugesExact'
  OBVIOUS
<1> USE DEF call, gauges, queue, walk, registry, At, AtK
<1>a. active_wrappers \in Int /\ total_blocked_threads \in Int
  BY GaugesFinite DEF GaugesExact
<1>b. ASSUME UNCHANGED <<pc, gauges>> PROVE GaugesExact'
  BY <1>b DEF GaugesExact, InsideSet, Inside, BlockedSet, Blocked
<1>1. ASSUME NEW t \in Threads, NEW n \in Syscalls, Dispatch(t, n) PROVE GaugesExact'
  BY <1>1, <1>a, GaugesMove DEF Dispatch, GaugesExact, One, OutsidePcs, BlockedPcs
<1>2. ASSUME NEW t \in Threads, ThreadStep(t) PROVE GaugesExact'
  <2> USE <1>a, GaugesMove DEF GaugesExact, One, OutsidePcs, BlockedPcs
  <2>1. CASE EnterPolicy(t)   BY <2>1 DEF EnterPolicy
  <2>2. CASE ReadMonitor(t)   BY <2>2 DEF ReadMonitor
  <2>3. CASE CountCall(t)     BY <2>3 DEF CountCall
  <2>4. CASE BlockThread(t)   BY <2>4 DEF BlockThread
  <2>5. CASE RecordBlocked(t) BY <2>5 DEF RecordBlocked
  <2>6. CASE Sleep(t)         BY <2>6 DEF Sleep
  <2>7. CASE Proceed(t)       BY <2>7 DEF Proceed
  <2>8. CASE Uncount(t)       BY <2>8 DEF Uncount, AfterUncount
  <2>9. CASE RecordDelay(t)   BY <2>9 DEF RecordDelay
  <2>10. CASE LeavePolicy(t)  BY <2>10 DEF LeavePolicy, AfterLeave
  <2>11. CASE NotifyUnload(t) BY <2>11 DEF NotifyUnload
  <2>12. CASE CallOriginal(t) BY <2>12 DEF CallOriginal
  <2> QED
    BY <1>2, <2>1, <2>2, <2>3, <2>4, <2>5, <2>6, <2>7, <2>8, <2>9, <2>10, <2>11, <2>12
    DEF ThreadStep
<1>3. ASSUME NEW t \in Threads, QueueStep(t) PROVE GaugesExact'
  <2> USE <1>a, GaugesMove DEF GaugesExact, One, OutsidePcs, BlockedPcs
  <2>1. CASE Enqueue(t)       BY <2>1 DEF Enqueue
  <2>2. CASE AbandonQueue(t)  BY <2>2 DEF AbandonQueue
  <2> QED
    BY <1>3, <2>1, <2>2 DEF QueueStep
<1>4. ASSUME NEW t \in Threads, Interrupt(t) PROVE GaugesExact'
  BY <1>4, <1>a, GaugesMove DEF Interrupt, GaugesExact, One, OutsidePcs, BlockedPcs
<1>5. ASSUME NEW k \in Walkers, WaitStep(k) PROVE GaugesExact'
  BY <1>5, <1>b DEF WaitStep, AcquireFifo, DelTimerSync
<1>6. ASSUME NEW k \in Walkers, WalkStep(k) PROVE GaugesExact'
  <2>1. CASE WakeGranted(k)
    <3>1. \A t \in Threads : Inside(t)' = Inside(t) /\ Blocked(t)' = Blocked(t)
      BY <2>1 DEF WakeGranted, Types, Inside, Blocked, OutsidePcs, BlockedPcs
    <3>2. InsideSet' = InsideSet /\ BlockedSet' = BlockedSet
      BY <3>1 DEF InsideSet, BlockedSet
    <3> QED
      BY <2>1, <3>2 DEF WakeGranted, GaugesExact
  <2>2. CASE FlushVisit(k) \/ UnlinkGranted(k) \/ ReleaseFifo(k)
    BY <2>2, <1>b DEF FlushVisit, UnlinkGranted, ReleaseFifo
  <2>3. CASE TimerFire \/ TimerVisit
    BY <2>3, <1>b DEF TimerFire, TimerVisit
  <2>4. CASE CleanupInterceptor \/ WaitForZeroWrappers \/ CleanupRegistry
    BY <2>4, <1>b DEF CleanupInterceptor, WaitForZeroWrappers, CleanupRegistry
  <2> QED
    BY <1>6, <2>1, <2>2, <2>3, <2>4 DEF WalkStep
<1>7. ASSUME NEW a \in Admins, AdminStep(a) PROVE GaugesExact'
  BY <1>7, <1>b DEF AdminStep, Toggle, AddRule, RemoveRule, ResetStats
<1>8. CASE StopPolicyEngine \/ TouchStale
  BY <1>8, <1>b DEF StopPolicyEngine, TouchStale
<1>9. CASE UNCHANGED vars
  BY <1>9, <1>b DEF vars
<1>10. CASE Halted
  BY <1>9, <1>10 DEF Halted
<1> QED
  BY <1>1, <1>2, <1>3, <1>4, <1>5, <1>6, <1>7, <1>8, <1>9, <1>10 DEF Next
-----------------------------------------------------------------------------
(* The end of the module.                                                  *)

\* What each stage of core_exit() has established for good: the monitor is off
\* and no handler runs; then the timer is dead; then nobody uses the registry.
\* NoReaderAfterZero alone is not inductive: a thread that enters the wrapper
\* after the last check is kept off the rules only by the monitor being off.
Shutdown ==
    /\ kpc[Rmmod] # "idle" =>
        ~global_monitor_state /\ \A a \in Admins : kpc[a] = "idle"
    /\ kpc[Rmmod] \in {"restore", "waitzero", "zerosleep", "cleanup", "freed"} =>
        kpc[Timer] = "idle" /\ ~armed
    /\ kpc[Rmmod] \in {"cleanup", "freed"} => \A t \in Threads : ~UsesRegistry(t)

LEMMA ShutdownInit == Init => Shutdown
BY DEF Init, Shutdown, Walkers

LEMMA ShutdownStep ==
    Types /\ GaugesExact /\ Shutdown /\ [Next]_vars => Shutdown'
<1> SUFFICES ASSUME Types, GaugesExact, Shutdown, [Next]_vars PROVE Shutdown'
  OBVIOUS
<1> USE DEF call, gauges, queue, walk, registry, At, AtK, Goto, GotoK
<1>w. /\ Timer \in Walkers /\ Rmmod \in Walkers /\ Timer # Rmmod
      /\ \A a \in Admins : a \in Walkers /\ a # Timer /\ a # Rmmod
  BY EngineAssumption DEF Walkers
<1>a. ASSUME UNCHANGED <<kpc, armed, global_monitor_state>>,
             \A t \in Threads : UsesRegistry(t)' =>
                UsesRegistry(t) \/ global_monitor_state
      PROVE  Shutdown'
  BY <1>a, <1>w DEF Shutdown, Types
<1>1. ASSUME NEW t \in Threads, NEW n \in Syscalls, Dispatch(t, n) PROVE Shutdown'
  BY <1>1, <1>a DEF Dispatch, UsesRegistry, Types, OutsidePcs
<1>2. ASSUME NEW t \in Threads, ThreadStep(t) PROVE Shutdown'
  <2> USE <1>a DEF UsesRegistry, Types, OutsidePcs
  <2>1. CASE EnterPolicy(t)   BY <2>1 DEF EnterPolicy
  <2>2. CASE ReadMonitor(t)   BY <2>2 DEF ReadMonitor
  <2>3. CASE CountCall(t)     BY <2>3 DEF CountCall
  <2>4. CASE BlockThread(t)   BY <2>4 DEF BlockThread
  <2>5. CASE RecordBlocked(t) BY <2>5 DEF RecordBlocked
  <2>6. CASE Sleep(t)         BY <2>6 DEF Sleep
  <2>7. CASE Proceed(t)       BY <2>7 DEF Proceed
  <2>8. CASE Uncount(t)       BY <2>8 DEF Uncount, AfterUncount
  <2>9. CASE RecordDelay(t)   BY <2>9 DEF RecordDelay
  <2>10. CASE LeavePolicy(t)  BY <2>10 DEF LeavePolicy, AfterLeave
  <2>11. CASE NotifyUnload(t)
    <3>1. \A u \in Threads : UsesRegistry(u)' => UsesRegistry(u)
      BY <2>11 DEF NotifyUnload
    <3> QED
      BY <2>11, <3>1, <1>w DEF NotifyUnload, Shutdown
  <2>12. CASE CallOriginal(t) BY <2>12 DEF CallOriginal
  <2> QED
    BY <1>2, <2>1, <2>2, <2>3, <2>4, <2>5, <2>6, <2>7, <2>8, <2>9, <2>10, <2>11, <2>12
    DEF ThreadStep
<1>3. ASSUME NEW t \in Threads, QueueStep(t) PROVE Shutdown'
  BY <1>3, <1>a DEF QueueStep, Enqueue, AbandonQueue, UsesRegistry, Types, OutsidePcs
<1>4. ASSUME NEW t \in Threads, Interrupt(t) PROVE Shutdown'
  BY <1>4, <1>a DEF Interrupt, UsesRegistry, Types, OutsidePcs
<1>5. ASSUME NEW k \in Walkers, WaitStep(k) PROVE Shutdown'
  BY <1>5, <1>w DEF WaitStep, AcquireFifo, DelTimerSync, TimerQuiet, Shutdown, Types,
    UsesRegistry
<1>6. ASSUME NEW k \in Walkers, WalkStep(k) PROVE Shutdown'
  <2> USE <1>w DEF Shutdown, Types, UsesRegistry
  <2>1. CASE FlushVisit(k)    BY <2>1 DEF FlushVisit
  <2>2. CASE UnlinkGranted(k) BY <2>2 DEF UnlinkGranted
  <2>3. CASE WakeGranted(k)
    <3>1. \A t \in Threads : UsesRegistry(t)' => UsesRegistry(t)
      BY <2>3 DEF WakeGranted, OutsidePcs
    <3> QED
      BY <2>3, <3>1 DEF WakeGranted
  <2>4. CASE ReleaseFifo(k)   BY <2>4 DEF ReleaseFifo, Rearmed
  <2>5. CASE TimerFire        BY <2>5 DEF TimerFire
  <2>6. CASE TimerVisit
    <3>1. kpc[Timer] = "walk" /\ kpc[Rmmod]' = kpc[Rmmod]
      BY <2>6 DEF TimerVisit
    <3>2. \A a \in Admins : kpc[a]' = kpc[a]
      BY <2>6 DEF TimerVisit
    <3>3. UNCHANGED <<pc, armed, global_monitor_state>>
      BY <2>6 DEF TimerVisit
    <3> QED
      BY <3>1, <3>2, <3>3
  <2>7. CASE CleanupInterceptor  BY <2>7 DEF CleanupInterceptor
  <2>8. CASE WaitForZeroWrappers
    <3>1. CASE active_wrappers = 0
      <4>1. InsideSet = {}
        BY <3>1, GaugesFinite, FS_EmptySet DEF GaugesExact
      <4>2. \A t \in Threads : ~UsesRegistry(t)
        BY <4>1 DEF InsideSet, Inside, OutsidePcs
      <4> QED
        BY <2>8, <3>1, <4>2 DEF WaitForZeroWrappers
    <3>2. CASE active_wrappers # 0
      BY <2>8, <3>2 DEF WaitForZeroWrappers
    <3> QED
      BY <3>1, <3>2
  <2>9. CASE CleanupRegistry     BY <2>9 DEF CleanupRegistry
  <2> QED
    BY <1>6, <2>1, <2>2, <2>3, <2>4, <2>5, <2>6, <2>7, <2>8, <2>9 DEF WalkStep
<1>7. ASSUME NEW a \in Admins, AdminStep(a) PROVE Shutdown'
  <2> USE <1>w DEF Shutdown, Types, UsesRegistry, MayServe
  <2>1. ASSUME NEW on \in BOOLEAN, Toggle(a, on) PROVE Shutdown'
    BY <2>1 DEF Toggle
  <2>2. ASSUME NEW r \in RuleIds, AddRule(a, r) PROVE Shutdown'
    BY <2>2 DEF AddRule
  <2>3. ASSUME NEW n, RemoveRule(a, n) PROVE Shutdown'
    BY <2>3 DEF RemoveRule
  <2>4. ASSUME NEW n, ResetStats(a, n) PROVE Shutdown'
    BY <2>4 DEF ResetStats
  <2> QED
    BY <1>7, <2>1, <2>2, <2>3, <2>4 DEF AdminStep
<1>8. CASE StopPolicyEngine
  BY <1>8, <1>w DEF StopPolicyEngine, Shutdown, Types, UsesRegistry
<1>9. CASE TouchStale \/ UNCHANGED vars
  BY <1>9, <1>a DEF TouchStale, UsesRegistry, vars
<1>10. CASE Halted
  BY <1>9, <1>10 DEF Halted
<1> QED
  BY <1>1, <1>2, <1>3, <1>4, <1>5, <1>6, <1>7, <1>8, <1>9, <1>10 DEF Next
-----------------------------------------------------------------------------
(* The wake-up of rmmod.                                                   *)

LEMMA UnloadInit == Init => UnloadIsWoken
BY DEF Init, UnloadIsWoken, Walkers

LEMMA UnloadStep ==
    Types /\ GaugesExact /\ UnloadIsWoken /\ [Next]_vars => UnloadIsWoken'
<1> SUFFICES ASSUME Types, GaugesExact, UnloadIsWoken, [Next]_vars PROVE UnloadIsWoken'
  OBVIOUS
<1> USE DEF call, gauges, queue, walk, registry, At, AtK, Goto, GotoK
<1>w. /\ Rmmod \in Walkers /\ Rmmod \notin Admins /\ Timer # Rmmod
      /\ active_wrappers \in Nat
  BY EngineAssumption, GaugesFinite DEF Walkers, GaugesExact
<1>a. ASSUME UNCHANGED active_wrappers,
             kpc'[Rmmod] = "zerosleep" => kpc[Rmmod] = "zerosleep",
             \A t \in Threads : pc[t] = "notify" => pc'[t] = "notify"
      PROVE  UnloadIsWoken'
  BY <1>a DEF UnloadIsWoken
<1>1. ASSUME NEW t \in Threads, NEW n \in Syscalls, Dispatch(t, n) PROVE UnloadIsWoken'
  BY <1>1, <1>a DEF Dispatch, Types
<1>2. ASSUME NEW t \in Threads, ThreadStep(t) PROVE UnloadIsWoken'
  <2> USE <1>a DEF Types
  <2>1. CASE EnterPolicy(t)   BY <2>1, <1>w DEF EnterPolicy, UnloadIsWoken
  <2>2. CASE ReadMonitor(t)   BY <2>2 DEF ReadMonitor
  <2>3. CASE CountCall(t)     BY <2>3 DEF CountCall
  <2>4. CASE BlockThread(t)   BY <2>4 DEF BlockThread
  <2>5. CASE RecordBlocked(t) BY <2>5 DEF RecordBlocked
  <2>6. CASE Sleep(t)         BY <2>6 DEF Sleep
  <2>7. CASE Proceed(t)       BY <2>7 DEF Proceed
  <2>8. CASE Uncount(t)       BY <2>8 DEF Uncount
  <2>9. CASE RecordDelay(t)   BY <2>9 DEF RecordDelay
  <2>10. CASE LeavePolicy(t)
    <3>1. CASE active_wrappers = 1
      BY <2>10, <3>1 DEF LeavePolicy, AfterLeave, UnloadIsWoken
    <3>2. CASE active_wrappers # 1
      BY <2>10, <3>2, <1>w DEF LeavePolicy, UnloadIsWoken
    <3> QED
      BY <3>1, <3>2
  <2>11. CASE NotifyUnload(t) BY <2>11, <1>w DEF NotifyUnload, UnloadIsWoken
  <2>12. CASE CallOriginal(t) BY <2>12 DEF CallOriginal
  <2> QED
    BY <1>2, <2>1, <2>2, <2>3, <2>4, <2>5, <2>6, <2>7, <2>8, <2>9, <2>10, <2>11, <2>12
    DEF ThreadStep
<1>3. ASSUME NEW t \in Threads, QueueStep(t) PROVE UnloadIsWoken'
  BY <1>3, <1>a DEF QueueStep, Enqueue, AbandonQueue, Types
<1>4. ASSUME NEW t \in Threads, Interrupt(t) PROVE UnloadIsWoken'
  BY <1>4, <1>a DEF Interrupt, Types
<1>5. ASSUME NEW k \in Walkers, WaitStep(k) PROVE UnloadIsWoken'
  BY <1>5, <1>a, <1>w DEF WaitStep, AcquireFifo, DelTimerSync, Types
<1>6. ASSUME NEW k \in Walkers, WalkStep(k) PROVE UnloadIsWoken'
  <2> USE <1>a, <1>w DEF Types
  <2>1. CASE FlushVisit(k)    BY <2>1 DEF FlushVisit
  <2>2. CASE UnlinkGranted(k) BY <2>2 DEF UnlinkGranted
  <2>3. CASE WakeGranted(k)   BY <2>3 DEF WakeGranted
  <2>4. CASE ReleaseFifo(k)   BY <2>4 DEF ReleaseFifo
  <2>5. CASE TimerFire        BY <2>5 DEF TimerFire
  <2>6. CASE TimerVisit
    <3>1. UNCHANGED <<pc, active_wrappers>> /\ kpc'[Rmmod] = kpc[Rmmod]
      BY <2>6 DEF TimerVisit
    <3> QED
      BY <3>1
  <2>7. CASE CleanupInterceptor  BY <2>7 DEF CleanupInterceptor
  <2>8. CASE WaitForZeroWrappers BY <2>8 DEF WaitForZeroWrappers, UnloadIsWoken
  <2>9. CASE CleanupRegistry     BY <2>9 DEF CleanupRegistry
  <2> QED
    BY <1>6, <2>1, <2>2, <2>3, <2>4, <2>5, <2>6, <2>7, <2>8, <2>9 DEF WalkStep
<1>7. ASSUME NEW a \in Admins, AdminStep(a) PROVE UnloadIsWoken'
  BY <1>7, <1>a, <1>w DEF AdminStep, Toggle, AddRule, RemoveRule, ResetStats, MayServe, Types
<1>8. CASE StopPolicyEngine
  BY <1>8, <1>a, <1>w DEF StopPolicyEngine, Types
<1>9. CASE TouchStale \/ UNCHANGED vars
  BY <1>9, <1>a DEF TouchStale, vars
<1>10. CASE Halted
  BY <1>9, <1>10 DEF Halted
<1> QED
  BY <1>1, <1>2, <1>3, <1>4, <1>5, <1>6, <1>7, <1>8, <1>9, <1>10 DEF Next
-----------------------------------------------------------------------------
(* The theorems.                                                           *)

\* The inductive invariant of the engine.
IInv == Types /\ GaugesExact /\ Shutdown

THEOREM Invariance == Spec => []IInv
<1>1. Init => IInv
  BY TypesInit, GaugesInit, ShutdownInit DEF IInv
<1>2. IInv /\ [Next]_vars => IInv'
  BY TypesStep, GaugesStep, ShutdownStep DEF IInv
<1> QED
  BY <1>1, <1>2, PTL DEF Spec

\* The state keeps its types and the two gauges, atomic_t in the code, never go
\* below zero, whatever the threads, walkers and handlers interleave.
THEOREM TypeCorrect == Spec => []TypeOK
<1>1. IInv => TypeOK
  BY GaugesFinite DEF IInv, TypeOK, GaugesExact
<1> QED
  BY <1>1, Invariance, PTL

\* active_wrappers and total_blocked_threads always count the threads they stand
\* for: no path of enforce_syscall_policy() misses or repeats a decrement.
THEOREM GaugesCorrect == Spec => []GaugesExact
<1>1. IInv => GaugesExact
  BY DEF IInv
<1> QED
  BY <1>1, Invariance, PTL

\* cleanup_registry() frees the rules when no thread, timer or handler can still
\* read them, which is why it needs no grace period.
THEOREM RegistryFreedSafely == Spec => []NoReaderAfterZero
<1>1. IInv => NoReaderAfterZero
  BY DEF IInv, Shutdown, NoReaderAfterZero
<1> QED
  BY <1>1, Invariance, PTL

\* wait_for_zero_wrappers() never sleeps through the last decrement: a thread on its way
\* in makes the gauge positive again, and then it is that thread that notifies.
THEOREM RmmodIsWoken == Spec => []UnloadIsWoken
<1>1. UnloadIsWoken /\ IInv /\ [Next]_vars => UnloadIsWoken'
  BY UnloadStep DEF IInv
<1> QED
  BY <1>1, UnloadInit, Invariance, PTL DEF Spec
-----------------------------------------------------------------------------
(* The queue of waiters.                                                   *)

\* fifo_lock belongs to the one walker inside its critical section.
WalkingPcs == {"walk", "unlink", "wake"}
FifoLockHeld == \A k \in Walkers : kpc[k] \in WalkingPcs <=> fifo_lock = k

\* A walker about to unlink a waiter has granted it, or the waiter's thread is
\* past its wait: it cannot queue anew before the walk is over.
Serving ==
    \A k \in Walkers :
        kpc[k] = "unlink" => cur \in Threads /\ (Suspended(cur) => granted[cur])

\* NoLostWaiter alone does not survive UnlinkGranted, which takes out whatever
\* cur is.
QInv == Types /\ FifoLockHeld /\ Serving /\ NoLostWaiter

\* A node linked out takes no other with it.
LEMMA UnlinkKeeps ==
    ASSUME Types, NEW t, Unlink(t), NEW u \in ToSet(fifo_waiters), u # t
    PROVE  u \in ToSet(fifo_waiters')
<1>1. PICK i \in 1 .. Len(fifo_waiters) :
        fifo_waiters[i] = t /\ fifo_waiters' = RemoveAt(fifo_waiters, i)
  BY DEF Unlink
<1> QED
  BY <1>1, RemoveAtKeeps DEF Types

\* Queueing adds a node and keeps the rest.
LEMMA QueuedHolds ==
    ASSUME Types, NEW t \in Threads, fifo_waiters' = Queued(t)
    PROVE  t \in ToSet(fifo_waiters') /\ ToSet(fifo_waiters) \subseteq ToSet(fifo_waiters')
<1> DEFINE q == fifo_waiters
<1>1. /\ Len(Append(q, t)) = Len(q) + 1 /\ Append(q, t)[Len(q) + 1] = t
      /\ \A i \in 1 .. Len(q) : Append(q, t)[i] = q[i]
      /\ q \in Seq(Threads) /\ Append(q, t) \in Seq(Threads) /\ Len(q) \in Nat
  BY AppendProperties, LenProperties DEF Types
<1> QED
  BY <1>1 DEF Queued, ToSet

LEMMA QueueInit == Init => QInv
<1> SUFFICES ASSUME Init PROVE QInv
  OBVIOUS
<1>1. Types
  BY TypesInit
<1>2. FifoLockHeld /\ Serving
  BY EngineAssumption DEF Init, FifoLockHeld, Serving, WalkingPcs
<1>3. NoLostWaiter
  BY DEF Init, NoLostWaiter, Suspended
<1> QED
  BY <1>1, <1>2, <1>3 DEF QInv
-----------------------------------------------------------------------------
(* The steps.                                                              *)

\* Steps that leave the queue, the tokens and the walks alone and suspend nobody.
LEMMA QueueKept ==
    ASSUME QInv, Types', UNCHANGED <<fifo_waiters, granted, fifo_lock, cur>>,
           \A k \in Walkers : kpc'[k] = kpc[k] \/ {kpc[k], kpc'[k]} \cap WalkingPcs = {},
           \A u \in Threads : Suspended(u)' => Suspended(u)
    PROVE  QInv'
<1>1. FifoLockHeld'
  BY DEF QInv, FifoLockHeld
<1>2. Serving'
  BY DEF QInv, Serving, WalkingPcs
<1>3. NoLostWaiter'
  BY DEF QInv, NoLostWaiter
<1> QED
  BY <1>1, <1>2, <1>3 DEF QInv

LEMMA ThreadStepKeeps ==
    ASSUME QInv, Types', NEW t \in Threads,
           (\E n \in Syscalls : Dispatch(t, n)) \/ ThreadStep(t) \/ Interrupt(t)
    PROVE  QInv'
<1>t. Types
  BY DEF QInv
<1> USE DEF call, gauges, queue, walk, registry, At, Goto
<1>1. CASE BlockThread(t)
  <2>1. \A u \in Threads : Suspended(u)' => u # t /\ Suspended(u) /\ granted'[u] = granted[u]
    BY <1>1, <1>t DEF BlockThread, Suspended, Types
  <2>2. FifoLockHeld'
    BY <1>1 DEF BlockThread, QInv, FifoLockHeld
  <2>3. Serving'
    BY <1>1, <2>1 DEF BlockThread, QInv, Serving
  <2>4. NoLostWaiter'
    BY <1>1, <2>1 DEF BlockThread, QInv, NoLostWaiter
  <2> QED
    BY <2>2, <2>3, <2>4 DEF QInv
<1>2. CASE NotifyUnload(t)
  <2>1. \A k \in Walkers : kpc'[k] = kpc[k] \/ {kpc[k], kpc'[k]} \cap WalkingPcs = {}
    BY <1>2, <1>t DEF NotifyUnload, Types, WalkingPcs
  <2>2. \A u \in Threads : Suspended(u)' => Suspended(u)
    BY <1>2, <1>t DEF NotifyUnload, Types, Suspended
  <2> QED
    BY <1>2, <2>1, <2>2, QueueKept DEF NotifyUnload
<1>3. ASSUME UNCHANGED <<fifo_waiters, granted, fifo_lock, cur, kpc>>,
             pc' = [pc EXCEPT ![t] = pc'[t]],
             pc'[t] \in {"waiting", "asleep"} => pc[t] \in {"waiting", "asleep"}
      PROVE  QInv'
  <2>1. \A u \in Threads : Suspended(u)' => Suspended(u)
    BY <1>3, <1>t DEF Types, Suspended
  <2> QED
    BY <1>3, <2>1, QueueKept
<1>4. ASSUME NEW n \in Syscalls, Dispatch(t, n) PROVE QInv'
  BY <1>3, <1>4, <1>t DEF Dispatch, Types
<1>5. CASE EnterPolicy(t)   BY <1>3, <1>5, <1>t DEF EnterPolicy, Types
<1>6. CASE ReadMonitor(t)   BY <1>3, <1>6, <1>t DEF ReadMonitor, Types
<1>7. CASE CountCall(t)     BY <1>3, <1>7, <1>t DEF CountCall, Types
<1>8. CASE RecordBlocked(t) BY <1>3, <1>8, <1>t DEF RecordBlocked, Types
<1>9. CASE Sleep(t)         BY <1>3, <1>9, <1>t DEF Sleep, Types
<1>10. CASE Proceed(t)      BY <1>3, <1>10, <1>t DEF Proceed, Types
<1>11. CASE Interrupt(t)    BY <1>3, <1>11, <1>t DEF Interrupt, Types
<1>12. CASE Uncount(t)      BY <1>3, <1>12, <1>t DEF Uncount, AfterUncount, Types
<1>13. CASE RecordDelay(t)  BY <1>3, <1>13, <1>t DEF RecordDelay, Types
<1>14. CASE LeavePolicy(t)  BY <1>3, <1>14, <1>t DEF LeavePolicy, AfterLeave, Types
<1>15. CASE CallOriginal(t) BY <1>3, <1>15, <1>t DEF CallOriginal, Types
<1> QED
  BY <1>1, <1>2, <1>4, <1>5, <1>6, <1>7, <1>8, <1>9, <1>10, <1>11, <1>12, <1>13, <1>14, <1>15
  DEF ThreadStep

\* A thread queues only while no walker holds the lock, and leaves only its own
\* node behind, or takes only its own away.
LEMMA QueueStepKeeps ==
    ASSUME QInv, Types', NEW t \in Threads, QueueStep(t)
    PROVE  QInv'
<1>t. Types
  BY DEF QInv
<1> USE DEF call, gauges, walk, registry, At, Goto
<1>1. fifo_lock = NoOne /\ UNCHANGED <<granted, fifo_lock, kpc, cur>>
  BY DEF QueueStep, Enqueue, AbandonQueue
<1>2. FifoLockHeld'
  BY <1>1 DEF QInv, FifoLockHeld
<1>3. Serving'
  <2>1. \A k \in Walkers : kpc[k] # "unlink"
    BY <1>1, EngineAssumption DEF QInv, FifoLockHeld, WalkingPcs
  <2> QED
    BY <1>1, <2>1 DEF Serving
<1>4. NoLostWaiter'
  <2>1. CASE Enqueue(t)
    <3>1. t \in ToSet(fifo_waiters') /\ ToSet(fifo_waiters) \subseteq ToSet(fifo_waiters')
      BY <2>1, <1>t, QueuedHolds DEF Enqueue
    <3>2. \A u \in Threads : Suspended(u)' => u = t \/ Suspended(u)
      BY <2>1, <1>t DEF Enqueue, Types, Suspended
    <3> QED
      BY <1>1, <3>1, <3>2 DEF QInv, NoLostWaiter
  <2>2. CASE AbandonQueue(t)
    <3>1. \A u \in Threads : Suspended(u)' => u # t /\ Suspended(u)
      BY <2>2, <1>t DEF AbandonQueue, Types, Suspended
    <3>2. fifo_waiters' = fifo_waiters \/ Unlink(t)
      BY <2>2 DEF AbandonQueue, Withdraw
    <3>3. \A u \in ToSet(fifo_waiters) : u # t => u \in ToSet(fifo_waiters')
      BY <1>t, <3>2, UnlinkKeeps
    <3> QED
      BY <1>1, <3>1, <3>3 DEF QInv, NoLostWaiter
  <2> QED
    BY <2>1, <2>2 DEF QueueStep
<1> QED
  BY <1>2, <1>3, <1>4 DEF QInv

\* A walker grants the first node it has still to visit, then goes to unlink it.
LEMMA GrantKeeps ==
    ASSUME QInv, Types', NEW k \in Walkers, kpc[k] = "walk", GotoK(k, "unlink"),
           todo # <<>>, Grant(Head(todo)), UNCHANGED <<pc, fifo_waiters, fifo_lock>>
    PROVE  QInv'
<1>t. Types
  BY DEF QInv
<1>1. Head(todo) \in Threads
  BY <1>t, HeadTailProperties DEF Types
<1>2. FifoLockHeld'
  BY <1>t DEF QInv, FifoLockHeld, WalkingPcs, GotoK, Types
<1>3. cur' \in Threads /\ granted'[cur']
  BY <1>t, <1>1 DEF Grant, Types
<1>4. Serving'
  BY <1>3 DEF Serving
<1>5. \A u \in Threads : ~granted'[u] => ~granted[u]
  BY <1>t, <1>1 DEF Grant, Types
<1>6. NoLostWaiter'
  BY <1>5 DEF QInv, NoLostWaiter, Suspended
<1> QED
  BY <1>2, <1>4, <1>6 DEF QInv

LEMMA WalkerStepKeeps ==
    ASSUME QInv, Types', NEW k \in Walkers, WaitStep(k) \/ WalkStep(k)
    PROVE  QInv'
<1>t. Types
  BY DEF QInv
<1>w. /\ Timer \in Walkers /\ Rmmod \in Walkers
      /\ \A j \in Walkers : j # NoOne
  BY EngineAssumption DEF Walkers
<1>s. ASSUME UNCHANGED pc PROVE \A u \in Threads : Suspended(u)' => Suspended(u)
  BY <1>s DEF Suspended
<1> USE DEF call, gauges, queue, walk, registry, AtK, GotoK
<1>1. CASE AcquireFifo(k)
  <2>1. FifoLockHeld'
    BY <1>1, <1>t, <1>w DEF AcquireFifo, QInv, FifoLockHeld, WalkingPcs, Types
  <2>2. Serving'
    BY <1>1, <1>t DEF AcquireFifo, QInv, Serving, Types, Suspended
  <2>3. NoLostWaiter'
    BY <1>1 DEF AcquireFifo, QInv, NoLostWaiter, Suspended
  <2> QED
    BY <2>1, <2>2, <2>3 DEF QInv
<1>2. CASE FlushVisit(k)
  BY <1>2, GrantKeeps DEF FlushVisit
<1>3. CASE TimerVisit
  <2> DEFINE r == Selected(rules_list, Task[Head(todo)], sysno[Head(todo)])
  <2>1. CASE OverLimit(r, current_calls)
    <3>1. UNCHANGED <<pc, fifo_waiters, granted, fifo_lock, cur, kpc>>
      BY <1>3, <2>1 DEF TimerVisit
    <3> QED
      BY <3>1, <1>s, QueueKept
  <2>2. CASE ~OverLimit(r, current_calls)
    <3>1. /\ kpc[Timer] = "walk" /\ GotoK(Timer, "unlink") /\ todo # <<>>
          /\ Grant(Head(todo)) /\ UNCHANGED <<pc, fifo_waiters, fifo_lock>>
      BY <1>3, <2>2 DEF TimerVisit
    <3> QED
      BY <3>1, <1>w, GrantKeeps
  <2> QED
    BY <2>1, <2>2
<1>4. CASE UnlinkGranted(k)
  <2>1. Unlink(cur) /\ UNCHANGED <<pc, granted, fifo_lock, cur>> /\ kpc[k] = "unlink"
    BY <1>4 DEF UnlinkGranted
  <2>2. FifoLockHeld'
    BY <1>4, <1>t DEF UnlinkGranted, QInv, FifoLockHeld, WalkingPcs, Types
  <2>3. Serving'
    BY <1>4, <1>t DEF UnlinkGranted, QInv, Serving, Types, Suspended
  <2>4. Suspended(cur) => granted[cur]
    BY <2>1 DEF QInv, Serving
  <2>5. \A u \in ToSet(fifo_waiters) : u # cur => u \in ToSet(fifo_waiters')
    BY <1>t, <2>1, UnlinkKeeps
  <2>6. NoLostWaiter'
    BY <2>1, <2>4, <2>5 DEF QInv, NoLostWaiter, Suspended
  <2> QED
    BY <2>2, <2>3, <2>6 DEF QInv
<1>5. CASE WakeGranted(k)
  <2>1. \A u \in Threads : Suspended(u)' <=> Suspended(u)
    BY <1>5, <1>t DEF WakeGranted, Types, Suspended
  <2>2. FifoLockHeld'
    BY <1>5, <1>t DEF WakeGranted, QInv, FifoLockHeld, WalkingPcs, Types
  <2>3. Serving'
    <3>1. \A j \in Walkers : kpc[j] \in WalkingPcs => j = k
      BY <1>5 DEF WakeGranted, QInv, FifoLockHeld, WalkingPcs
    <3>2. \A j \in Walkers : kpc'[j] # "unlink"
      BY <1>5, <1>t, <3>1 DEF WakeGranted, WalkingPcs, Types
    <3> QED
      BY <3>2 DEF Serving
  <2>4. NoLostWaiter'
    BY <1>5, <2>1 DEF WakeGranted, QInv, NoLostWaiter
  <2> QED
    BY <2>2, <2>3, <2>4 DEF QInv
<1>6. CASE ReleaseFifo(k)
  <2>1. FifoLockHeld'
    BY <1>6, <1>t, <1>w DEF ReleaseFifo, QInv, FifoLockHeld, WalkingPcs, Types
  <2>2. Serving'
    BY <1>6, <1>t DEF ReleaseFifo, QInv, Serving, Types, Suspended
  <2>3. NoLostWaiter'
    BY <1>6 DEF ReleaseFifo, QInv, NoLostWaiter, Suspended
  <2> QED
    BY <2>1, <2>2, <2>3 DEF QInv
<1>7. ASSUME UNCHANGED <<pc, fifo_waiters, granted, fifo_lock, cur>>,
             \A j \in Walkers : kpc'[j] = kpc[j] \/ {kpc[j], kpc'[j]} \cap WalkingPcs = {}
      PROVE  QInv'
  BY <1>7, <1>s, QueueKept
<1> USE DEF WalkingPcs
<1>8. CASE TimerFire            BY <1>7, <1>8, <1>t DEF TimerFire, Types
<1>9. CASE DelTimerSync         BY <1>7, <1>9, <1>t DEF DelTimerSync, Types
<1>10. CASE CleanupInterceptor  BY <1>7, <1>10, <1>t DEF CleanupInterceptor, Types
<1>11. CASE WaitForZeroWrappers BY <1>7, <1>11, <1>t DEF WaitForZeroWrappers, Types
<1>12. CASE CleanupRegistry     BY <1>7, <1>12, <1>t DEF CleanupRegistry, Types
<1> QED
  BY <1>1, <1>2, <1>3, <1>4, <1>5, <1>6, <1>8, <1>9, <1>10, <1>11, <1>12
  DEF WaitStep, WalkStep

LEMMA QueueInvStep == QInv /\ [Next]_vars => QInv'
<1> SUFFICES ASSUME QInv, [Next]_vars PROVE QInv'
  OBVIOUS
<1>t. Types
  BY DEF QInv
<1>1. Types'
  BY <1>t, TypesStep
<1>2. ASSUME NEW t \in Threads,
             \/ \E n \in Syscalls : Dispatch(t, n)
             \/ ThreadStep(t) \/ QueueStep(t) \/ Interrupt(t)
      PROVE  QInv'
  BY <1>1, <1>2, ThreadStepKeeps, QueueStepKeeps
<1>3. ASSUME NEW k \in Walkers, WaitStep(k) \/ WalkStep(k) PROVE QInv'
  BY <1>1, <1>3, WalkerStepKeeps
<1>4. ASSUME UNCHANGED <<pc, queue, fifo_lock, cur>>,
             \A k \in Walkers : kpc'[k] = kpc[k] \/ {kpc[k], kpc'[k]} \cap WalkingPcs = {}
      PROVE  QInv'
  <2>1. \A u \in Threads : Suspended(u)' => Suspended(u)
    BY <1>4 DEF Suspended
  <2> QED
    BY <1>1, <1>4, <2>1, QueueKept DEF queue
<1> USE DEF walk, registry, AtK, GotoK, WalkingPcs
<1>5. ASSUME NEW a \in Admins, AdminStep(a) PROVE QInv'
  <2>1. ASSUME NEW on \in BOOLEAN, Toggle(a, on) PROVE QInv'
    BY <1>4, <1>t, <2>1 DEF Toggle, MayServe, AfterToggle, Types
  <2> QED
    BY <1>4, <1>5, <2>1 DEF AdminStep, AddRule, RemoveRule, ResetStats
<1>6. CASE StopPolicyEngine
  BY <1>4, <1>6, <1>t DEF StopPolicyEngine, Types
<1>7. CASE TouchStale
  BY <1>4, <1>7 DEF TouchStale
<1>8. CASE UNCHANGED vars
  BY <1>4, <1>8 DEF vars
<1>9. CASE Halted
  BY <1>8, <1>9 DEF Halted
<1> QED
  BY <1>2, <1>3, <1>5, <1>6, <1>7, <1>8, <1>9 DEF Next

THEOREM QueueInvariance == Spec => []QInv
BY QueueInit, QueueInvStep, PTL DEF Spec

\* A suspended thread without a token is always in the queue: no grant, flush,
\* signal, reuse of a stack node or rmmod makes the engine forget it.
THEOREM WaitersNotLost == Spec => []NoLostWaiter
<1>1. QInv => NoLostWaiter
  BY DEF QInv
<1> QED
  BY <1>1, QueueInvariance, PTL
-----------------------------------------------------------------------------
(* The limit. A signal lets its thread through uncounted, and reset_stats   *)
(* opens a second budget: without them the count of a rule bounds the calls *)
(* let through.                                                             *)

OnlyCountedCalls ==
    /\ Env \cap {"signal", "reset_stats"} = {}
    /\ \A r \in RuleIds : Rule[r].max_calls >= 0

\* current_calls counts every call let through, and stops letting them through
\* at the limit. RateLimit alone does not say that the count covers them.
WithinLimit ==
    \A r \in RuleIds : passed[r] <= current_calls[r] /\ passed[r] <= Rule[r].max_calls

LimitInv ==
    /\ Types
    /\ \A t \in Threads : pc[t] # "interrupted"
    /\ WithinLimit

\* Counting a call and letting it through if the count is within the limit.
LEMMA CountKeepsLimit ==
    ASSUME Types, WithinLimit, NEW r,
           current_calls' = Counted(r, current_calls),
           passed' = IF OverLimit(r, current_calls) THEN passed ELSE Counted(r, passed)
    PROVE  WithinLimit'
<1> USE RegistryAssumption DEF Types
<1>1. CASE r \notin RuleIds
  <2>1. \A s \in RuleIds : current_calls'[s] = current_calls[s] /\ passed'[s] = passed[s]
    BY <1>1 DEF Counted
  <2> QED
    BY <2>1 DEF WithinLimit
<1>2. CASE r \in RuleIds
  <2>1. current_calls' = [current_calls EXCEPT ![r] = current_calls[r] + 1]
    BY <1>2 DEF Counted
  <2>2. CASE OverLimit(r, current_calls)
    BY <2>1, <2>2 DEF WithinLimit
  <2>3. CASE ~OverLimit(r, current_calls)
    <3>1. passed' = [passed EXCEPT ![r] = passed[r] + 1]
      BY <1>2, <2>3 DEF Counted
    <3>2. current_calls[r] + 1 <= Rule[r].max_calls
      BY <1>2, <2>3 DEF OverLimit
    <3> QED
      BY <2>1, <3>1, <3>2 DEF WithinLimit
  <2> QED
    BY <2>2, <2>3
<1> QED
  BY <1>1, <1>2

LEMMA LimitInit == OnlyCountedCalls /\ Init => LimitInv
<1> SUFFICES ASSUME OnlyCountedCalls, Init PROVE LimitInv
  OBVIOUS
<1>1. Types
  BY TypesInit
<1> QED
  BY <1>1, RegistryAssumption DEF Init, OnlyCountedCalls, LimitInv, WithinLimit

LEMMA LimitStep == OnlyCountedCalls /\ LimitInv /\ [Next]_vars => LimitInv'
<1> SUFFICES ASSUME OnlyCountedCalls, LimitInv, [Next]_vars PROVE LimitInv'
  OBVIOUS
<1>t. Types
  BY DEF LimitInv
<1>u. Types'
  BY <1>t, TypesStep
<1> USE DEF call, gauges, queue, walk, registry, At, Goto, AtK, GotoK
\* A thread moves to a place other than "interrupted".
<1>m. ASSUME NEW t \in Threads, pc' = [pc EXCEPT ![t] = pc'[t]], pc'[t] # "interrupted"
      PROVE  \A v \in Threads : pc'[v] # "interrupted"
  BY <1>m, <1>t DEF LimitInv, Types
\* Steps that leave the counts alone.
<1>c. ASSUME UNCHANGED <<current_calls, passed>> PROVE WithinLimit'
  BY <1>c DEF LimitInv, WithinLimit
<1>f. ASSUME NEW t \in Threads, pc' = [pc EXCEPT ![t] = pc'[t]], pc'[t] # "interrupted",
             UNCHANGED <<current_calls, passed>>
      PROVE  LimitInv'
  BY <1>f, <1>u, <1>m, <1>c DEF LimitInv
<1>g. ASSUME UNCHANGED <<pc, current_calls, passed>> PROVE LimitInv'
  BY <1>g, <1>u, <1>c DEF LimitInv
<1>1. ASSUME NEW t \in Threads,
             (\E n \in Syscalls : Dispatch(t, n)) \/ ThreadStep(t)
      PROVE  LimitInv'
  <2>0. ASSUME NEW n \in Syscalls, Dispatch(t, n) PROVE LimitInv'
    BY <2>0, <1>t, <1>f DEF Dispatch, Types
  <2>1. CASE EnterPolicy(t)   BY <2>1, <1>t, <1>f DEF EnterPolicy, Types
  <2>2. CASE ReadMonitor(t)   BY <2>2, <1>t, <1>f DEF ReadMonitor, Types
  <2>3. CASE CountCall(t)
    <3> DEFINE r == Selected(rules_list, Task[t], sysno[t])
    <3>1. /\ current_calls' = Counted(r, current_calls)
          /\ passed' = IF OverLimit(r, current_calls) THEN passed ELSE Counted(r, passed)
      BY <2>3 DEF CountCall
    <3>2. WithinLimit'
      BY <1>t, <3>1, CountKeepsLimit DEF LimitInv
    <3>3. pc' = [pc EXCEPT ![t] = pc'[t]] /\ pc'[t] # "interrupted"
      BY <2>3, <1>t DEF CountCall, Types
    <3> QED
      BY <1>u, <3>2, <3>3, <1>m DEF LimitInv
  <2>4. CASE BlockThread(t)   BY <2>4, <1>t, <1>f DEF BlockThread, Types
  <2>5. CASE RecordBlocked(t) BY <2>5, <1>t, <1>f DEF RecordBlocked, Types
  <2>6. CASE Sleep(t)         BY <2>6, <1>t, <1>f DEF Sleep, Types
  <2>7. CASE Proceed(t)       BY <2>7, <1>t, <1>f DEF Proceed, Types
  <2>8. CASE Uncount(t)       BY <2>8, <1>t, <1>f DEF Uncount, AfterUncount, Types
  <2>9. CASE RecordDelay(t)   BY <2>9, <1>t, <1>f DEF RecordDelay, Types
  <2>10. CASE LeavePolicy(t)  BY <2>10, <1>t, <1>f DEF LeavePolicy, AfterLeave, Types
  <2>11. CASE NotifyUnload(t) BY <2>11, <1>t, <1>f DEF NotifyUnload, Types
  <2>12. CASE CallOriginal(t) BY <2>12, <1>t, <1>f DEF CallOriginal, Types
  <2> QED
    BY <1>1, <2>0, <2>1, <2>2, <2>3, <2>4, <2>5, <2>6, <2>7, <2>8, <2>9, <2>10, <2>11, <2>12
    DEF ThreadStep
<1>2. ASSUME NEW t \in Threads, QueueStep(t) PROVE LimitInv'
  <2>1. CASE Enqueue(t)
    BY <2>1, <1>t, <1>f DEF Enqueue, Types
  <2>2. CASE AbandonQueue(t)
    BY <2>2 DEF AbandonQueue, LimitInv
  <2> QED
    BY <1>2, <2>1, <2>2 DEF QueueStep
<1>3. ASSUME NEW t \in Threads, Interrupt(t) PROVE LimitInv'
  BY <1>3 DEF Interrupt, OnlyCountedCalls
<1>4. ASSUME NEW k \in Walkers, WaitStep(k) PROVE LimitInv'
  BY <1>4, <1>g DEF WaitStep, AcquireFifo, DelTimerSync
<1>5. ASSUME NEW k \in Walkers, WalkStep(k) PROVE LimitInv'
  <2>1. CASE FlushVisit(k) \/ UnlinkGranted(k) \/ ReleaseFifo(k)
    BY <2>1, <1>g DEF FlushVisit, UnlinkGranted, ReleaseFifo
  <2>2. CASE WakeGranted(k)
    <3>1. \A v \in Threads : pc'[v] # "interrupted"
      BY <2>2, <1>t DEF WakeGranted, LimitInv, Types
    <3>2. UNCHANGED <<current_calls, passed>>
      BY <2>2 DEF WakeGranted
    <3> QED
      BY <1>u, <1>c, <3>1, <3>2 DEF LimitInv
  <2>3. CASE TimerFire
    <3>1. pc' = pc
      BY <2>3 DEF TimerFire
    <3>2. WithinLimit'
      BY <2>3, RegistryAssumption DEF TimerFire, LimitInv, WithinLimit, OnlyCountedCalls, Types
    <3> QED
      BY <1>u, <3>1, <3>2 DEF LimitInv
  <2>4. CASE TimerVisit
    <3> DEFINE w == Head(todo)
               r == Selected(rules_list, Task[w], sysno[w])
    <3>1. /\ current_calls' = Counted(r, current_calls)
          /\ passed' = IF OverLimit(r, current_calls) THEN passed ELSE Counted(r, passed)
          /\ pc' = pc
      BY <2>4 DEF TimerVisit
    <3>2. WithinLimit'
      BY <1>t, <3>1, CountKeepsLimit DEF LimitInv
    <3> QED
      BY <1>u, <3>1, <3>2 DEF LimitInv
  <2>5. CASE CleanupInterceptor \/ WaitForZeroWrappers \/ CleanupRegistry
    BY <2>5, <1>g DEF CleanupInterceptor, WaitForZeroWrappers, CleanupRegistry
  <2> QED
    BY <1>5, <2>1, <2>2, <2>3, <2>4, <2>5 DEF WalkStep
<1>6. ASSUME NEW a \in Admins, AdminStep(a) PROVE LimitInv'
  <2>1. ASSUME NEW on \in BOOLEAN, Toggle(a, on) PROVE LimitInv'
    BY <2>1, <1>g DEF Toggle
  <2>2. ASSUME NEW r \in RuleIds, AddRule(a, r) PROVE LimitInv'
    <3>1. pc' = pc
      BY <2>2 DEF AddRule
    <3>2. WithinLimit'
      BY <2>2, RegistryAssumption DEF AddRule, LimitInv, WithinLimit, OnlyCountedCalls, Types
    <3> QED
      BY <1>u, <3>1, <3>2 DEF LimitInv
  <2>3. ASSUME NEW n, RemoveRule(a, n) PROVE LimitInv'
    BY <2>3, <1>g DEF RemoveRule
  <2>4. ASSUME NEW n, ResetStats(a, n) PROVE LimitInv'
    BY <2>4 DEF ResetStats, OnlyCountedCalls
  <2> QED
    BY <1>6, <2>1, <2>2, <2>3, <2>4 DEF AdminStep
<1>7. CASE StopPolicyEngine \/ TouchStale
  BY <1>7, <1>g DEF StopPolicyEngine, TouchStale
<1>8. CASE UNCHANGED vars
  BY <1>8, <1>g DEF vars
<1>9. CASE Halted
  BY <1>8, <1>9 DEF Halted
<1> QED
  BY <1>1, <1>2, <1>3, <1>4, <1>5, <1>6, <1>7, <1>8, <1>9 DEF Next

\* In every window a rule lets at most max_calls calls through, whatever rules are
\* added and removed and whenever the monitor is switched, as long as no signal
\* interrupts a wait and nobody clears the statistics.
THEOREM LimitKept == ASSUME OnlyCountedCalls PROVE Spec => []RateLimit
<1>1. Init => LimitInv
  BY LimitInit
<1>2. LimitInv /\ [Next]_vars => LimitInv'
  BY LimitStep
<1>3. LimitInv => RateLimit
  BY ToSetType DEF LimitInv, WithinLimit, RateLimit, Types
<1> QED
  BY <1>1, <1>2, <1>3, PTL DEF Spec
-----------------------------------------------------------------------------
(* Wake-ups.                                                               *)

\* Someone will wake t: the walker that granted it, or a flush that has its node
\* ahead. NoLostWakeup does not tell the two apart, and so does not say which of
\* them is left when the monitor is switched on again or the node is granted.
GrantPending(t) == \E k \in Walkers : kpc[k] \in {"unlink", "wake"} /\ cur = t

Flushing(k, t) ==
    k # Timer /\ (kpc[k] = "lock" \/ (kpc[k] \in WalkingPcs /\ t \in ToSet(todo)))

Attended(t) ==
    pc[t] = "asleep" =>
        /\ granted[t] => GrantPending(t)
        /\ ~granted[t] /\ ~global_monitor_state => \E k \in Walkers : Flushing(k, t)

WakeupInv == QInv /\ \A t \in Threads : Attended(t)

LEMMA WakeupInit == Init => WakeupInv
BY QueueInit DEF Init, WakeupInv, Attended

\* Steps that put nobody to sleep and take nothing from who is to wake a sleeper.
LEMMA WakeupKept ==
    ASSUME WakeupInv, QInv', UNCHANGED <<cur, todo>>,
           ~global_monitor_state' => ~global_monitor_state,
           \A k \in Walkers : kpc'[k] = kpc[k] \/ kpc[k] \notin WalkingPcs \cup {"lock"},
           \A u \in Threads : pc'[u] = "asleep" => pc[u] = "asleep" /\ granted'[u] = granted[u]
    PROVE  WakeupInv'
<1> SUFFICES ASSUME NEW u \in Threads, pc'[u] = "asleep" PROVE Attended(u)'
  BY DEF WakeupInv, Attended
<1>1. pc[u] = "asleep" /\ granted'[u] = granted[u] /\ Attended(u)
  BY DEF WakeupInv
<1>2. GrantPending(u) => GrantPending(u)'
  BY DEF GrantPending, WalkingPcs
<1>3. \A k \in Walkers : Flushing(k, u) => Flushing(k, u)'
  BY DEF Flushing
<1> QED
  BY <1>1, <1>2, <1>3 DEF Attended

LEMMA ThreadStepAttends ==
    ASSUME WakeupInv, QInv', NEW t \in Threads,
           (\E n \in Syscalls : Dispatch(t, n)) \/ ThreadStep(t) \/ QueueStep(t) \/ Interrupt(t)
    PROVE  WakeupInv'
<1>t. Types
  BY DEF WakeupInv, QInv
<1> USE DEF call, gauges, queue, walk, registry, At, Goto
<1>f. ASSUME pc' = [pc EXCEPT ![t] = pc'[t]], pc'[t] # "asleep",
             granted' = [granted EXCEPT ![t] = granted'[t]],
             UNCHANGED <<cur, todo, kpc, global_monitor_state>>
      PROVE  WakeupInv'
  BY <1>f, <1>t, WakeupKept DEF Types
<1>0. ASSUME NEW n \in Syscalls, Dispatch(t, n) PROVE WakeupInv'
  BY <1>0, <1>t, <1>f DEF Dispatch, Types
<1>1. CASE EnterPolicy(t)   BY <1>1, <1>t, <1>f DEF EnterPolicy, Types
<1>2. CASE ReadMonitor(t)   BY <1>2, <1>t, <1>f DEF ReadMonitor, Types
<1>3. CASE CountCall(t)     BY <1>3, <1>t, <1>f DEF CountCall, Types
<1>4. CASE BlockThread(t)   BY <1>4, <1>t, <1>f DEF BlockThread, Types
<1>5. CASE RecordBlocked(t) BY <1>5, <1>t, <1>f DEF RecordBlocked, Types
<1>6. CASE Sleep(t)
  <2>1. ~granted[t] /\ global_monitor_state
    BY <1>6 DEF Sleep, MayGo
  <2>2. Attended(t)'
    BY <1>6, <2>1 DEF Sleep, Attended
  <2>3. ASSUME NEW u \in Threads, u # t PROVE Attended(u)'
    <3>1. Attended(u) /\ pc'[u] = pc[u] /\ granted'[u] = granted[u]
      BY <1>6, <1>t, <2>3 DEF Sleep, WakeupInv, Types
    <3>2. UNCHANGED <<cur, todo, kpc, global_monitor_state>>
      BY <1>6 DEF Sleep
    <3> QED
      BY <3>1, <3>2 DEF Attended, GrantPending, Flushing
  <2> QED
    BY <2>2, <2>3 DEF WakeupInv
<1>7. CASE Proceed(t)       BY <1>7, <1>t, <1>f DEF Proceed, Types
<1>8. CASE Uncount(t)       BY <1>8, <1>t, <1>f DEF Uncount, AfterUncount, Types
<1>9. CASE RecordDelay(t)   BY <1>9, <1>t, <1>f DEF RecordDelay, Types
<1>10. CASE LeavePolicy(t)  BY <1>10, <1>t, <1>f DEF LeavePolicy, AfterLeave, Types
<1>11. CASE NotifyUnload(t)
  <2>1. \A k \in Walkers : kpc'[k] = kpc[k] \/ kpc[k] \notin WalkingPcs \cup {"lock"}
    BY <1>11, <1>t DEF NotifyUnload, Types, WalkingPcs
  <2>2. \A u \in Threads : pc'[u] = "asleep" => pc[u] = "asleep" /\ granted'[u] = granted[u]
    BY <1>11, <1>t DEF NotifyUnload, Types
  <2> QED
    BY <1>11, <2>1, <2>2, WakeupKept DEF NotifyUnload
<1>12. CASE CallOriginal(t) BY <1>12, <1>t, <1>f DEF CallOriginal, Types
<1>13. CASE Enqueue(t)      BY <1>13, <1>t, <1>f DEF Enqueue, Types
<1>14. CASE AbandonQueue(t) BY <1>14, <1>t, <1>f DEF AbandonQueue, Types
<1>15. CASE Interrupt(t)    BY <1>15, <1>t, <1>f DEF Interrupt, Types
<1> QED
  BY <1>0, <1>1, <1>2, <1>3, <1>4, <1>5, <1>6, <1>7, <1>8, <1>9, <1>10, <1>11, <1>12,
     <1>13, <1>14, <1>15
  DEF ThreadStep, QueueStep

\* A walker grants the node it visits; whoever waits for a flush with this node
\* behind him waits still.
LEMMA GrantAttends ==
    ASSUME WakeupInv, QInv', NEW k \in Walkers, kpc[k] = "walk", GotoK(k, "unlink"),
           todo # <<>>, Grant(Head(todo)), todo' = Tail(todo),
           UNCHANGED <<pc, fifo_waiters, global_monitor_state>>
    PROVE  WakeupInv'
<1>t. Types
  BY DEF WakeupInv, QInv
<1>h. /\ Head(todo) \in Threads
      /\ \A u \in ToSet(todo) : u # Head(todo) => u \in ToSet(Tail(todo))
  <2>1. /\ Head(todo) \in Threads /\ Head(todo) = todo[1]
        /\ Tail(todo) \in Seq(Threads) /\ Len(Tail(todo)) = Len(todo) - 1
        /\ \A i \in 1 .. Len(Tail(todo)) : Tail(todo)[i] = todo[i + 1]
        /\ Len(todo) \in Nat
    BY <1>t, HeadTailProperties, LenProperties DEF Types
  <2>2. ASSUME NEW u \in ToSet(todo), u # Head(todo) PROVE u \in ToSet(Tail(todo))
    <3>1. PICK i \in 1 .. Len(todo) : todo[i] = u
      BY <1>t, LenProperties DEF ToSet, Types
    <3>2. i - 1 \in 1 .. Len(Tail(todo)) /\ (i - 1) + 1 = i
      BY <2>1, <2>2, <3>1
    <3>3. Tail(todo)[i - 1] = u
      BY <2>1, <3>1, <3>2
    <3>4. DOMAIN Tail(todo) = 1 .. Len(Tail(todo))
      BY <2>1, LenProperties
    <3> QED
      BY <3>2, <3>3, <3>4 DEF ToSet
  <2> QED
    BY <2>1, <2>2
<1>k. \A j \in Walkers : j # k => kpc[j] \notin WalkingPcs /\ kpc'[j] = kpc[j]
  BY <1>t DEF WakeupInv, QInv, FifoLockHeld, WalkingPcs, GotoK, Types
<1>l. kpc'[k] = "unlink"
  BY <1>t DEF GotoK, Types
<1>1. ASSUME NEW u \in Threads, pc'[u] = "asleep" PROVE Attended(u)'
  <2>0. pc[u] = "asleep" /\ Attended(u)
    BY <1>1 DEF WakeupInv
  <2>1. CASE u = Head(todo)
    <3>1. granted'[u] /\ cur' = u
      BY <2>1, <1>t DEF Grant, Types
    <3> QED
      BY <3>1, <1>l DEF Attended, GrantPending
  <2>2. CASE u # Head(todo)
    <3>1. granted'[u] = granted[u]
      BY <2>2, <1>t DEF Grant, Types
    <3>2. ~GrantPending(u)
      BY <1>k DEF GrantPending, WalkingPcs
    <3>3. ASSUME NEW j \in Walkers, Flushing(j, u) PROVE Flushing(j, u)'
      <4>1. CASE j = k
        BY <1>h, <1>l, <2>2, <3>3, <4>1 DEF Flushing, WalkingPcs
      <4>2. CASE j # k
        BY <1>k, <3>3, <4>2 DEF Flushing
      <4> QED
        BY <4>1, <4>2
    <3> QED
      BY <2>0, <3>1, <3>2, <3>3 DEF Attended
  <2> QED
    BY <2>1, <2>2
<1> QED
  BY <1>1 DEF WakeupInv, Attended

LEMMA WalkerStepAttends ==
    ASSUME WakeupInv, QInv', NEW k \in Walkers, WaitStep(k) \/ WalkStep(k)
    PROVE  WakeupInv'
<1>t. Types
  BY DEF WakeupInv, QInv
<1>w. /\ Timer \in Walkers /\ Rmmod \in Walkers /\ Timer # Rmmod
      /\ \A j \in Walkers : j # NoOne
  BY EngineAssumption DEF Walkers
<1>x. ASSUME kpc[k] \in WalkingPcs
      PROVE  \A j \in Walkers : j # k => kpc[j] \notin WalkingPcs
  BY <1>x DEF WakeupInv, QInv, FifoLockHeld
<1> USE DEF call, gauges, queue, walk, registry, AtK, GotoK
<1>1. CASE AcquireFifo(k)
  <2>1. UNCHANGED <<pc, granted, fifo_waiters, cur, global_monitor_state>>
        /\ todo' = fifo_waiters
    BY <1>1 DEF AcquireFifo
  <2>2. /\ \A j \in Walkers : kpc[j] \notin WalkingPcs
        /\ kpc[k] = "lock" /\ kpc'[k] = "walk"
        /\ \A j \in Walkers : j # k => kpc'[j] = kpc[j]
    BY <1>1, <1>t, <1>w DEF AcquireFifo, WakeupInv, QInv, FifoLockHeld, Types
  <2>3. ASSUME NEW u \in Threads, pc'[u] = "asleep" PROVE Attended(u)'
    <3>1. Attended(u) /\ ~GrantPending(u)
      BY <2>2 DEF WakeupInv, GrantPending, WalkingPcs
    <3>2. ~granted[u] => u \in ToSet(fifo_waiters)
      BY <2>1, <2>3 DEF WakeupInv, QInv, NoLostWaiter, Suspended
    <3>3. ~granted[u] => \A j \in Walkers : Flushing(j, u) => Flushing(j, u)'
      BY <2>1, <2>2, <3>2 DEF Flushing, WalkingPcs
    <3> QED
      BY <2>1, <2>3, <3>1, <3>3 DEF Attended
  <2> QED
    BY <2>3 DEF WakeupInv, Attended
<1>2. CASE FlushVisit(k)
  BY <1>2, GrantAttends DEF FlushVisit
<1>3. CASE TimerVisit
  <2> DEFINE r == Selected(rules_list, Task[Head(todo)], sysno[Head(todo)])
  <2>1. CASE OverLimit(r, current_calls)
    <3>1. UNCHANGED <<pc, granted, cur, kpc, global_monitor_state>> /\ kpc[Timer] = "walk"
      BY <1>3, <2>1 DEF TimerVisit
    <3>2. \A j \in Walkers : j # Timer => kpc[j] \notin WalkingPcs
      BY <3>1, <1>w DEF WakeupInv, QInv, FifoLockHeld, WalkingPcs
    <3>3. \A u \in Threads : \A j \in Walkers : Flushing(j, u) => Flushing(j, u)'
      BY <3>1, <3>2 DEF Flushing
    <3>4. \A u \in Threads : GrantPending(u) => GrantPending(u)'
      BY <3>1 DEF GrantPending
    <3> QED
      BY <3>1, <3>3, <3>4 DEF WakeupInv, Attended
  <2>2. CASE ~OverLimit(r, current_calls)
    <3>1. /\ kpc[Timer] = "walk" /\ GotoK(Timer, "unlink") /\ todo # <<>>
          /\ Grant(Head(todo)) /\ todo' = Tail(todo)
          /\ UNCHANGED <<pc, fifo_waiters, global_monitor_state>>
      BY <1>3, <2>2 DEF TimerVisit
    <3> QED
      BY <3>1, <1>w, GrantAttends
  <2> QED
    BY <2>1, <2>2
<1>4. CASE UnlinkGranted(k)
  <2>1. UNCHANGED <<pc, granted, cur, todo, global_monitor_state>>
    BY <1>4 DEF UnlinkGranted
  <2>2. /\ kpc[k] = "unlink" /\ kpc'[k] = "wake"
        /\ \A j \in Walkers : j # k => kpc'[j] = kpc[j]
    BY <1>4, <1>t DEF UnlinkGranted, Types
  <2>3. \A u \in Threads : GrantPending(u) => GrantPending(u)'
    BY <2>1, <2>2 DEF GrantPending
  <2>4. \A u \in Threads : \A j \in Walkers : Flushing(j, u) => Flushing(j, u)'
    BY <2>1, <2>2 DEF Flushing, WalkingPcs
  <2> QED
    BY <2>1, <2>3, <2>4 DEF WakeupInv, Attended
<1>5. CASE WakeGranted(k)
  <2>1. /\ UNCHANGED <<granted, todo, global_monitor_state>>
        /\ kpc[k] = "wake" /\ kpc'[k] = "walk"
        /\ \A j \in Walkers : j # k => kpc'[j] = kpc[j]
    BY <1>5, <1>t DEF WakeGranted, Types
  <2>2. ASSUME NEW u \in Threads, pc'[u] = "asleep" PROVE Attended(u)'
    <3>1. pc[u] = "asleep" /\ u # cur
      BY <1>5, <1>t, <2>2 DEF WakeGranted, Types
    <3>2. ~GrantPending(u)
      BY <3>1 DEF GrantPending
    <3>3. \A j \in Walkers : Flushing(j, u) => Flushing(j, u)'
      BY <2>1 DEF Flushing, WalkingPcs
    <3> QED
      BY <2>1, <3>1, <3>2, <3>3 DEF WakeupInv, Attended
  <2> QED
    BY <2>2 DEF WakeupInv, Attended
<1>6. CASE ReleaseFifo(k)
  <2>1. /\ UNCHANGED <<pc, granted, cur, todo, global_monitor_state>> /\ todo = <<>>
        /\ kpc[k] = "walk"
        /\ \A j \in Walkers : j # k => kpc'[j] = kpc[j]
    BY <1>6, <1>t DEF ReleaseFifo, Types
  <2>2. \A u \in Threads : ~GrantPending(u)
    BY <2>1, <1>x DEF GrantPending, WalkingPcs
  <2>3. \A u \in Threads : u \notin ToSet(todo)
    BY <2>1 DEF ToSet
  <2>4. \A u \in Threads : \A j \in Walkers : Flushing(j, u) => Flushing(j, u)'
    BY <2>1, <2>3 DEF Flushing
  <2> QED
    BY <2>1, <2>2, <2>4 DEF WakeupInv, Attended
<1>7. ASSUME UNCHANGED <<pc, granted, cur, todo, global_monitor_state>>,
             \A j \in Walkers : kpc'[j] = kpc[j] \/ kpc[j] \notin WalkingPcs \cup {"lock"}
      PROVE  WakeupInv'
  BY <1>7, WakeupKept
<1> USE DEF WalkingPcs
<1>8. CASE TimerFire            BY <1>7, <1>8, <1>t DEF TimerFire, Types
<1>9. CASE DelTimerSync         BY <1>7, <1>9, <1>t DEF DelTimerSync, Types
<1>10. CASE CleanupInterceptor  BY <1>7, <1>10, <1>t DEF CleanupInterceptor, Types
<1>11. CASE WaitForZeroWrappers BY <1>7, <1>11, <1>t DEF WaitForZeroWrappers, Types
<1>12. CASE CleanupRegistry     BY <1>7, <1>12, <1>t DEF CleanupRegistry, Types
<1> QED
  BY <1>1, <1>2, <1>3, <1>4, <1>5, <1>6, <1>8, <1>9, <1>10, <1>11, <1>12
  DEF WaitStep, WalkStep

LEMMA WakeupStep == WakeupInv /\ [Next]_vars => WakeupInv'
<1> SUFFICES ASSUME WakeupInv, [Next]_vars PROVE WakeupInv'
  OBVIOUS
<1>q. QInv /\ QInv'
  BY QueueInvStep DEF WakeupInv
<1>t. Types
  BY <1>q DEF QInv
<1>w. /\ Timer \in Walkers /\ Rmmod \in Walkers /\ Timer # Rmmod
      /\ \A a \in Admins : a \in Walkers /\ a # Timer
  BY EngineAssumption DEF Walkers
<1> USE DEF call, gauges, queue, walk, registry, AtK, GotoK
<1>1. ASSUME NEW t \in Threads,
             \/ \E n \in Syscalls : Dispatch(t, n)
             \/ ThreadStep(t) \/ QueueStep(t) \/ Interrupt(t)
      PROVE  WakeupInv'
  BY <1>1, <1>q, ThreadStepAttends
<1>2. ASSUME NEW k \in Walkers, WaitStep(k) \/ WalkStep(k) PROVE WakeupInv'
  BY <1>2, <1>q, WalkerStepAttends
\* Switching off: whoever does so goes on to flush.
<1>3. ASSUME NEW k \in Walkers, k # Timer, kpc[k] = "idle", GotoK(k, "lock"),
             UNCHANGED <<pc, granted, cur, todo>>
      PROVE  WakeupInv'
  <2>1. kpc'[k] = "lock" /\ \A j \in Walkers : j # k => kpc'[j] = kpc[j]
    BY <1>3, <1>t DEF Types
  <2>2. \A u \in Threads : Flushing(k, u)'
    BY <1>3, <2>1 DEF Flushing
  <2>3. \A u \in Threads : GrantPending(u) => GrantPending(u)'
    BY <1>3, <2>1 DEF GrantPending
  <2> QED
    BY <1>3, <1>q, <2>2, <2>3 DEF WakeupInv, Attended
<1>4. ASSUME UNCHANGED <<pc, granted, cur, todo, kpc>>,
             ~global_monitor_state' => ~global_monitor_state
      PROVE  WakeupInv'
  BY <1>4, <1>q, WakeupKept
<1>5. ASSUME NEW a \in Admins, AdminStep(a) PROVE WakeupInv'
  <2>1. ASSUME NEW on \in BOOLEAN, Toggle(a, on) PROVE WakeupInv'
    <3>1. CASE on
      BY <1>4, <1>w, <1>t, <2>1, <3>1 DEF Toggle, MayServe, AfterToggle, Types
    <3>2. CASE ~on
      BY <1>3, <1>w, <2>1, <3>2 DEF Toggle, MayServe, AfterToggle
    <3> QED
      BY <3>1, <3>2
  <2> QED
    BY <1>4, <1>5, <2>1 DEF AdminStep, AddRule, RemoveRule, ResetStats
<1>6. CASE StopPolicyEngine
  BY <1>3, <1>6, <1>w DEF StopPolicyEngine
<1>7. CASE TouchStale
  BY <1>4, <1>7 DEF TouchStale
<1>8. CASE UNCHANGED vars
  BY <1>4, <1>8 DEF vars
<1>9. CASE Halted
  BY <1>8, <1>9 DEF Halted
<1> QED
  BY <1>1, <1>2, <1>5, <1>6, <1>7, <1>8, <1>9 DEF Next

\* Nobody sleeps through the event he waits for: when a thread's token is given, or
\* the monitor is switched off, some walker is on its way to wake it, although the
\* condition is tested without fifo_lock and toggles, grants and signals interleave.
THEOREM NoWakeupLost == Spec => []NoLostWakeup
<1>1. WakeupInv => NoLostWakeup
  <2> SUFFICES ASSUME WakeupInv, NEW t \in Threads, pc[t] = "asleep",
                      granted[t] \/ ~global_monitor_state
               PROVE  \E k \in Walkers :
                        \/ kpc[k] \in {"unlink", "wake"} /\ cur = t
                        \/ k # Timer /\ kpc[k] = "lock"
                        \/ k # Timer /\ kpc[k] \in {"walk", "unlink", "wake"} /\ t \in ToSet(todo)
    BY DEF NoLostWakeup
  <2>1. Attended(t)
    BY DEF WakeupInv
  <2>2. CASE granted[t]
    BY <2>1, <2>2 DEF Attended, GrantPending
  <2>3. CASE ~granted[t]
    BY <2>1, <2>3 DEF Attended, Flushing, WalkingPcs
  <2> QED
    BY <2>2, <2>3
<1> QED
  BY <1>1, WakeupInit, WakeupStep, PTL DEF Spec
=============================================================================
