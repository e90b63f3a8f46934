-------------------- MODULE PolicyEngineRefinementProofs --------------------
(***************************************************************************)
(* The proof that the engine implements ThrottleSpec, for any number of    *)
(* threads, rules and administrators, while the rules are left alone: the  *)
(* initial state is one of ThrottleSpec's, and every step is one of its    *)
(* steps or changes nothing it can see.                                    *)
(***************************************************************************)
EXTENDS PolicyEngineOrderProofs

LEMMA UnservedStage ==
    ASSUME NEW t
    PROVE  /\ Unserved(t) <=> CallStage(t) \in {"queued", "leaving"}
           /\ Unserved(t)' <=> CallStage(t)' \in {"queued", "leaving"}
BY DEF Unserved, Waits, CallStage

LEMMA CallRuleIs ==
    ASSUME NEW t
    PROVE  /\ CallRule(t) =
                IF CallStage(t) \in {"outside", "through"} THEN NoRule ELSE RuleOf(t)
           /\ CallRule(t)' =
                IF CallStage(t)' \in {"outside", "through"} THEN NoRule ELSE RuleOf(t)'
BY DEF CallRule, RuleOf

\* A step of one thread, t, as far as ThrottleSpec can see.
OneThread(t) ==
    /\ pc' = [pc EXCEPT ![t] = pc'[t]]
    /\ granted' = [granted EXCEPT ![t] = granted'[t]]
    /\ sysno' = [sysno EXCEPT ![t] = sysno'[t]]
    /\ CallStage(t) = "outside" \/ sysno'[t] = sysno[t]
    /\ UNCHANGED rules_list

LEMMA OthersStay ==
    ASSUME Types, NEW t \in Threads, OneThread(t)
    PROVE  \A u \in Threads : u # t =>
                /\ CallStage(u)' = CallStage(u)
                /\ CallRule(u)' = CallRule(u)
                /\ Unserved(u)' <=> Unserved(u)
<1> SUFFICES ASSUME NEW u \in Threads, u # t
             PROVE  /\ CallStage(u)' = CallStage(u)
                    /\ CallRule(u)' = CallRule(u)
                    /\ Unserved(u)' <=> Unserved(u)
  OBVIOUS
<1>1. pc'[u] = pc[u] /\ granted'[u] = granted[u] /\ sysno'[u] = sysno[u]
  BY DEF Types, OneThread
<1>2. CallStage(u)' = CallStage(u)
  BY <1>1 DEF CallStage, Unserved, Waits
<1>3. RuleOf(u)' = RuleOf(u)
  BY <1>1 DEF RuleOf, OneThread
<1> QED
  BY <1>2, <1>3, CallRuleIs, UnservedStage

LEMMA StageMoves ==
    ASSUME Types, NEW t \in Threads, OneThread(t)
    PROVE  Throttle!Moves(t, CallStage(t), CallStage(t)')
BY OthersStay DEF Throttle!Moves

\* The rule of t's call is settled when the engine looks it up, and forgotten when the
\* call is through.
LEMMA RulesStay ==
    ASSUME Types, NEW t \in Threads, OneThread(t),
           CallStage(t) \in {"outside", "through"} <=> CallStage(t)' \in {"outside", "through"}
    PROVE  UNCHANGED [u \in Threads |-> CallRule(u)]
<1>1. CallRule(t)' = CallRule(t)
  <2>1. CASE CallStage(t) \in {"outside", "through"}
    BY <2>1, CallRuleIs
  <2>2. CASE CallStage(t) \notin {"outside", "through"}
    <3>1. RuleOf(t)' = RuleOf(t)
      BY <2>2 DEF RuleOf, OneThread
    <3> QED
      BY <2>2, <3>1, CallRuleIs
  <2> QED
    BY <2>1, <2>2
<1> QED
  BY <1>1, OthersStay

LEMMA RuleForgotten ==
    ASSUME Types, NEW t \in Threads, OneThread(t), CallStage(t)' = "through"
    PROVE  [u \in Threads |-> CallRule(u)]'
                = [[u \in Threads |-> CallRule(u)] EXCEPT ![t] = NoRule]
BY OthersStay, CallRuleIs

LEMMA QueueStays ==
    ASSUME Types, UNCHANGED ahead, \A u \in Threads : Unserved(u)' <=> Unserved(u)
    PROVE  UNCHANGED [u \in Threads |-> CallBefore(u)]
<1> SUFFICES ASSUME NEW u \in Threads PROVE CallBefore(u)' = CallBefore(u)
  OBVIOUS
<1>1. ahead[u] \subseteq Threads
  BY DEF Types
<1> QED
  BY <1>1 DEF CallBefore

LEMMA QueueStaysFor ==
    ASSUME Types, NEW t \in Threads, OneThread(t), UNCHANGED ahead,
           Unserved(t)' <=> Unserved(t)
    PROVE  UNCHANGED [u \in Threads |-> CallBefore(u)]
BY OthersStay, QueueStays

\* A waiter that is served, or leaves by itself, is out of the abstract queue; nobody
\* else sees a difference.
LEMMA OneLeaves ==
    ASSUME Types, NEW t \in Threads, OneThread(t), Unserved(t), CallStage(t)' = "through",
           UNCHANGED ahead \/ (\A u \in Threads : ahead'[u] = ahead[u] \ {t})
    PROVE  Throttle!LeavesQueue(t)
<1>0. ~Unserved(t)'
  BY UnservedStage
<1> SUFFICES ASSUME NEW u \in Threads
             PROVE  CallBefore(u)' = IF u = t THEN {} ELSE CallBefore(u) \ {t}
  BY RuleForgotten DEF Throttle!LeavesQueue
<1>1. ahead[u] \subseteq Threads
  BY DEF Types
<1>2. \A v \in Threads : v # t => (Unserved(v)' <=> Unserved(v))
  BY OthersStay
<1> QED
  BY <1>0, <1>1, <1>2 DEF CallBefore

LEMMA BudgetStays ==
    ASSUME UNCHANGED current_calls
    PROVE  UNCHANGED [r \in RuleIds |-> Spent(r)]
BY DEF Spent

\* What is counted beyond the limit is not spent.
LEMMA Refused ==
    ASSUME Types, NEW r \in RuleIds \cup {NoRule}, OverLimit(r, current_calls),
           current_calls' = Counted(r, current_calls)
    PROVE  Throttle!Exhausted(r) /\ UNCHANGED [s \in RuleIds |-> Spent(s)]
<1>1. r \in RuleIds /\ current_calls[r] \in Nat /\ Rule[r].max_calls \in Int
  BY RegistryAssumption DEF OverLimit, Types
<1>2. current_calls[r] + 1 > Rule[r].max_calls
  BY DEF OverLimit
<1>3. current_calls'[r] = current_calls[r] + 1
      /\ \A s \in RuleIds : s # r => current_calls'[s] = current_calls[s]
  BY <1>1, RegistryAssumption DEF Counted, Types
<1>4. Spent(r) = Rule[r].max_calls /\ Spent(r)' = Rule[r].max_calls
  BY <1>1, <1>2, <1>3 DEF Spent
<1>5. \A s \in RuleIds : Spent(s)' = Spent(s)
  BY <1>3, <1>4 DEF Spent
<1> QED
  BY <1>1, <1>4, <1>5, RegistryAssumption DEF Throttle!Exhausted

LEMMA Charged ==
    ASSUME Types, NEW r \in RuleIds \cup {NoRule}, ~OverLimit(r, current_calls),
           current_calls' = Counted(r, current_calls)
    PROVE  ~Throttle!Exhausted(r) /\ Throttle!Charge(r)
<1>1. CASE r = NoRule
  BY <1>1, BudgetStays DEF Throttle!Exhausted, Throttle!Charge, Counted
<1>2. CASE r # NoRule
  <2>1. r \in RuleIds /\ current_calls[r] \in Nat /\ Rule[r].max_calls \in Int
    BY <1>2, RegistryAssumption DEF Types
  <2>2. current_calls[r] + 1 <= Rule[r].max_calls
    BY <1>2, <2>1 DEF OverLimit
  <2>3. current_calls'[r] = current_calls[r] + 1
        /\ \A s \in RuleIds : s # r => current_calls'[s] = current_calls[s]
    BY <1>2, <2>1 DEF Counted, Types
  <2>4. Spent(r) = current_calls[r] /\ Spent(r)' = Spent(r) + 1
        /\ Spent(r) < Rule[r].max_calls
    BY <2>1, <2>2, <2>3 DEF Spent
  <2>5. \A s \in RuleIds : s # r => Spent(s)' = Spent(s)
    BY <2>3 DEF Spent
  <2>6. ~Throttle!Exhausted(r)
    <3>1. Spent(r) \in Int /\ ~(Spent(r) >= Rule[r].max_calls)
      BY <2>1, <2>4
    <3> QED
      BY <2>1, <3>1 DEF Throttle!Exhausted
  <2>7. Throttle!Charge(r)
    BY <1>2, <2>1, <2>4, <2>5 DEF Throttle!Charge
  <2> QED
    BY <2>6, <2>7
<1> QED
  BY <1>1, <1>2

\* The switch, and no flush begins or ends.
SwitchStays ==
    /\ UNCHANGED global_monitor_state
    /\ \A k \in Walkers \ {Timer} :
        kpc'[k] = kpc[k] \/ {kpc[k], kpc'[k]} \subseteq {"lock"} \cup WalkingPcs
                         \/ {kpc[k], kpc'[k]} \cap ({"lock"} \cup WalkingPcs) = {}

\* No walk moves on.
WalksStay ==
    /\ UNCHANGED <<fifo_waiters, cur>>
    /\ \A k \in Walkers : kpc'[k] = "unlink" <=> kpc[k] = "unlink"

LEMMA FlushersStay ==
    ASSUME SwitchStays
    PROVE  Flushers' = Flushers /\ UNCHANGED global_monitor_state
BY DEF SwitchStays, Flushers, WalkingPcs

LEMMA AbsentStay ==
    ASSUME Types, WalksStay, \A u \in Threads : Unserved(u)' <=> Unserved(u)
    PROVE  Abandoned' = Abandoned
<1>1. \A u : BeingUnlinked(u)' <=> BeingUnlinked(u)
  BY DEF WalksStay, BeingUnlinked
<1>2. \A u \in ToSet(fifo_waiters) : u \in Threads
  BY ToSetType DEF Types
<1> QED
  BY <1>1, <1>2 DEF Abandoned, WalksStay

\* A step of one thread that ThrottleSpec does not see.
LEMMA Unseen ==
    ASSUME Types, NEW t \in Threads, OneThread(t), CallStage(t)' = CallStage(t),
           UNCHANGED <<ahead, current_calls>>, SwitchStays, WalksStay
    PROVE  UNCHANGED Throttle!tvars
<1>1. \A u \in Threads : Unserved(u)' <=> Unserved(u)
  BY UnservedStage, OthersStay
<1>2. UNCHANGED [u \in Threads |-> CallStage(u)]
  BY OthersStay
<1>3. UNCHANGED [u \in Threads |-> CallRule(u)]
  BY RulesStay
<1> QED
  BY <1>1, <1>2, <1>3, QueueStays, BudgetStays, FlushersStay, AbsentStay DEF Throttle!tvars

\* Steps that leave the callers, the queue and the rules alone.
Elsewhere == UNCHANGED <<pc, granted, sysno, rules_list, ahead, current_calls>>

LEMMA CallersStay ==
    ASSUME Elsewhere
    PROVE  /\ UNCHANGED <<[u \in Threads |-> CallStage(u)], [u \in Threads |-> CallRule(u)],
                          [u \in Threads |-> CallBefore(u)], [r \in RuleIds |-> Spent(r)]>>
           /\ \A u : Unserved(u)' <=> Unserved(u)
<1>1. \A u : Unserved(u)' <=> Unserved(u)
  BY DEF Elsewhere, Unserved, Waits
<1>2. \A u \in Threads : /\ CallStage(u)' = CallStage(u)
                         /\ CallRule(u)' = CallRule(u)
                         /\ CallBefore(u)' = CallBefore(u)
  BY DEF Elsewhere, CallStage, CallRule, CallBefore, Unserved, Waits
<1> QED
  BY <1>1, <1>2, BudgetStays DEF Elsewhere

LEMMA NothingSeen ==
    ASSUME Types, Elsewhere, SwitchStays, WalksStay
    PROVE  UNCHANGED Throttle!tvars
BY CallersStay, FlushersStay, AbsentStay DEF Throttle!tvars
-----------------------------------------------------------------------------
(* The steps.                                                              *)

\* A waiter that finds the monitor off leaves its node behind.
LEMMA WalksOut ==
    ASSUME OrderInv, NEW t \in Threads, OneThread(t), SwitchStays, WalksStay,
           UNCHANGED <<ahead, current_calls>>, ~global_monitor_state,
           CallStage(t) = "queued", CallStage(t)' = "through"
    PROVE  Throttle!WalkOut(t)
<1>t. Types /\ QueueIsWaiters
  BY DEF OrderInv, WaitersInv, QInv
<1>1. Unserved(t) /\ ~Unserved(t)'
  BY UnservedStage
<1>2. \A u \in Threads : u # t => (Unserved(u)' <=> Unserved(u))
  BY <1>t, OthersStay
<1>3. t \in ToSet(fifo_waiters) /\ ~BeingUnlinked(t)
  BY <1>t, <1>1 DEF QueueIsWaiters, BeingUnlinked
<1>4. \A u : BeingUnlinked(u)' <=> BeingUnlinked(u)
  BY DEF WalksStay, BeingUnlinked
<1>5. \A u \in ToSet(fifo_waiters) : u \in Threads
  BY <1>t, ToSetType DEF Types
<1>6. Abandoned' = Abandoned \cup {t}
  BY <1>1, <1>2, <1>3, <1>4, <1>5 DEF Abandoned, WalksStay
<1>7. Throttle!Moves(t, "queued", "through")
  BY <1>t, StageMoves
<1>8. Throttle!LeavesQueue(t)
  BY <1>t, <1>1, OneLeaves
<1> QED
  BY <1>6, <1>7, <1>8, BudgetStays, FlushersStay DEF Throttle!WalkOut

LEMMA ThreadStepRefines ==
    ASSUME OrderInv, NEW t \in Threads,
           (\E n \in Syscalls : Dispatch(t, n)) \/ ThreadStep(t) \/ Interrupt(t)
    PROVE  [Throttle!TNext]_(Throttle!tvars)
<1>t. Types
  BY DEF OrderInv, WaitersInv, QInv
<1> USE DEF call, gauges, queue, walk, registry, At, Goto
<1>w. SwitchStays /\ WalksStay
  <2>1. CASE NotifyUnload(t)
    BY <2>1, <1>t DEF NotifyUnload, SwitchStays, WalksStay, WalkingPcs, Types
  <2>2. CASE ~NotifyUnload(t)
    <3>1. UNCHANGED <<fifo_waiters, cur, kpc, global_monitor_state>>
      BY <2>2 DEF Dispatch, ThreadStep, Interrupt, EnterPolicy, ReadMonitor, CountCall,
        BlockThread, RecordBlocked, Sleep, Proceed, Uncount, RecordDelay, LeavePolicy,
        CallOriginal
    <3> QED
      BY <3>1 DEF SwitchStays, WalksStay
  <2> QED
    BY <2>1, <2>2
<1>f. Flushers' = Flushers /\ UNCHANGED global_monitor_state
  BY <1>w, FlushersStay
<1>s. ASSUME CallStage(t)' = CallStage(t), OneThread(t), UNCHANGED <<ahead, current_calls>>
      PROVE  [Throttle!TNext]_(Throttle!tvars)
  BY <1>s, <1>t, <1>w, Unseen
<1>a. ASSUME OneThread(t), UNCHANGED ahead, Unserved(t)' <=> Unserved(t)
      PROVE  UNCHANGED [u \in Threads |-> CallBefore(u)] /\ Abandoned' = Abandoned
  BY <1>a, <1>t, <1>w, QueueStaysFor, OthersStay, AbsentStay
<1>o. ASSUME OneThread(t), UNCHANGED <<ahead, current_calls>>, ~global_monitor_state,
             CallStage(t) = "queued", CallStage(t)' = "through"
      PROVE  [Throttle!TNext]_(Throttle!tvars)
  BY <1>o, <1>w, WalksOut DEF Throttle!TNext
<1>0. ASSUME NEW n \in Syscalls, Dispatch(t, n) PROVE [Throttle!TNext]_(Throttle!tvars)
  BY <1>0, <1>t, <1>s DEF Dispatch, OneThread, CallStage, Unserved, Waits, Types
<1>1. CASE EnterPolicy(t)
  BY <1>1, <1>t, <1>s DEF EnterPolicy, OneThread, CallStage, Unserved, Waits, Types
<1>2. CASE ReadMonitor(t)
  <2>1. /\ pc[t] = "entered" /\ OneThread(t)
        /\ pc'[t] = IF global_monitor_state THEN "count" ELSE "leave"
        /\ UNCHANGED <<ahead, current_calls, sysno, rules_list>>
    BY <1>2, <1>t DEF ReadMonitor, OneThread, Types
  <2>2. /\ CallStage(t) = "outside"
        /\ CallStage(t)' = IF global_monitor_state THEN "deciding" ELSE "through"
    BY <2>1 DEF CallStage, Unserved, Waits
  <2>3. Throttle!Moves(t, CallStage(t), CallStage(t)')
    BY <1>t, <2>1, StageMoves
  <2>4. UNCHANGED [u \in Threads |-> CallBefore(u)] /\ Abandoned' = Abandoned
    BY <1>a, <2>1, <2>2, UnservedStage
  <2>5. CASE global_monitor_state
    <3>1. CallRule(t)' = RuleOf(t)
      BY <2>1, <2>2, <2>5, CallRuleIs DEF RuleOf
    <3>2. [u \in Threads |-> CallRule(u)]'
              = [[u \in Threads |-> CallRule(u)] EXCEPT ![t] = RuleOf(t)]
      BY <1>t, <2>1, <3>1, OthersStay
    <3>3. Throttle!Call(t)
      BY <1>t, <1>f, <2>1, <2>2, <2>3, <2>4, <2>5, <3>2, RuleOfCall, BudgetStays
      DEF Throttle!Call
    <3> QED
      BY <3>3 DEF Throttle!TNext
  <2>6. CASE ~global_monitor_state
    <3>1. UNCHANGED [u \in Threads |-> CallRule(u)]
      BY <1>t, <2>1, <2>2, <2>6, RulesStay
    <3>2. Throttle!Bypass(t)
      BY <1>f, <2>1, <2>2, <2>3, <2>4, <2>6, <3>1, BudgetStays DEF Throttle!Bypass
    <3> QED
      BY <3>2 DEF Throttle!TNext
  <2> QED
    BY <2>5, <2>6
<1>3. CASE CountCall(t)
  <2>1. /\ pc[t] = "count" /\ OneThread(t) /\ UNCHANGED ahead
        /\ pc'[t] = IF OverLimit(RuleOf(t), current_calls) THEN "blocked" ELSE "leave"
        /\ current_calls' = Counted(RuleOf(t), current_calls)
    BY <1>3, <1>t DEF CountCall, OneThread, RuleOf, Types
  <2>2. CallStage(t) = "deciding" /\ CallRule(t) = RuleOf(t)
    BY <2>1, CallRuleIs DEF CallStage, Unserved, Waits
  <2>3. CallStage(t)' = IF OverLimit(RuleOf(t), current_calls) THEN "refused" ELSE "through"
    BY <2>1 DEF CallStage, Unserved, Waits
  <2>4. UNCHANGED [u \in Threads |-> CallBefore(u)] /\ Abandoned' = Abandoned
    BY <1>a, <2>1, <2>2, <2>3, UnservedStage
  <2>5. RuleOf(t) \in RuleIds \cup {NoRule}
    BY <1>t, RuleOfCall
  <2>6. Throttle!Moves(t, CallStage(t), CallStage(t)')
    BY <1>t, <2>1, StageMoves
  <2>7. CASE OverLimit(RuleOf(t), current_calls)
    <3>1. Throttle!Exhausted(RuleOf(t)) /\ UNCHANGED [s \in RuleIds |-> Spent(s)]
      BY <1>t, <2>1, <2>5, <2>7, Refused
    <3>2. UNCHANGED [u \in Threads |-> CallRule(u)]
      BY <1>t, <2>1, <2>2, <2>3, <2>7, RulesStay
    <3>3. Throttle!Refuse(t)
      BY <1>f, <2>2, <2>3, <2>4, <2>6, <2>7, <3>1, <3>2 DEF Throttle!Refuse
    <3> QED
      BY <3>3 DEF Throttle!TNext
  <2>8. CASE ~OverLimit(RuleOf(t), current_calls)
    <3>1. ~Throttle!Exhausted(RuleOf(t)) /\ Throttle!Charge(RuleOf(t))
      BY <1>t, <2>1, <2>5, <2>8, Charged
    <3>2. [u \in Threads |-> CallRule(u)]'
              = [[u \in Threads |-> CallRule(u)] EXCEPT ![t] = NoRule]
      BY <1>t, <2>1, <2>3, <2>8, RuleForgotten
    <3>3. Throttle!Admit(t)
      BY <1>f, <2>2, <2>3, <2>4, <2>6, <2>8, <3>1, <3>2 DEF Throttle!Admit
    <3> QED
      BY <3>3 DEF Throttle!TNext
  <2> QED
    BY <2>7, <2>8
<1>4. CASE BlockThread(t)
  BY <1>4, <1>t, <1>s DEF BlockThread, OneThread, CallStage, Unserved, Waits, Types
<1>5. CASE RecordBlocked(t)
  BY <1>5, <1>t, <1>s DEF RecordBlocked, OneThread, CallStage, Unserved, Waits, Types
<1>6. CASE Sleep(t)
  BY <1>6, <1>t, <1>s DEF Sleep, OneThread, CallStage, Unserved, Waits, Types
<1>7. CASE Proceed(t)
  <2>1. /\ pc[t] = "waiting" /\ pc'[t] = "released" /\ OneThread(t)
        /\ UNCHANGED <<ahead, current_calls>> /\ (granted[t] \/ ~global_monitor_state)
    BY <1>7, <1>t DEF Proceed, MayGo, OneThread, Types
  <2>2. /\ CallStage(t)' = "through"
        /\ CallStage(t) = IF granted[t] THEN "through" ELSE "queued"
    BY <2>1 DEF CallStage, Unserved, Waits
  <2> QED
    BY <1>s, <1>o, <2>1, <2>2
<1>8. CASE Uncount(t)
  BY <1>8, <1>t, <1>s DEF Uncount, AfterUncount, OneThread, CallStage, Unserved, Waits, Types
<1>9. CASE RecordDelay(t)
  BY <1>9, <1>t, <1>s DEF RecordDelay, OneThread, CallStage, Unserved, Waits, Types
<1>10. CASE LeavePolicy(t)
  BY <1>10, <1>t, <1>s
  DEF LeavePolicy, AfterLeave, OneThread, CallStage, Unserved, Waits, Types
<1>11. CASE NotifyUnload(t)
  BY <1>11, <1>t, <1>s DEF NotifyUnload, OneThread, CallStage, Unserved, Waits, Types
<1>12. CASE CallOriginal(t)
  <2>1. /\ pc[t] = "origin" /\ pc'[t] = "user" /\ OneThread(t)
        /\ UNCHANGED <<ahead, current_calls>>
    BY <1>12, <1>t DEF CallOriginal, OneThread, Types
  <2>2. CallStage(t) = "through" /\ CallStage(t)' = "outside"
    BY <2>1 DEF CallStage, Unserved, Waits
  <2>3. Throttle!Moves(t, "through", "outside")
    BY <1>t, <2>1, <2>2, StageMoves
  <2>4. UNCHANGED [u \in Threads |-> CallRule(u)]
    BY <1>t, <2>1, <2>2, RulesStay
  <2>5. UNCHANGED [u \in Threads |-> CallBefore(u)] /\ Abandoned' = Abandoned
    BY <1>a, <2>1, <2>2, UnservedStage
  <2>6. Throttle!Return(t)
    BY <1>f, <2>1, <2>3, <2>4, <2>5, BudgetStays DEF Throttle!Return
  <2> QED
    BY <2>6 DEF Throttle!TNext
<1>13. CASE Interrupt(t)
  <2>1. /\ pc[t] \in {"waiting", "asleep"} /\ OneThread(t)
        /\ UNCHANGED <<ahead, current_calls, granted>>
        /\ pc'[t] = IF granted[t] \/ ~global_monitor_state
                    THEN "released" ELSE "interrupted"
    BY <1>13, <1>t DEF Interrupt, MayGo, OneThread, Types
  <2>2. CASE granted[t]
    <3>1. CallStage(t)' = CallStage(t)
      BY <2>1, <2>2 DEF CallStage, Unserved, Waits
    <3> QED
      BY <1>s, <2>1, <3>1
  <2>3. CASE ~granted[t] /\ ~global_monitor_state
    <3>1. CallStage(t) = "queued" /\ CallStage(t)' = "through"
      BY <2>1, <2>3 DEF CallStage, Unserved, Waits
    <3> QED
      BY <1>o, <2>1, <2>3, <3>1
  <2>4. CASE ~granted[t] /\ global_monitor_state
    <3>1. CallStage(t) = "queued" /\ CallStage(t)' = "leaving"
      BY <2>1, <2>4 DEF CallStage, Unserved, Waits
    <3>2. Throttle!Moves(t, "queued", "leaving")
      BY <1>t, <2>1, <3>1, StageMoves
    <3>3. UNCHANGED [u \in Threads |-> CallBefore(u)] /\ Abandoned' = Abandoned
      BY <1>a, <2>1, <3>1, UnservedStage
    <3>4. UNCHANGED [u \in Threads |-> CallRule(u)]
      BY <1>t, <2>1, <3>1, RulesStay
    <3>5. Throttle!LoseHeart(t)
      BY <1>f, <2>1, <2>4, <3>2, <3>3, <3>4, BudgetStays DEF Throttle!LoseHeart
    <3> QED
      BY <3>5 DEF Throttle!TNext
  <2> QED
    BY <2>2, <2>3, <2>4
<1> QED
  BY <1>0, <1>1, <1>2, <1>3, <1>4, <1>5, <1>6, <1>7, <1>8, <1>9, <1>10, <1>11, <1>12, <1>13
  DEF ThreadStep

LEMMA QueueStepRefines ==
    ASSUME OrderInv, NEW t \in Threads, QueueStep(t)
    PROVE  [Throttle!TNext]_(Throttle!tvars)
<1>t. Types /\ QueueIsWaiters /\ fifo_waiters \in Seq(Threads) /\ IsInjective(fifo_waiters)
  BY DEF OrderInv, WaitersInv, QInv, QueueIsWaiters, Types
<1> USE DEF call, gauges, walk, registry, At, Goto
<1>l. fifo_lock = NoOne /\ UNCHANGED <<kpc, cur, global_monitor_state>>
  BY DEF QueueStep, Enqueue, AbandonQueue
<1>f. Flushers' = Flushers
  BY <1>l, FlushersStay DEF SwitchStays
<1>b. \A u : ~BeingUnlinked(u) /\ ~BeingUnlinked(u)'
  <2>1. \A u : ~BeingUnlinked(u)
    BY <1>l, NobodyUnlinks DEF OrderInv, WaitersInv
  <2> QED
    BY <1>l, <2>1 DEF BeingUnlinked
<1>1. CASE Enqueue(t)
  <2>1. /\ pc[t] = "enqueue" /\ pc'[t] = "waiting" /\ OneThread(t)
        /\ UNCHANGED <<granted, current_calls>>
        /\ ahead' = [ahead EXCEPT ![t] = ToSet(fifo_waiters)]
        /\ fifo_waiters' = Append(fifo_waiters, t)
    BY <1>1, <1>t DEF Enqueue, Queued, OneThread, Types
  <2>2. ~granted[t]
    BY <1>t, <2>1 DEF QueueIsWaiters
  <2>3. CallStage(t) = "refused" /\ CallStage(t)' = "queued"
    BY <2>1, <2>2 DEF CallStage, Unserved, Waits
  <2>4. Throttle!Moves(t, "refused", "queued")
    BY <1>t, <2>1, <2>3, StageMoves
  <2>5. \A u \in Threads : Unserved(u) => u \in ToSet(fifo_waiters)
    BY <1>t DEF QueueIsWaiters
  <2>6. ~Unserved(t) /\ Unserved(t)'
    BY <2>3, UnservedStage
  <2>7. {u \in ToSet(fifo_waiters) : Unserved(u)}
            = {u \in Threads : CallStage(u) \in {"queued", "leaving"}}
    BY <1>t, <2>5, UnservedStage, ToSetType DEF Types
  <2>8. \A u \in Threads : u # t => (Unserved(u)' <=> Unserved(u))
    BY <1>t, <2>1, OthersStay
  <2>9. t \notin ToSet(fifo_waiters)
    BY <1>t, <1>1, EnqueueFresh
  <2>10. CallBefore(t)' = {u \in ToSet(fifo_waiters) : Unserved(u)}
    <3>1. ahead'[t] = ToSet(fifo_waiters)
      BY <1>t, <2>1 DEF Types
    <3>2. \A v \in ToSet(fifo_waiters) : Unserved(v)' <=> Unserved(v)
      BY <1>t, <2>8, <2>9, ToSetType DEF Types
    <3> QED
      BY <2>6, <3>1, <3>2 DEF CallBefore
  <2>11. ASSUME NEW u \in Threads, u # t PROVE CallBefore(u)' = CallBefore(u)
    <3>1. ahead'[u] = ahead[u] /\ ahead[u] \subseteq Threads
      BY <1>t, <2>1, <2>11 DEF Types
    <3>2. Unserved(u) => t \notin ahead[u]
      BY <2>5, <2>9 DEF OrderInv, QueueOrdered
    <3> QED
      BY <2>8, <2>11, <3>1, <3>2 DEF CallBefore
  <2>12. [u \in Threads |-> CallBefore(u)]'
            = [[u \in Threads |-> CallBefore(u)] EXCEPT ![t] =
                {u \in Threads : CallStage(u) \in {"queued", "leaving"}}]
    BY <2>7, <2>10, <2>11
  <2>13. Throttle!Waiting = {u \in Threads : CallStage(u) \in {"queued", "leaving"}}
    BY DEF Throttle!Waiting
  <2>14. Abandoned' = Abandoned
    <3>1. ToSet(fifo_waiters') = ToSet(fifo_waiters) \cup {t}
      BY <1>t, <2>1, <2>9, AppendList
    <3>2. \A u \in ToSet(fifo_waiters) : Unserved(u)' <=> Unserved(u)
      BY <1>t, <2>8, <2>9, ToSetType
    <3> QED
      BY <1>b, <2>6, <3>1, <3>2 DEF Abandoned
  <2>15. UNCHANGED [u \in Threads |-> CallRule(u)]
    BY <1>t, <2>1, <2>3, RulesStay
  <2>16. Throttle!Queue(t)
    BY <1>l, <1>f, <2>1, <2>4, <2>12, <2>13, <2>14, <2>15, BudgetStays DEF Throttle!Queue
  <2> QED
    BY <2>16 DEF Throttle!TNext
<1>2. CASE AbandonQueue(t)
  <2>1. /\ pc[t] = "interrupted" /\ pc'[t] = "cancelled" /\ OneThread(t)
        /\ UNCHANGED <<granted, current_calls>>
        /\ granted[t] => UNCHANGED <<fifo_waiters, ahead>>
        /\ ~granted[t] => Unlink(t)
    BY <1>2, <1>t DEF AbandonQueue, Withdraw, OneThread, Types
  <2>2. CallStage(t)' = "through"
    BY <2>1 DEF CallStage, Unserved, Waits
  <2>3. CASE granted[t]
    <3>1. CallStage(t) = "through"
      BY <2>1, <2>3 DEF CallStage, Unserved, Waits
    <3> QED
      BY <1>t, <1>l, <2>1, <2>2, <2>3, <3>1, Unseen DEF SwitchStays, WalksStay
  <2>4. CASE ~granted[t]
    <3>1. CallStage(t) = "leaving"
      BY <2>1, <2>4 DEF CallStage, Unserved, Waits
    <3>2. Throttle!Moves(t, "leaving", "through")
      BY <1>t, <2>1, <2>2, <3>1, StageMoves
    <3>3. \A u \in Threads : ahead'[u] = ahead[u] \ {t}
      BY <2>1, <2>4 DEF Unlink
    <3>4. Unserved(t)
      BY <3>1, UnservedStage
    <3>5. Throttle!LeavesQueue(t)
      BY <1>t, <2>1, <2>2, <3>3, <3>4, OneLeaves
    <3>6. Abandoned' = Abandoned
      <4>1. ToSet(fifo_waiters') = ToSet(fifo_waiters) \ {t}
        BY <1>t, <2>1, <2>4, UnlinkInjective
      <4>2. \A u \in ToSet(fifo_waiters) : u # t => (Unserved(u)' <=> Unserved(u))
        BY <1>t, <2>1, OthersStay, ToSetType
      <4> QED
        BY <1>b, <3>4, <4>1, <4>2 DEF Abandoned
    <3>7. Throttle!GiveUp(t)
      BY <1>l, <1>f, <2>1, <3>2, <3>5, <3>6, BudgetStays DEF Throttle!GiveUp
    <3> QED
      BY <3>7 DEF Throttle!TNext
  <2> QED
    BY <2>3, <2>4
<1> QED
  BY <1>1, <1>2 DEF QueueStep

\* A walk grants the node it has come to: that of a waiter, who is through from then on,
\* or one that its thread has left behind.
LEMMA GrantSeen ==
    ASSUME OrderInv, NEW k \in Walkers, kpc[k] = "walk", GotoK(k, "unlink"),
           todo # <<>>, NEW w, w = Head(todo), Grant(w),
           UNCHANGED <<pc, sysno, rules_list, ahead, fifo_waiters>>
    PROVE  /\ w \in Threads /\ w \in ToSet(fifo_waiters) /\ Flushers' = Flushers
           /\ Unserved(w) =>
                /\ Throttle!Moves(w, "queued", "through") \/ Throttle!Moves(w, "leaving", "through")
                /\ CallRule(w) = RuleOf(w)
                /\ Throttle!LeavesQueue(w)
                /\ Abandoned' = Abandoned
           /\ ~Unserved(w) =>
                /\ w \in Abandoned /\ Abandoned' = Abandoned \ {w}
                /\ UNCHANGED <<[u \in Threads |-> CallStage(u)],
                               [u \in Threads |-> CallRule(u)],
                               [u \in Threads |-> CallBefore(u)]>>
<1>t. Types /\ todo \in Seq(Threads) /\ QueueIsWaiters
  BY DEF OrderInv, WaitersInv, QInv, Types
<1>k. kpc[k] \in WalkingPcs /\ kpc'[k] = "unlink"
      /\ \A j \in Walkers : j # k => kpc'[j] = kpc[j]
  BY <1>t DEF WalkingPcs, GotoK, Types
<1>1. w \in Threads /\ w \in ToSet(todo)
  BY <1>t, TailList
<1>2. w \in ToSet(fifo_waiters)
  BY <1>k, <1>1 DEF OrderInv, WaitersInv, WalkIsAhead
<1>3. \A u : ~BeingUnlinked(u)
  BY <1>k, WhoUnlinks DEF OrderInv, WaitersInv
<1>4. Flushers' = Flushers
  BY <1>k DEF Flushers
<1>5. /\ OneThread(w) /\ granted'[w] /\ cur' = w
      /\ \A u \in Threads : u # w => granted'[u] = granted[u]
  BY <1>t, <1>1 DEF Grant, OneThread, Types
<1>6. \A u : BeingUnlinked(u)' <=> u = w
  BY <1>k, <1>5 DEF BeingUnlinked
<1>7. \A u \in ToSet(fifo_waiters) : u \in Threads
  BY <1>t, ToSetType DEF Types
<1>8. ~Unserved(w)' /\ \A u \in Threads : u # w => (Unserved(u)' <=> Unserved(u))
  BY <1>5 DEF Unserved, Waits
<1>9. ASSUME Unserved(w)
      PROVE  /\ Throttle!Moves(w, "queued", "through") \/ Throttle!Moves(w, "leaving", "through")
             /\ CallRule(w) = RuleOf(w)
             /\ Throttle!LeavesQueue(w)
             /\ Abandoned' = Abandoned
  <2>1. CallStage(w) \in {"queued", "leaving"}
    BY <1>9, UnservedStage
  <2>2. CallStage(w)' = "through"
    BY <1>5, <1>9 DEF CallStage, Unserved, Waits
  <2>3. Throttle!Moves(w, CallStage(w), "through")
    BY <1>t, <1>1, <1>5, <2>2, StageMoves
  <2>4. Throttle!LeavesQueue(w)
    BY <1>t, <1>1, <1>5, <1>9, <2>2, OneLeaves
  <2>5. Abandoned' = Abandoned
    BY <1>3, <1>6, <1>7, <1>8, <1>9 DEF Abandoned
  <2> QED
    BY <2>1, <2>3, <2>4, <2>5, CallRuleIs
<1>10. ASSUME ~Unserved(w)
       PROVE  /\ w \in Abandoned /\ Abandoned' = Abandoned \ {w}
              /\ UNCHANGED <<[u \in Threads |-> CallStage(u)],
                             [u \in Threads |-> CallRule(u)],
                             [u \in Threads |-> CallBefore(u)]>>
  <2>1. w \in Abandoned /\ Abandoned' = Abandoned \ {w}
    BY <1>2, <1>3, <1>6, <1>7, <1>8, <1>10 DEF Abandoned
  <2>2. ~Waits(w)
    BY <1>t, <1>2, <1>3, <1>10 DEF QueueIsWaiters, Unserved
  <2>3. CallStage(w)' = CallStage(w)
    BY <2>2 DEF CallStage, Unserved, Waits
  <2>4. UNCHANGED [u \in Threads |-> CallStage(u)]
    BY <1>t, <1>1, <1>5, <2>3, OthersStay
  <2>5. UNCHANGED [u \in Threads |-> CallRule(u)]
    BY <1>t, <1>1, <1>5, <2>3, RulesStay
  <2>6. UNCHANGED [u \in Threads |-> CallBefore(u)]
    BY <1>t, <1>8, <1>10, QueueStays
  <2> QED
    BY <2>1, <2>4, <2>5, <2>6
<1> QED
  BY <1>1, <1>2, <1>4, <1>9, <1>10

\* What the timer does by itself.
LEMMA TimerStepRefines ==
    ASSUME RulesAlone, OrderInv, TimerFire \/ TimerVisit
    PROVE  [Throttle!TNext]_(Throttle!tvars)
<1>t. Types /\ todo \in Seq(Threads)
  BY DEF OrderInv, WaitersInv, QInv, Types
<1> USE DEF call, gauges, queue, walk, registry, AtK, GotoK
<1>1. CASE TimerFire
  <2>1. UNCHANGED <<pc, granted, sysno, rules_list, ahead>> /\ SwitchStays /\ WalksStay
        /\ kpc[Rmmod] # "freed"
    BY <1>1, <1>t DEF TimerFire, SwitchStays, WalksStay, Types, OrderInv, IInv, Shutdown
  <2>2. \A u \in Threads : /\ CallStage(u)' = CallStage(u)
                           /\ CallRule(u)' = CallRule(u)
                           /\ CallBefore(u)' = CallBefore(u)
                           /\ Unserved(u)' <=> Unserved(u)
    BY <2>1 DEF CallStage, CallRule, CallBefore, Unserved, Waits
  <2>3. \A r \in RuleIds : current_calls'[r] = 0
    BY <1>1, <2>1 DEF TimerFire, OrderInv, ListedCounted
  <2>4. \A r \in RuleIds : Spent(r)' = 0
    BY <2>3, RegistryAssumption DEF Spent, RulesAlone
  <2>5. Throttle!NewWindow
    BY <1>t, <2>1, <2>2, <2>4, FlushersStay, AbsentStay DEF Throttle!NewWindow
  <2> QED
    BY <2>5 DEF Throttle!TNext
<1>2. CASE TimerVisit
  <2>0. PICK w : w = Head(todo)
    OBVIOUS
  <2>1. /\ kpc[Timer] = "walk" /\ todo # <<>>
        /\ UNCHANGED <<pc, sysno, rules_list, ahead, fifo_waiters, global_monitor_state>>
        /\ current_calls' = Counted(RuleOf(w), current_calls)
        /\ IF OverLimit(RuleOf(w), current_calls) THEN UNCHANGED <<kpc, granted, cur>>
           ELSE GotoK(Timer, "unlink") /\ Grant(w)
    BY <1>2, <2>0 DEF TimerVisit, RuleOf
  <2>2. RuleOf(w) \in RuleIds \cup {NoRule}
    BY <1>t, RuleOfCall
  <2>3. CASE OverLimit(RuleOf(w), current_calls)
    <3>1. UNCHANGED [r \in RuleIds |-> Spent(r)]
      BY <1>t, <2>1, <2>2, <2>3, Refused
    <3>2. SwitchStays /\ WalksStay /\ UNCHANGED granted
      BY <2>1, <2>3 DEF SwitchStays, WalksStay
    <3>3. \A u \in Threads : /\ CallStage(u)' = CallStage(u)
                             /\ CallRule(u)' = CallRule(u)
                             /\ CallBefore(u)' = CallBefore(u)
                             /\ Unserved(u)' <=> Unserved(u)
      BY <2>1, <3>2 DEF CallStage, CallRule, CallBefore, Unserved, Waits
    <3> QED
      BY <1>t, <3>1, <3>2, <3>3, FlushersStay, AbsentStay DEF Throttle!tvars
  <2>4. CASE ~OverLimit(RuleOf(w), current_calls)
    <3>1. ~Throttle!Exhausted(RuleOf(w)) /\ Throttle!Charge(RuleOf(w))
      BY <1>t, <2>1, <2>2, <2>4, Charged
    <3>2. GotoK(Timer, "unlink") /\ Grant(w)
      BY <2>1, <2>4
    <3> HIDE DEF GotoK
    <3>3. w \in Threads /\ w \in ToSet(fifo_waiters) /\ Flushers' = Flushers
      BY <2>0, <2>1, <3>2, WalkersKnown, GrantSeen
    <3>4. CASE Unserved(w)
      <4>1. /\ Throttle!Moves(w, "queued", "through") \/ Throttle!Moves(w, "leaving", "through")
            /\ CallRule(w) = RuleOf(w)
            /\ Throttle!LeavesQueue(w)
            /\ Abandoned' = Abandoned
        BY <2>0, <2>1, <3>2, <3>4, WalkersKnown, GrantSeen
      <4>2. ASSUME NEW u \in CallBefore(w) PROVE u \in Threads /\ CallRule(u) # CallRule(w)
        <5>1. u \in ahead[w] /\ Unserved(u) /\ u \in Threads
          BY <1>t, <3>3, <3>4, <4>2 DEF CallBefore, Types
        <5>2. u # w
          BY <3>3, <5>1 DEF OrderInv, QueueOrdered
        <5>3. RuleOf(u) # RuleOf(w)
          BY <1>2, <2>0, <2>4, <5>1, <5>2, FirstIsServed DEF Unserved
        <5>4. CallRule(u) = RuleOf(u)
          BY <5>1, UnservedStage, CallRuleIs
        <5> QED
          BY <4>1, <5>1, <5>3, <5>4
      <4>3. Throttle!Serve(w)
        BY <2>1, <3>1, <3>3, <4>1, <4>2 DEF Throttle!Serve
      <4> QED
        BY <3>3, <4>3 DEF Throttle!TNext
    <3>5. CASE ~Unserved(w)
      <4>1. /\ w \in Abandoned /\ Abandoned' = Abandoned \ {w}
            /\ UNCHANGED <<[u \in Threads |-> CallStage(u)],
                           [u \in Threads |-> CallRule(u)],
                           [u \in Threads |-> CallBefore(u)]>>
        BY <2>0, <2>1, <3>2, <3>5, WalkersKnown, GrantSeen
      <4>2. Throttle!ServeAbsent(w)
        BY <2>1, <2>2, <3>1, <3>3, <4>1 DEF Throttle!ServeAbsent
      <4> QED
        BY <4>1, <4>2 DEF Throttle!TNext
    <3> QED
      BY <3>4, <3>5
  <2> QED
    BY <2>3, <2>4
<1> QED
  BY <1>1, <1>2

\* A flush sends home who waits, whatever the limits, and ends when nobody is left.
LEMMA FlushStepRefines ==
    ASSUME OrderInv, NEW k \in Walkers \ {Timer},
           FlushVisit(k) \/ ReleaseFifo(k)
    PROVE  [Throttle!TNext]_(Throttle!tvars)
<1>t. Types /\ todo \in Seq(Threads) /\ fifo_waiters \in Seq(Threads)
  BY DEF OrderInv, WaitersInv, QInv, Types
<1>f. kpc[k] = "walk" /\ k \in Flushers /\ UNCHANGED global_monitor_state
  BY DEF FlushVisit, ReleaseFifo, AtK, Flushers
<1>1. CASE FlushVisit(k)
  <2>1. PICK w : w = Head(todo)
    OBVIOUS
  <2>2. /\ todo # <<>> /\ GotoK(k, "unlink") /\ Grant(w)
        /\ UNCHANGED <<pc, sysno, rules_list, ahead, fifo_waiters, current_calls>>
    BY <1>1, <2>1 DEF FlushVisit, call, queue, registry
  <2>3. w \in Threads /\ Flushers' = Flushers
    BY <1>f, <2>1, <2>2, GrantSeen
  <2>4. CASE Unserved(w)
    <3>1. /\ Throttle!Moves(w, "queued", "through") \/ Throttle!Moves(w, "leaving", "through")
          /\ Throttle!LeavesQueue(w)
          /\ Abandoned' = Abandoned
      BY <1>f, <2>1, <2>2, <2>4, GrantSeen
    <3>2. Throttle!SendHome(w)
      BY <1>f, <2>2, <2>3, <3>1, BudgetStays DEF Throttle!SendHome
    <3> QED
      BY <2>3, <3>2 DEF Throttle!TNext
  <2>5. CASE ~Unserved(w)
    <3>1. /\ w \in Abandoned /\ Abandoned' = Abandoned \ {w}
          /\ UNCHANGED <<[u \in Threads |-> CallStage(u)],
                         [u \in Threads |-> CallRule(u)],
                         [u \in Threads |-> CallBefore(u)]>>
      BY <1>f, <2>1, <2>2, <2>5, GrantSeen
    <3>2. Throttle!StrikeOff(w)
      BY <1>f, <2>2, <2>3, <3>1, BudgetStays DEF Throttle!StrikeOff
    <3> QED
      BY <3>1, <3>2 DEF Throttle!TNext
  <2> QED
    BY <2>4, <2>5
<1>2. CASE ReleaseFifo(k)
  <2>1. /\ todo = <<>> /\ kpc' = [kpc EXCEPT ![k] = IF k = Rmmod THEN "deltimer" ELSE "idle"]
        /\ UNCHANGED <<fifo_waiters, cur>> /\ Elsewhere
    BY <1>2 DEF ReleaseFifo, GotoK, Elsewhere, call, queue, registry
  <2>2. kpc[k] \in WalkingPcs
    BY <1>f DEF WalkingPcs
  <2>3. \A u : ~BeingUnlinked(u)
    BY <1>f, <2>2, WhoUnlinks DEF OrderInv, WaitersInv
  <2>4. ToSet(fifo_waiters) = {}
    <3>1. ToSet(todo) = {}
      BY <2>1, EmptySeq DEF ToSet
    <3> QED
      BY <2>2, <2>3, <3>1 DEF OrderInv, WaitersInv, WalkIsAhead
  <2>5. Throttle!Waiting = {}
    <3>1. \A u \in Threads : ~Unserved(u)
      BY <2>4 DEF OrderInv, WaitersInv, QueueIsWaiters
    <3> QED
      BY <3>1, UnservedStage DEF Throttle!Waiting
  <2>6. Abandoned = {} /\ Abandoned' = {}
    BY <2>1, <2>4 DEF Abandoned
  <2>7. Flushers' = Flushers \ {k}
    <3>1. kpc'[k] \in {"deltimer", "idle"} /\ \A j \in Walkers : j # k => kpc'[j] = kpc[j]
      BY <1>t, <2>1 DEF Types
    <3> QED
      BY <3>1 DEF Flushers
  <2>8. Throttle!Flushed(k)
    BY <1>f, <2>1, <2>5, <2>6, <2>7, CallersStay DEF Throttle!Flushed
  <2> QED
    BY <1>f, <2>8 DEF Throttle!TNext
<1> QED
  BY <1>1, <1>2

\* What the timer and the flushes have in common, and the end of rmmod.
LEMMA WalkerStepRefines ==
    ASSUME RulesAlone, OrderInv, NEW k \in Walkers, WaitStep(k) \/ WalkStep(k)
    PROVE  [Throttle!TNext]_(Throttle!tvars)
<1>t. Types /\ QueueIsWaiters /\ fifo_waiters \in Seq(Threads) /\ IsInjective(fifo_waiters)
  BY DEF OrderInv, WaitersInv, QInv, QueueIsWaiters, Types
<1> USE DEF call, gauges, queue, walk, registry, AtK, GotoK
<1>n. ASSUME Elsewhere, SwitchStays, WalksStay PROVE [Throttle!TNext]_(Throttle!tvars)
  BY <1>n, <1>t, NothingSeen
<1>1. CASE AcquireFifo(k)
  <2>1. Elsewhere /\ SwitchStays /\ WalksStay
    BY <1>1, <1>t DEF AcquireFifo, Elsewhere, SwitchStays, WalksStay, WalkingPcs, Types
  <2> QED
    BY <1>n, <2>1
<1>2. CASE k = Timer /\ (TimerFire \/ TimerVisit)
  BY <1>2, TimerStepRefines
<1>3. CASE FlushVisit(k) \/ (k # Timer /\ ReleaseFifo(k))
  <2>1. k \in Walkers \ {Timer}
    BY <1>3 DEF FlushVisit
  <2> QED
    BY <1>3, <2>1, FlushStepRefines
<1>4. CASE k = Timer /\ ReleaseFifo(k)
  <2>1. Elsewhere /\ SwitchStays /\ WalksStay
    BY <1>4, <1>t, WalkersKnown DEF ReleaseFifo, Elsewhere, SwitchStays, WalksStay, Types
  <2> QED
    BY <1>n, <2>1
<1>5. CASE UnlinkGranted(k)
  <2>1. /\ kpc[k] = "unlink" /\ kpc' = [kpc EXCEPT ![k] = "wake"] /\ Unlink(cur)
        /\ UNCHANGED <<pc, granted, sysno, cur, rules_list, current_calls,
                       global_monitor_state>>
    BY <1>5 DEF UnlinkGranted
  <2>2. ~Unserved(cur) /\ \A u \in Threads : ahead'[u] = ahead[u] \ {cur}
    BY <1>t, <2>1 DEF QueueIsWaiters, Unlink
  <2>3. \A u \in Threads : /\ CallStage(u)' = CallStage(u)
                           /\ CallRule(u)' = CallRule(u)
    BY <2>1 DEF CallStage, CallRule, Unserved, Waits
  <2>4. \A u : Unserved(u)' <=> Unserved(u)
    BY <2>1 DEF Unserved, Waits
  <2>5. \A u \in Threads : CallBefore(u)' = CallBefore(u)
    BY <2>2, <2>4 DEF CallBefore
  <2>6. SwitchStays
    BY <1>t, <2>1 DEF SwitchStays, WalkingPcs, Types
  <2>7. kpc[k] \in WalkingPcs
    BY <2>1 DEF WalkingPcs
  <2>8. /\ \A j \in Walkers : kpc[j] \in WalkingPcs => j = k
        /\ \A u : BeingUnlinked(u) <=> cur = u
    BY <2>1, <2>7, WhoUnlinks DEF OrderInv, WaitersInv
  <2>9. \A u : ~BeingUnlinked(u)'
    BY <1>t, <2>1, <2>8 DEF BeingUnlinked, WalkingPcs, Types
  <2>10. ToSet(fifo_waiters') = ToSet(fifo_waiters) \ {cur}
    BY <1>t, <2>1, UnlinkInjective
  <2>11. Abandoned' = Abandoned
    BY <2>4, <2>8, <2>9, <2>10 DEF Abandoned
  <2> QED
    BY <2>1, <2>3, <2>5, <2>6, <2>11, FlushersStay, BudgetStays DEF Throttle!tvars
<1>6. CASE WakeGranted(k)
  <2>1. /\ UNCHANGED <<granted, sysno, rules_list, current_calls, ahead, fifo_waiters>>
        /\ \A u \in Threads : pc'[u] = pc[u] \/ (pc[u] = "asleep" /\ pc'[u] = "waiting")
        /\ kpc[k] = "wake" /\ kpc' = [kpc EXCEPT ![k] = "walk"]
    BY <1>6, <1>t DEF WakeGranted, Types
  <2>2. \A u \in Threads : CallStage(u)' = CallStage(u)
    BY <2>1 DEF CallStage, Unserved, Waits
  <2>3. \A u \in Threads : CallRule(u)' = CallRule(u)
    BY <2>1, <2>2 DEF CallRule
  <2>4. \A u \in Threads : Unserved(u)' <=> Unserved(u)
    BY <2>2, UnservedStage
  <2>5. SwitchStays
    BY <1>6, <1>t, <2>1 DEF WakeGranted, SwitchStays, WalkingPcs, Types
  <2>6. kpc[k] \in WalkingPcs
    BY <2>1 DEF WalkingPcs
  <2>7. \A j \in Walkers : kpc[j] # "unlink" /\ kpc'[j] # "unlink"
    <3>1. \A j \in Walkers : kpc[j] \in WalkingPcs => j = k
      BY <2>6, WhoUnlinks DEF OrderInv, WaitersInv
    <3> QED
      BY <1>t, <2>1, <3>1 DEF WalkingPcs, Types
  <2>8. Abandoned' = Abandoned
    <3>1. \A u \in ToSet(fifo_waiters) : u \in Threads
      BY <1>t, ToSetType
    <3> QED
      BY <2>1, <2>4, <2>7, <3>1 DEF Abandoned, BeingUnlinked
  <2> QED
    BY <1>t, <2>1, <2>2, <2>3, <2>4, <2>5, <2>8, FlushersStay, QueueStays, BudgetStays
    DEF Throttle!tvars
<1>7. CASE k = Rmmod /\ (DelTimerSync \/ CleanupInterceptor \/ WaitForZeroWrappers)
  <2>1. Elsewhere /\ SwitchStays /\ WalksStay
    BY <1>7, <1>t DEF DelTimerSync, CleanupInterceptor, WaitForZeroWrappers, Elsewhere,
      SwitchStays, WalksStay, WalkingPcs, Types
  <2> QED
    BY <1>n, <2>1
<1>8. CASE k = Rmmod /\ CleanupRegistry
  <2>1. /\ UNCHANGED <<pc, granted, sysno, ahead, current_calls>>
        /\ SwitchStays /\ WalksStay
        /\ \A u \in Threads : ~UsesRegistry(u)
    BY <1>8, <1>t
    DEF CleanupRegistry, SwitchStays, WalksStay, WalkingPcs, Types, OrderInv, IInv, Shutdown
  <2>2. \A u \in Threads : /\ CallStage(u)' = CallStage(u)
                           /\ CallStage(u) \in {"outside", "through"}
                           /\ CallBefore(u)' = CallBefore(u)
                           /\ Unserved(u)' <=> Unserved(u)
    BY <1>t, <2>1
    DEF CallStage, CallBefore, Unserved, Waits, UsesRegistry, OutsidePcs, Types, ThreadPcs
  <2>3. \A u \in Threads : CallRule(u)' = CallRule(u)
    BY <2>2, CallRuleIs
  <2> QED
    BY <1>t, <2>1, <2>2, <2>3, FlushersStay, AbsentStay, BudgetStays DEF Throttle!tvars
<1> QED
  BY <1>1, <1>2, <1>3, <1>4, <1>5, <1>6, <1>7, <1>8 DEF WaitStep, WalkStep

\* Whoever switches the monitor off has a flush to do.
LEMMA SwitchRefines ==
    ASSUME OrderInv, NEW k \in Admins \cup {Rmmod}, NEW on \in BOOLEAN,
           kpc[k] = "idle", GotoK(k, AfterToggle(on)), global_monitor_state' = on,
           Elsewhere, UNCHANGED <<fifo_waiters, cur>>
    PROVE  [Throttle!TNext]_(Throttle!tvars)
<1>t. Types /\ k \in Walkers \ {Timer}
  BY WalkersKnown DEF OrderInv, WaitersInv, QInv
<1>1. kpc'[k] = AfterToggle(on) /\ \A j \in Walkers : j # k => kpc'[j] = kpc[j]
  BY <1>t DEF GotoK, Types
<1>2. WalksStay
  BY <1>1 DEF WalksStay, AfterToggle
<1>3. Abandoned' = Abandoned
  BY <1>t, <1>2, CallersStay, AbsentStay
<1>4. CASE on
  <2>1. Flushers' = Flushers
    BY <1>1, <1>4 DEF Flushers, AfterToggle
  <2>2. Throttle!SwitchOn
    BY <1>3, <1>4, <2>1, CallersStay DEF Throttle!SwitchOn
  <2> QED
    BY <2>2 DEF Throttle!TNext
<1>5. CASE ~on
  <2>1. Flushers' = Flushers \cup {k}
    BY <1>t, <1>1, <1>5 DEF Flushers, AfterToggle
  <2>2. Throttle!SwitchOff(k)
    BY <1>3, <1>5, <2>1, CallersStay DEF Throttle!SwitchOff
  <2> QED
    BY <2>2 DEF Throttle!TNext
<1> QED
  BY <1>4, <1>5

LEMMA StepRefines ==
    ASSUME RulesAlone
    PROVE  OrderInv /\ [Next]_vars => [Throttle!TNext]_(Throttle!tvars)
<1> SUFFICES ASSUME OrderInv, [Next]_vars
             PROVE  [Throttle!TNext]_(Throttle!tvars)
  OBVIOUS
<1>t. Types
  BY DEF OrderInv, WaitersInv, QInv
<1> USE DEF call, gauges, queue, walk, registry
<1>1. ASSUME NEW t \in Threads,
             \/ \E n \in Syscalls : Dispatch(t, n)
             \/ ThreadStep(t) \/ QueueStep(t) \/ Interrupt(t)
      PROVE  [Throttle!TNext]_(Throttle!tvars)
  BY <1>1, ThreadStepRefines, QueueStepRefines
<1>2. ASSUME NEW k \in Walkers, WaitStep(k) \/ WalkStep(k)
      PROVE  [Throttle!TNext]_(Throttle!tvars)
  BY <1>2, WalkerStepRefines
<1>3. ASSUME NEW a \in Admins, AdminStep(a) PROVE [Throttle!TNext]_(Throttle!tvars)
  <2>1. PICK on \in BOOLEAN : Toggle(a, on)
    BY <1>3, OnlyToggles
  <2> QED
    BY <2>1, SwitchRefines DEF Toggle, MayServe, AtK, Elsewhere
<1>4. CASE StopPolicyEngine
  <2>1. /\ kpc[Rmmod] = "idle" /\ GotoK(Rmmod, AfterToggle(FALSE))
        /\ global_monitor_state' = FALSE /\ Elsewhere /\ UNCHANGED <<fifo_waiters, cur>>
    BY <1>4 DEF StopPolicyEngine, AtK, AfterToggle, Elsewhere
  <2> QED
    BY <2>1, SwitchRefines
<1>5. CASE TouchStale \/ UNCHANGED vars
  <2>1. Elsewhere /\ SwitchStays /\ WalksStay
    BY <1>5 DEF TouchStale, vars, walk, Elsewhere, SwitchStays, WalksStay
  <2> QED
    BY <1>t, <2>1, NothingSeen
<1>6. CASE Halted
  BY <1>5, <1>6 DEF Halted
<1> QED
  BY <1>1, <1>2, <1>3, <1>4, <1>5, <1>6 DEF Next

LEMMA InitRefines ==
    ASSUME RulesAlone
    PROVE  Init => Throttle!TInit
<1> SUFFICES ASSUME Init PROVE Throttle!TInit
  OBVIOUS
<1>1. \A t \in Threads : /\ CallStage(t) = "outside"
                         /\ CallRule(t) = NoRule
                         /\ CallBefore(t) = {}
  BY DEF Init, CallStage, CallRule, CallBefore, Unserved, Waits
<1>2. \A r \in RuleIds : Spent(r) = 0
  BY RegistryAssumption DEF Init, Spent, RulesAlone
<1>3. Abandoned = {} /\ Flushers = {}
  BY EmptySeq DEF Init, Abandoned, Flushers, ToSet
<1> QED
  BY <1>1, <1>2, <1>3 DEF Init, Throttle!TInit

\* While the rules are left alone the engine does nothing that ThrottleSpec does not
\* allow, whatever signals come, administrators switch and rmmod unloads, for any threads,
\* rules and limits: no caller is refused with budget left, each rule's waiters are served
\* first come first served, none gets through without budget except who gives up or is
\* sent home by a switch-off, and no switch-off ends before the queue is empty.
THEOREM Implements == ASSUME RulesAlone PROVE Spec => ImplementsThrottle
<1>1. Init => OrderInv /\ Throttle!TInit
  BY OrderInit, InitRefines
<1>2. OrderInv /\ [Next]_vars => OrderInv'
  BY OrderStep
<1>3. OrderInv /\ [Next]_vars => [Throttle!TNext]_(Throttle!tvars)
  BY StepRefines
<1>4. Spec => Throttle!TInit /\ [][Throttle!TNext]_(Throttle!tvars)
  BY <1>1, <1>2, <1>3, PTL DEF Spec
<1> QED
  BY <1>4 DEF ImplementsThrottle, Throttle!TSpec
=============================================================================
