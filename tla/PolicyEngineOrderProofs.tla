----------------------- MODULE PolicyEngineOrderProofs -----------------------
(***************************************************************************)
(* Proofs about the queue and its order, whatever signals, administrators, *)
(* flushes and rmmod do: which nodes are in the queue, what a walk has     *)
(* still to visit, and that only a switch-off makes a thread leave its     *)
(* node behind. While the rules are left alone, the timer serves the       *)
(* waiters of each rule first come first served.                           *)
(***************************************************************************)
EXTENDS PolicyEngineRefinement, PolicyEngineProofs

(* The nodes of the queue.                                                 *)

\* Every waiter without a token is in the queue, once. A node in the queue is one of
\* these, or being unlinked, or its thread has gone.
QueueIsWaiters ==
    /\ IsInjective(fifo_waiters)
    /\ \A t \in Threads : Unserved(t) => t \in ToSet(fifo_waiters)
    /\ \A t \in ToSet(fifo_waiters) : Waits(t) => ~granted[t] \/ BeingUnlinked(t)
    /\ \A t \in Threads : pc[t] \in {"stats", "enqueue"} => ~granted[t]
    /\ \A k \in Walkers : kpc[k] = "unlink" => cur \in Threads /\ ~Unserved(cur)

\* A walk visits each node at most once, and none that left the queue; a flush leaves
\* none behind.
WalkIsAhead ==
    \A k \in Walkers : kpc[k] \in WalkingPcs =>
        /\ IsInjective(todo)
        /\ ToSet(todo) \subseteq ToSet(fifo_waiters)
        /\ kpc[k] = "unlink" => cur \notin ToSet(todo)
        /\ k # Timer =>
            \A t \in ToSet(fifo_waiters) : t \in ToSet(todo) \/ BeingUnlinked(t)

\* What is in the queue is inductive only with what the walk has still to visit, and
\* with the tokens: a waiter it grants must be one that can no longer withdraw.
WaitersInv == QInv /\ QueueIsWaiters /\ WalkIsAhead

LEMMA WalkersKnown ==
    /\ Timer \in Walkers /\ Rmmod \in Walkers /\ Timer # Rmmod
    /\ \A a \in Admins : a \in Walkers /\ a # Timer /\ a # Rmmod
    /\ \A k \in Walkers : k = Timer \/ k \in Admins \cup {Rmmod}
    /\ NoOne \notin Walkers /\ NoOne \notin Threads
BY EngineAssumption DEF Walkers

\* While one walker walks, it is the one that unlinks.
LEMMA WhoUnlinks ==
    ASSUME QInv, NEW k \in Walkers, kpc[k] \in WalkingPcs
    PROVE  /\ \A j \in Walkers : kpc[j] \in WalkingPcs => j = k
           /\ \A t : BeingUnlinked(t) <=> kpc[k] = "unlink" /\ cur = t
<1>1. \A j \in Walkers : kpc[j] \in WalkingPcs => j = k
  BY DEF QInv, FifoLockHeld
<1> QED
  BY <1>1 DEF BeingUnlinked, WalkingPcs

LEMMA NobodyUnlinks ==
    ASSUME QInv, fifo_lock = NoOne
    PROVE  (\A k \in Walkers : kpc[k] \notin WalkingPcs) /\ (\A t : ~BeingUnlinked(t))
<1>1. \A k \in Walkers : kpc[k] \notin WalkingPcs
  BY WalkersKnown DEF QInv, FifoLockHeld
<1> QED
  BY <1>1 DEF BeingUnlinked, WalkingPcs

LEMMA UnlinkInjective ==
    ASSUME Types, IsInjective(fifo_waiters), NEW t, Unlink(t)
    PROVE  /\ IsInjective(fifo_waiters')
           /\ ToSet(fifo_waiters') = ToSet(fifo_waiters) \ {t}
           /\ \A m, n : Before(fifo_waiters', m, n) => Before(fifo_waiters, m, n)
<1>1. PICK i \in 1 .. Len(fifo_waiters) :
        fifo_waiters[i] = t /\ fifo_waiters' = RemoveAt(fifo_waiters, i)
  BY DEF Unlink
<1> QED
  BY <1>1, RemoveAtList DEF Types

\* A thread whose last node is still in the queue does not get to queue another one:
\* it would build it on top of the old one.
LEMMA EnqueueFresh ==
    ASSUME Types, NEW t \in Threads, Enqueue(t)
    PROVE  t \notin ToSet(fifo_waiters)
<1> SUFFICES ASSUME t \in ToSet(fifo_waiters) PROVE FALSE
  OBVIOUS
<1>1. pc[t] = "enqueue" /\ fifo_lock = NoOne /\ \A u \in ThreadTouches(t) : Intact(u)
  BY DEF Enqueue, At
<1>2. fifo_waiters # <<>>
  BY EmptySeq DEF ToSet
<1>3. t \in ThreadTouches(t)
  BY <1>1, <1>2 DEF ThreadTouches
<1> QED
  BY <1>1, <1>3 DEF Intact, Live

LEMMA WaitersInit == Init => WaitersInv
<1> SUFFICES ASSUME Init PROVE WaitersInv
  OBVIOUS
<1>1. ToSet(fifo_waiters) = {} /\ IsInjective(fifo_waiters)
  BY EmptySeq DEF Init, ToSet, IsInjective
<1>2. QueueIsWaiters
  BY <1>1 DEF Init, QueueIsWaiters, Unserved, Waits
<1> QED
  BY <1>2, QueueInit DEF Init, WaitersInv, WalkIsAhead, WalkingPcs

\* Steps that leave the queue and the walk alone and neither make nor serve a waiter.
LEMMA WaitersKept ==
    ASSUME WaitersInv, QInv', UNCHANGED <<fifo_waiters, cur, todo>>,
           \A k \in Walkers : kpc'[k] = kpc[k] \/ {kpc[k], kpc'[k]} \cap WalkingPcs = {},
           \A u \in Threads : /\ Waits(u)' => Waits(u) /\ granted'[u] = granted[u]
                              /\ pc'[u] \in {"stats", "enqueue"} => ~granted'[u]
    PROVE  WaitersInv'
<1>t. \A t \in ToSet(fifo_waiters) : t \in Threads
  BY ToSetType DEF WaitersInv, QInv, Types
<1>1. \A t : BeingUnlinked(t)' <=> BeingUnlinked(t)
  BY DEF BeingUnlinked, WalkingPcs
<1>2. \A t \in Threads : Unserved(t)' => Unserved(t)
  BY DEF Unserved
<1>3. \A k \in Walkers : kpc'[k] = "unlink" => kpc[k] = "unlink"
  BY DEF WalkingPcs
<1>4. QueueIsWaiters'
  BY <1>t, <1>1, <1>2, <1>3 DEF WaitersInv, QueueIsWaiters
<1>5. WalkIsAhead'
  BY <1>1 DEF WaitersInv, WalkIsAhead, WalkingPcs
<1> QED
  BY <1>4, <1>5 DEF WaitersInv

LEMMA ThreadStepQueues ==
    ASSUME WaitersInv, QInv', NEW t \in Threads,
           (\E n \in Syscalls : Dispatch(t, n)) \/ ThreadStep(t) \/ Interrupt(t)
    PROVE  WaitersInv'
<1>t. Types
  BY DEF WaitersInv, QInv
<1>q. \A u \in Threads : pc[u] \in {"stats", "enqueue"} => ~granted[u]
  BY DEF WaitersInv, QueueIsWaiters
<1> USE DEF call, gauges, queue, walk, registry, At, Goto
<1>f. ASSUME UNCHANGED <<fifo_waiters, cur, todo>>,
             \A k \in Walkers : kpc'[k] = kpc[k] \/ {kpc[k], kpc'[k]} \cap WalkingPcs = {},
             pc' = [pc EXCEPT ![t] = pc'[t]],
             granted' = [granted EXCEPT ![t] = granted'[t]],
             Waits(t)' => Waits(t) /\ granted'[t] = granted[t],
             pc'[t] \in {"stats", "enqueue"} => ~granted'[t]
      PROVE  WaitersInv'
  <2>1. \A u \in Threads : /\ Waits(u)' => Waits(u) /\ granted'[u] = granted[u]
                           /\ pc'[u] \in {"stats", "enqueue"} => ~granted'[u]
    BY <1>f, <1>t, <1>q DEF Types, Waits
  <2> QED
    BY <1>f, <2>1, WaitersKept
<1>0. ASSUME NEW n \in Syscalls, Dispatch(t, n) PROVE WaitersInv'
  BY <1>0, <1>t, <1>f DEF Dispatch, Types, Waits
<1>1. CASE EnterPolicy(t)   BY <1>1, <1>t, <1>f DEF EnterPolicy, Types, Waits
<1>2. CASE ReadMonitor(t)   BY <1>2, <1>t, <1>f DEF ReadMonitor, Types, Waits
<1>3. CASE CountCall(t)     BY <1>3, <1>t, <1>f DEF CountCall, Types, Waits
<1>4. CASE BlockThread(t)   BY <1>4, <1>t, <1>f DEF BlockThread, Types, Waits
<1>5. CASE RecordBlocked(t) BY <1>5, <1>t, <1>q, <1>f DEF RecordBlocked, Types, Waits
<1>6. CASE Sleep(t)         BY <1>6, <1>t, <1>f DEF Sleep, Types, Waits
<1>7. CASE Proceed(t)       BY <1>7, <1>t, <1>f DEF Proceed, Types, Waits
<1>8. CASE Uncount(t)       BY <1>8, <1>t, <1>f DEF Uncount, AfterUncount, Types, Waits
<1>9. CASE RecordDelay(t)   BY <1>9, <1>t, <1>f DEF RecordDelay, Types, Waits
<1>10. CASE LeavePolicy(t)  BY <1>10, <1>t, <1>f DEF LeavePolicy, AfterLeave, Types, Waits
<1>11. CASE NotifyUnload(t)
  <2>1. \A k \in Walkers : kpc'[k] = kpc[k] \/ {kpc[k], kpc'[k]} \cap WalkingPcs = {}
    BY <1>11, <1>t DEF NotifyUnload, Types, WalkingPcs
  <2> QED
    BY <1>11, <1>t, <2>1, <1>f DEF NotifyUnload, Types, Waits
<1>12. CASE CallOriginal(t) BY <1>12, <1>t, <1>f DEF CallOriginal, Types, Waits
<1>13. CASE Interrupt(t)    BY <1>13, <1>t, <1>f DEF Interrupt, Types, Waits
<1> QED
  BY <1>0, <1>1, <1>2, <1>3, <1>4, <1>5, <1>6, <1>7, <1>8, <1>9, <1>10, <1>11, <1>12, <1>13
  DEF ThreadStep

LEMMA QueueStepQueues ==
    ASSUME WaitersInv, QInv', NEW t \in Threads, QueueStep(t)
    PROVE  WaitersInv'
<1>t. Types
  BY DEF WaitersInv, QInv
<1>q. QueueIsWaiters /\ fifo_waiters \in Seq(Threads) /\ IsInjective(fifo_waiters)
  BY <1>t DEF WaitersInv, QueueIsWaiters, Types
<1> USE DEF call, gauges, walk, registry, At, Goto
<1>1. /\ fifo_lock = NoOne
      /\ UNCHANGED <<granted, kpc, cur, todo>>
  BY DEF QueueStep, Enqueue, AbandonQueue
<1>2. (\A k \in Walkers : kpc[k] \notin WalkingPcs) /\ (\A u : ~BeingUnlinked(u))
  BY <1>1, NobodyUnlinks DEF WaitersInv
<1>3. WalkIsAhead'
  BY <1>1, <1>2 DEF WalkIsAhead
<1>4. \A k \in Walkers : kpc'[k] # "unlink"
  BY <1>1, <1>2 DEF WalkingPcs
<1>5. \A u \in ToSet(fifo_waiters) : u \in Threads /\ (Waits(u) => ~granted[u])
  BY <1>q, <1>2, ToSetType DEF QueueIsWaiters
<1>6. CASE Enqueue(t)
  <2>1. fifo_waiters' = Append(fifo_waiters, t) /\ pc[t] = "enqueue"
    BY <1>6 DEF Enqueue, Queued
  <2>2. t \notin ToSet(fifo_waiters)
    BY <1>t, <1>6, EnqueueFresh
  <2>3. /\ IsInjective(fifo_waiters')
        /\ ToSet(fifo_waiters') = ToSet(fifo_waiters) \cup {t}
    BY <1>q, <2>1, <2>2, AppendList
  <2>4. \A u \in Threads : u # t => pc'[u] = pc[u]
    BY <1>6, <1>t DEF Enqueue, Types
  <2>5. pc'[t] = "waiting" /\ ~granted[t]
    BY <1>6, <1>t, <1>q, <2>1 DEF Enqueue, Types, QueueIsWaiters
  <2>6. \A u \in Threads : /\ Unserved(u)' <=> u = t \/ Unserved(u)
                           /\ Waits(u)' <=> u = t \/ Waits(u)
    BY <1>1, <2>4, <2>5 DEF Unserved, Waits
  <2>7. \A u \in ToSet(fifo_waiters') : Waits(u)' => ~granted'[u]
    BY <1>1, <1>5, <2>3, <2>5, <2>6
  <2>8. QueueIsWaiters'
    BY <1>1, <1>4, <1>q, <2>3, <2>4, <2>5, <2>6, <2>7 DEF QueueIsWaiters
  <2> QED
    BY <1>3, <2>8 DEF WaitersInv
<1>7. CASE AbandonQueue(t)
  <2>1. pc[t] = "interrupted" /\ pc'[t] = "cancelled"
        /\ \A u \in Threads : u # t => pc'[u] = pc[u]
    BY <1>7, <1>t DEF AbandonQueue, Types
  <2>2. \A u \in Threads : /\ Unserved(u)' <=> u # t /\ Unserved(u)
                           /\ Waits(u)' => Waits(u)
    BY <1>1, <2>1 DEF Unserved, Waits
  <2>3. /\ IsInjective(fifo_waiters')
        /\ ToSet(fifo_waiters') = ToSet(fifo_waiters) \ {t}
    <3>1. CASE granted[t]
      <4>1. t \notin ToSet(fifo_waiters)
        BY <1>5, <2>1, <3>1 DEF Waits
      <4> QED
        BY <1>7, <1>q, <3>1, <4>1 DEF AbandonQueue
    <3>2. CASE ~granted[t]
      BY <1>7, <1>t, <1>q, <3>2, UnlinkInjective DEF AbandonQueue, Withdraw
    <3> QED
      BY <3>1, <3>2
  <2>4. \A u \in ToSet(fifo_waiters') : Waits(u)' => ~granted'[u]
    BY <1>1, <1>5, <2>2, <2>3
  <2>5. QueueIsWaiters'
    BY <1>1, <1>4, <1>q, <2>1, <2>2, <2>3, <2>4 DEF QueueIsWaiters
  <2> QED
    BY <1>3, <2>5 DEF WaitersInv
<1> QED
  BY <1>6, <1>7 DEF QueueStep

\* A walker grants the next node it has to visit, and is about to unlink it.
LEMMA GrantQueues ==
    ASSUME WaitersInv, QInv', NEW k \in Walkers, kpc[k] = "walk", GotoK(k, "unlink"),
           todo # <<>>, Intact(Head(todo)), Grant(Head(todo)), todo' = Tail(todo),
           UNCHANGED <<pc, fifo_waiters>>
    PROVE  WaitersInv'
<1>t. Types /\ todo \in Seq(Threads) /\ fifo_waiters \in Seq(Threads) /\ QueueIsWaiters
  BY DEF WaitersInv, QInv, Types
<1>0. PICK w : w = Head(todo)
  OBVIOUS
<1>1. /\ IsInjective(todo) /\ ToSet(todo) \subseteq ToSet(fifo_waiters)
      /\ k # Timer => \A t \in ToSet(fifo_waiters) : t \in ToSet(todo) \/ BeingUnlinked(t)
  BY DEF WaitersInv, WalkIsAhead, WalkingPcs
<1>2. /\ w \in Threads /\ w \in ToSet(fifo_waiters)
      /\ IsInjective(todo') /\ w \notin ToSet(todo')
      /\ ToSet(todo) = {w} \cup ToSet(todo')
      /\ ToSet(todo') \subseteq ToSet(fifo_waiters')
  BY <1>t, <1>0, <1>1, TailList
<1>3. /\ \A t : ~BeingUnlinked(t)
      /\ \A j \in Walkers : kpc[j] \in WalkingPcs => j = k
  <2>1. kpc[k] \in WalkingPcs
    BY DEF WalkingPcs
  <2> QED
    BY <2>1, WhoUnlinks DEF WaitersInv
<1>4. cur' = w /\ granted'[w] /\ \A u \in Threads : u # w => granted'[u] = granted[u]
  BY <1>t, <1>0, <1>2 DEF Grant, Types
<1>5. kpc'[k] = "unlink" /\ \A j \in Walkers : kpc'[j] \in WalkingPcs => j = k
  BY <1>t, <1>3 DEF GotoK, WalkingPcs, Types
<1>6. BeingUnlinked(w)'
  BY <1>4, <1>5 DEF BeingUnlinked
<1>7. \A u \in Threads : /\ Waits(u)' <=> Waits(u)
                         /\ Unserved(u)' <=> u # w /\ Unserved(u)
  BY <1>4 DEF Waits, Unserved
<1>8. pc[w] \notin {"stats", "enqueue"}
  BY <1>0 DEF Intact, Live
<1>9. \A t \in ToSet(fifo_waiters') : Waits(t)' => ~granted'[t] \/ BeingUnlinked(t)'
  BY <1>t, <1>3, <1>4, <1>6, <1>7, ToSetType DEF QueueIsWaiters
<1>10. \A j \in Walkers : kpc'[j] = "unlink" => cur' \in Threads /\ ~Unserved(cur)'
  BY <1>2, <1>4 DEF Unserved
<1>11. QueueIsWaiters'
  BY <1>t, <1>4, <1>7, <1>8, <1>9, <1>10 DEF QueueIsWaiters
<1>12. WalkIsAhead'
  BY <1>1, <1>2, <1>3, <1>4, <1>5, <1>6 DEF WalkIsAhead
<1> QED
  BY <1>11, <1>12 DEF WaitersInv

LEMMA WalkerStepQueues ==
    ASSUME WaitersInv, QInv', NEW k \in Walkers, WaitStep(k) \/ WalkStep(k)
    PROVE  WaitersInv'
<1>t. Types /\ todo \in Seq(Threads)
  BY DEF WaitersInv, QInv, Types
<1>q. QueueIsWaiters /\ fifo_waiters \in Seq(Threads) /\ IsInjective(fifo_waiters)
  BY <1>t DEF WaitersInv, QueueIsWaiters, Types
<1> USE DEF call, gauges, queue, walk, registry, AtK, GotoK
<1>u. ASSUME UNCHANGED <<granted, fifo_waiters>>,
             \A j \in Walkers : kpc[j] # "unlink" /\ kpc'[j] # "unlink",
             \A u \in Threads : /\ Waits(u)' <=> Waits(u)
                                /\ pc'[u] \in {"stats", "enqueue"} => pc'[u] = pc[u]
      PROVE  QueueIsWaiters'
  BY <1>u, <1>q, ToSetType DEF QueueIsWaiters, Unserved, BeingUnlinked
<1>f. ASSUME UNCHANGED <<pc, granted, fifo_waiters, cur, todo>>,
             \A j \in Walkers : kpc'[j] = kpc[j] \/ {kpc[j], kpc'[j]} \cap WalkingPcs = {}
      PROVE  WaitersInv'
  BY <1>f, <1>q, WaitersKept DEF Waits, QueueIsWaiters
<1>1. CASE AcquireFifo(k)
  <2>1. /\ fifo_lock = NoOne /\ todo' = fifo_waiters
        /\ kpc' = [kpc EXCEPT ![k] = "walk"]
        /\ UNCHANGED <<pc, granted, fifo_waiters, cur>>
    BY <1>1 DEF AcquireFifo
  <2>2. \A j \in Walkers : kpc[j] \notin WalkingPcs
    BY <2>1, NobodyUnlinks DEF WaitersInv
  <2>3. \A j \in Walkers : /\ kpc'[j] \in WalkingPcs => j = k
                           /\ kpc[j] # "unlink" /\ kpc'[j] # "unlink"
    BY <1>t, <2>1, <2>2 DEF WalkingPcs, Types
  <2>4. WalkIsAhead'
    BY <1>q, <2>1, <2>3 DEF WalkIsAhead
  <2> QED
    BY <1>u, <2>1, <2>3, <2>4 DEF WaitersInv, Waits
<1>2. CASE FlushVisit(k)
  BY <1>2, GrantQueues DEF FlushVisit
<1>3. CASE TimerVisit
  <2> DEFINE w == Head(todo)
             r == Selected(rules_list, Task[w], sysno[w])
  <2>1. /\ kpc[Timer] = "walk" /\ todo # <<>> /\ todo' = Tail(todo)
        /\ UNCHANGED <<pc, fifo_waiters>> /\ Intact(w)
    BY <1>3 DEF TimerVisit
  <2>4. CASE OverLimit(r, current_calls)
    <3>1. UNCHANGED <<kpc, granted, cur>>
      BY <1>3, <2>4 DEF TimerVisit
    <3>2. kpc[Timer] \in WalkingPcs
      BY <2>1 DEF WalkingPcs
    <3>3. \A j \in Walkers : kpc[j] \in WalkingPcs => j = Timer
      BY <3>2, WalkersKnown, WhoUnlinks DEF WaitersInv
    <3>4. \A j \in Walkers : kpc[j] # "unlink"
      BY <2>1, <3>3 DEF WalkingPcs
    <3>5. IsInjective(todo') /\ ToSet(todo') \subseteq ToSet(fifo_waiters')
      BY <1>t, <2>1, <3>2, WalkersKnown, TailList DEF WaitersInv, WalkIsAhead
    <3>6. WalkIsAhead'
      BY <3>1, <3>3, <3>4, <3>5 DEF WalkIsAhead
    <3>7. QueueIsWaiters'
      BY <1>u, <2>1, <3>1, <3>4 DEF Waits
    <3> QED
      BY <3>6, <3>7 DEF WaitersInv
  <2>5. CASE ~OverLimit(r, current_calls)
    <3>1. GotoK(Timer, "unlink") /\ Grant(w)
      BY <1>3, <2>5 DEF TimerVisit
    <3> QED
      BY <2>1, <3>1, WalkersKnown, GrantQueues
  <2> QED
    BY <2>4, <2>5
<1>4. CASE UnlinkGranted(k)
  <2>1. /\ kpc[k] = "unlink" /\ kpc' = [kpc EXCEPT ![k] = "wake"] /\ Unlink(cur)
        /\ UNCHANGED <<pc, granted, cur, todo>>
    BY <1>4 DEF UnlinkGranted
  <2>2. IsInjective(fifo_waiters') /\ ToSet(fifo_waiters') = ToSet(fifo_waiters) \ {cur}
    BY <1>t, <1>q, <2>1, UnlinkInjective
  <2>3. kpc[k] \in WalkingPcs
    BY <2>1 DEF WalkingPcs
  <2>4. /\ \A j \in Walkers : kpc[j] \in WalkingPcs => j = k
        /\ \A t : BeingUnlinked(t) <=> cur = t
    BY <2>1, <2>3, WhoUnlinks DEF WaitersInv
  <2>5. \A j \in Walkers : kpc'[j] # "unlink" /\ (kpc'[j] \in WalkingPcs => j = k)
    BY <1>t, <2>1, <2>4 DEF WalkingPcs, Types
  <2>6. ~Unserved(cur)
    BY <1>q, <2>1 DEF QueueIsWaiters
  <2>7. \A u : (Unserved(u)' <=> Unserved(u)) /\ (Waits(u)' <=> Waits(u))
    BY <2>1 DEF Unserved, Waits
  <2>8. \A t \in ToSet(fifo_waiters') : Waits(t)' => ~granted'[t]
    BY <1>q, <2>1, <2>2, <2>4, <2>7 DEF QueueIsWaiters
  <2>9. QueueIsWaiters'
    BY <1>q, <2>1, <2>2, <2>5, <2>6, <2>7, <2>8 DEF QueueIsWaiters
  <2>10. WalkIsAhead'
    BY <2>1, <2>2, <2>3, <2>4, <2>5 DEF WaitersInv, WalkIsAhead
  <2> QED
    BY <2>9, <2>10 DEF WaitersInv
<1>5. ASSUME kpc[k] \in {"walk", "wake"}, kpc'[k] \notin {"unlink"},
             kpc' = [kpc EXCEPT ![k] = kpc'[k]],
             UNCHANGED <<granted, fifo_waiters, todo>>,
             \A u \in Threads : /\ Waits(u)' <=> Waits(u)
                                /\ pc'[u] \in {"stats", "enqueue"} => pc'[u] = pc[u]
      PROVE  WaitersInv'
  <2>1. kpc[k] \in WalkingPcs
    BY <1>5 DEF WalkingPcs
  <2>2. /\ \A j \in Walkers : kpc[j] \in WalkingPcs => j = k
        /\ \A t : ~BeingUnlinked(t)
    BY <1>5, <2>1, WhoUnlinks DEF WaitersInv
  <2>3. \A j \in Walkers : /\ kpc[j] # "unlink" /\ kpc'[j] # "unlink"
                           /\ kpc'[j] \in WalkingPcs => j = k
    BY <1>5, <1>t, <2>2 DEF WalkingPcs, Types
  <2>4. WalkIsAhead'
    BY <1>5, <2>1, <2>2, <2>3 DEF WaitersInv, WalkIsAhead
  <2>5. QueueIsWaiters'
    BY <1>5, <1>u, <2>3
  <2> QED
    BY <2>4, <2>5 DEF WaitersInv
<1>6. CASE WakeGranted(k)
  <2>1. \A u \in Threads : /\ Waits(u)' <=> Waits(u)
                           /\ pc'[u] \in {"stats", "enqueue"} => pc'[u] = pc[u]
    BY <1>6, <1>t DEF WakeGranted, Types, Waits
  <2> QED
    BY <1>6, <1>t, <1>5, <2>1 DEF WakeGranted, Types
<1>7. CASE ReleaseFifo(k)
  BY <1>7, <1>t, <1>5 DEF ReleaseFifo, Types, Waits
<1> USE DEF WalkingPcs
<1>8. CASE k = Timer /\ TimerFire           BY <1>8, <1>t, <1>f DEF TimerFire, Types
<1>9. CASE k = Rmmod /\ DelTimerSync        BY <1>9, <1>t, <1>f DEF DelTimerSync, Types
<1>10. CASE k = Rmmod /\ CleanupInterceptor BY <1>10, <1>t, <1>f DEF CleanupInterceptor, Types
<1>11. CASE k = Rmmod /\ WaitForZeroWrappers
  BY <1>11, <1>t, <1>f DEF WaitForZeroWrappers, Types
<1>12. CASE k = Rmmod /\ CleanupRegistry    BY <1>12, <1>t, <1>f DEF CleanupRegistry, Types
<1> QED
  BY <1>1, <1>2, <1>3, <1>4, <1>6, <1>7, <1>8, <1>9, <1>10, <1>11, <1>12 DEF WaitStep, WalkStep

LEMMA WaitersStep == WaitersInv /\ [Next]_vars => WaitersInv'
<1> SUFFICES ASSUME WaitersInv, [Next]_vars PROVE WaitersInv'
  OBVIOUS
<1>q. QInv'
  BY QueueInvStep DEF WaitersInv
<1>t. Types
  BY DEF WaitersInv, QInv
<1>1. ASSUME NEW t \in Threads,
             \/ \E n \in Syscalls : Dispatch(t, n)
             \/ ThreadStep(t) \/ QueueStep(t) \/ Interrupt(t)
      PROVE  WaitersInv'
  BY <1>1, <1>q, ThreadStepQueues, QueueStepQueues
<1>2. ASSUME NEW k \in Walkers, WaitStep(k) \/ WalkStep(k) PROVE WaitersInv'
  BY <1>2, <1>q, WalkerStepQueues
<1>3. ASSUME UNCHANGED <<pc, granted, fifo_waiters, cur, todo>>,
             \A j \in Walkers : kpc'[j] = kpc[j] \/ {kpc[j], kpc'[j]} \cap WalkingPcs = {}
      PROVE  WaitersInv'
  BY <1>3, <1>q, WaitersKept DEF Waits, WaitersInv, QueueIsWaiters
<1> USE DEF call, gauges, queue, walk, registry, AtK, GotoK, WalkingPcs
<1>4. ASSUME NEW a \in Admins, AdminStep(a) PROVE WaitersInv'
  <2>1. ASSUME NEW on \in BOOLEAN, Toggle(a, on) PROVE WaitersInv'
    BY <1>3, <1>t, <2>1 DEF Toggle, MayServe, AfterToggle, Types
  <2> QED
    BY <1>3, <1>4, <2>1 DEF AdminStep, AddRule, RemoveRule, ResetStats
<1>5. CASE StopPolicyEngine
  BY <1>3, <1>5, <1>t DEF StopPolicyEngine, Types
<1>6. CASE TouchStale
  BY <1>3, <1>6 DEF TouchStale
<1>7. CASE UNCHANGED vars
  BY <1>3, <1>7 DEF vars
<1>8. CASE Halted
  BY <1>7, <1>8 DEF Halted
<1> QED
  BY <1>1, <1>2, <1>4, <1>5, <1>6, <1>7, <1>8 DEF Next

\* Whatever administrators, signals and rmmod do, a thread leaves the frame its queued
\* node stands in only when it finds the monitor off, or when the walk that has granted
\* it is about to take the node out.
THEOREM NobodyDangles == Spec => NoDanglingWaiter
<1> DEFINE Leaves(t) == Waits(t) /\ ~Waits(t)' /\ t \in ToSet(fifo_waiters)'
           Justified == \A t \in Threads :
                Leaves(t) => ~global_monitor_state \/ BeingUnlinked(t)
<1>1. WaitersInv /\ [Next]_vars => Justified
  <2> SUFFICES ASSUME WaitersInv, [Next]_vars, NEW t \in Threads, Leaves(t),
                      global_monitor_state
               PROVE  BeingUnlinked(t)
    OBVIOUS
  <2>t. Types /\ QueueIsWaiters /\ fifo_waiters \in Seq(Threads)
    BY DEF WaitersInv, QInv, Types
  <2> USE DEF call, gauges, queue, walk, registry, At, Goto, AtK, GotoK
  <2>g. ASSUME granted[t], t \in ToSet(fifo_waiters) PROVE BeingUnlinked(t)
    BY <2>g, <2>t DEF QueueIsWaiters
  <2>1. ASSUME NEW u \in Threads,
               \/ \E n \in Syscalls : Dispatch(u, n)
               \/ ThreadStep(u) \/ QueueStep(u) \/ Interrupt(u)
        PROVE  BeingUnlinked(t)
    <3>1. pc'[t] # pc[t]
      BY DEF Waits
    <3>2. u = t
      BY <2>1, <2>t, <3>1 DEF Dispatch, ThreadStep, QueueStep, Interrupt, EnterPolicy,
        ReadMonitor, CountCall, BlockThread, RecordBlocked, Sleep, Proceed, Uncount,
        RecordDelay, LeavePolicy, NotifyUnload, CallOriginal, Enqueue, AbandonQueue, Types
    <3>3. Proceed(t) \/ Interrupt(t) \/ AbandonQueue(t)
      BY <2>1, <2>t, <3>2 DEF Dispatch, ThreadStep, QueueStep, EnterPolicy,
        ReadMonitor, CountCall, BlockThread, RecordBlocked, Sleep, Uncount,
        RecordDelay, LeavePolicy, NotifyUnload, CallOriginal, Enqueue, Types, Waits
    <3>4. CASE Proceed(t)
      BY <3>4, <2>g DEF Proceed, MayGo
    <3>5. CASE Interrupt(t)
      BY <3>5, <2>t, <2>g DEF Interrupt, MayGo, Types, Waits
    <3>6. CASE AbandonQueue(t)
      <4>1. CASE granted[t]
        BY <3>6, <4>1, <2>g DEF AbandonQueue
      <4>2. CASE ~granted[t]
        <5>1. ToSet(fifo_waiters') = ToSet(fifo_waiters) \ {t}
          BY <2>t, <3>6, <4>2, UnlinkInjective DEF AbandonQueue, Withdraw, QueueIsWaiters
        <5> QED
          BY <5>1
      <4> QED
        BY <4>1, <4>2
    <3> QED
      BY <3>3, <3>4, <3>5, <3>6
  <2>2. ASSUME NEW k \in Walkers, WaitStep(k) \/ WalkStep(k) PROVE FALSE
    <3>1. CASE WakeGranted(k)
      BY <2>t, <3>1 DEF WakeGranted, Types, Waits
    <3>2. CASE ~WakeGranted(k)
      BY <2>2, <3>2 DEF WaitStep, WalkStep, AcquireFifo, DelTimerSync, FlushVisit,
        UnlinkGranted, ReleaseFifo, TimerFire, TimerVisit, CleanupInterceptor,
        WaitForZeroWrappers, CleanupRegistry, Waits
    <3> QED
      BY <3>1, <3>2
  <2>3. UNCHANGED pc => FALSE
    BY DEF Waits
  <2>4. ASSUME NEW a \in Admins, AdminStep(a) PROVE FALSE
    BY <2>3, <2>4 DEF AdminStep, Toggle, AddRule, RemoveRule, ResetStats
  <2>5. CASE StopPolicyEngine \/ TouchStale \/ UNCHANGED vars \/ Halted
    BY <2>3, <2>5 DEF StopPolicyEngine, TouchStale, vars, Halted
  <2> QED
    BY <2>1, <2>2, <2>4, <2>5 DEF Next
<1>2. Spec => [][Justified]_vars
  BY <1>1, WaitersStep, WaitersInit, PTL DEF Spec
<1> QED
  BY <1>2 DEF NoDanglingWaiter
-----------------------------------------------------------------------------
(* The order of service. Signals come, administrators switch the monitor    *)
(* and rmmod unloads the module, but nobody changes or resets a rule.      *)

RulesAlone ==
    /\ {"add", "remove", "reset_stats"} \cap Env = {}
    /\ \A r \in RuleIds : Rule[r].max_calls >= 0

\* The rule a thread's call is counted against.
RuleOf(t) == Selected(rules_list, Task[t], sysno[t])

\* `ahead' knows the order of the queue, and only who is in it.
QueueOrdered ==
    /\ \A t \in ToSet(fifo_waiters) : ahead[t] \subseteq ToSet(fifo_waiters) \ {t}
    /\ \A m, n : Before(fifo_waiters, m, n) => n \notin ahead[m]

\* A walk visits in that order, and whom it left behind in the queue has a rule
\* that is exhausted for the rest of the window.
WalkOrdered ==
    kpc[Timer] \in WalkingPcs =>
        /\ \A m, n : Before(todo, m, n) => n \notin ahead[m]
        /\ \A u \in ToSet(fifo_waiters) :
            u \in ToSet(todo) \/ ~Unserved(u) \/ OverLimit(RuleOf(u), current_calls)

\* Nothing is counted against a rule that is not listed, until the list is freed.
ListedCounted ==
    kpc[Rmmod] = "freed" \/ \A r \in RuleIds \ ToSet(rules_list) : current_calls[r] = 0

OrderInv == IInv /\ WaitersInv /\ QueueOrdered /\ WalkOrdered /\ ListedCounted

\* is_throttled() counts a call against a listed rule or against none.
LEMMA SelectedListed ==
    ASSUME NEW S, NEW list \in Seq(S), NEW task, NEW n
    PROVE  Selected(list, task, n) = NoRule \/ Selected(list, task, n) \in ToSet(list)
<1> DEFINE matching == {i \in DOMAIN list : Matches(Rule[list[i]], task, n)}
<1>1. CASE matching = {}
  BY <1>1 DEF Selected
<1>2. CASE matching # {}
  <2>1. matching \in SUBSET Nat /\ matching \subseteq DOMAIN list
    BY LenProperties
  <2>2. Min(matching) \in DOMAIN list
    <3> HIDE DEF matching
    <3> QED
      BY <1>2, <2>1, LeastIndex
  <2>3. Selected(list, task, n) = list[Min(matching)]
    BY <1>2 DEF Selected
  <2> HIDE DEF matching
  <2> QED
    BY <2>2, <2>3 DEF ToSet
<1> QED
  BY <1>1, <1>2

LEMMA RuleOfCall ==
    ASSUME Types, NEW t
    PROVE  /\ RuleOf(t) \in RuleIds \cup {NoRule}
           /\ RuleOf(t) # NoRule => RuleOf(t) \in ToSet(rules_list)
<1>1. RuleOf(t) = NoRule \/ RuleOf(t) \in ToSet(rules_list)
  BY SelectedListed DEF RuleOf, Types
<1> QED
  BY <1>1, ToSetType DEF Types

\* Within a window an exhausted rule stays exhausted, whichever call is counted.
LEMMA ExhaustedStays ==
    ASSUME Types, NEW r \in RuleIds \cup {NoRule}, NEW s \in RuleIds \cup {NoRule},
           OverLimit(r, current_calls), current_calls' = Counted(s, current_calls)
    PROVE  OverLimit(r, current_calls')
<1>1. r \in RuleIds /\ current_calls[r] \in Nat /\ Rule[r].max_calls \in Int
  BY RegistryAssumption DEF OverLimit, Types
<1>2. current_calls'[r] \in {current_calls[r], current_calls[r] + 1}
  BY <1>1 DEF Counted, Types
<1> QED
  BY <1>1, <1>2 DEF OverLimit

LEMMA BeforeMembers ==
    ASSUME NEW S, NEW s \in Seq(S), NEW m, NEW n, Before(s, m, n)
    PROVE  m \in ToSet(s) /\ n \in ToSet(s) /\ m \in S /\ n \in S
<1>1. m \in ToSet(s) /\ n \in ToSet(s)
  BY LenProperties DEF Before, ToSet
<1> QED
  BY <1>1, ToSetType

LEMMA OrderInit == Init => OrderInv
<1> SUFFICES ASSUME Init PROVE OrderInv
  OBVIOUS
<1>1. ToSet(fifo_waiters) = {} /\ \A m, n : ~Before(fifo_waiters, m, n)
  BY EmptySeq DEF Init, ToSet, Before
<1>2. QueueOrdered /\ WalkOrdered
  BY <1>1, WalkersKnown DEF Init, QueueOrdered, WalkOrdered, WalkingPcs
<1>3. IInv /\ ListedCounted
  BY TypesInit, GaugesInit, ShutdownInit DEF Init, IInv, ListedCounted
<1> QED
  BY <1>2, <1>3, WaitersInit DEF OrderInv

\* A call is counted against a listed rule, or none is counted.
Counts ==
    \E s \in RuleIds \cup {NoRule} :
        /\ s # NoRule => s \in ToSet(rules_list)
        /\ current_calls' = Counted(s, current_calls)

LEMMA NothingCounted ==
    ASSUME UNCHANGED current_calls
    PROVE  Counts
<1>1. current_calls' = Counted(NoRule, current_calls)
  BY DEF Counted
<1> QED
  BY <1>1 DEF Counts

\* Steps that keep the queue and the walk's place in it.
LEMMA OrderKept ==
    ASSUME OrderInv, IInv', WaitersInv', Counts,
           UNCHANGED <<fifo_waiters, ahead, todo, rules_list>>,
           kpc'[Timer] \in WalkingPcs => kpc[Timer] \in WalkingPcs,
           kpc[Rmmod] = "freed" => kpc'[Rmmod] = "freed",
           \A u \in Threads : Unserved(u)' => Unserved(u) /\ sysno'[u] = sysno[u]
    PROVE  OrderInv'
<1>t. Types
  BY DEF OrderInv, WaitersInv, QInv
<1>1. PICK s \in RuleIds \cup {NoRule} :
        /\ s # NoRule => s \in ToSet(rules_list)
        /\ current_calls' = Counted(s, current_calls)
  BY DEF Counts
<1>2. ListedCounted'
  BY <1>1, <1>t DEF OrderInv, ListedCounted, Counted, Types
<1>3. QueueOrdered'
  BY DEF OrderInv, QueueOrdered
<1>4. WalkOrdered'
  <2> SUFFICES ASSUME kpc'[Timer] \in WalkingPcs, NEW u \in ToSet(fifo_waiters'),
                      u \notin ToSet(todo'), Unserved(u)'
               PROVE  OverLimit(RuleOf(u), current_calls)'
    BY DEF OrderInv, WalkOrdered
  <2>1. u \in Threads
    BY <1>t, ToSetType DEF Types
  <2>2. OverLimit(RuleOf(u), current_calls)
    BY <2>1 DEF OrderInv, WalkOrdered
  <2>3. OverLimit(RuleOf(u), current_calls')
    BY <1>t, <1>1, <2>2, RuleOfCall, ExhaustedStays
  <2>4. RuleOf(u)' = RuleOf(u)
    BY <2>1 DEF RuleOf
  <2> QED
    BY <2>3, <2>4
<1> QED
  BY <1>2, <1>3, <1>4 DEF OrderInv

LEMMA ThreadStepOrders ==
    ASSUME OrderInv, IInv', WaitersInv', NEW t \in Threads,
           (\E n \in Syscalls : Dispatch(t, n)) \/ ThreadStep(t) \/ Interrupt(t)
    PROVE  OrderInv'
<1>t. Types
  BY DEF OrderInv, WaitersInv, QInv
<1> USE DEF call, gauges, queue, walk, registry, At, Goto
<1>f. ASSUME UNCHANGED <<fifo_waiters, ahead, todo, rules_list>>, Counts,
             kpc'[Timer] = kpc[Timer],
             kpc[Rmmod] = "freed" => kpc'[Rmmod] = "freed",
             pc' = [pc EXCEPT ![t] = pc'[t]],
             granted' = [granted EXCEPT ![t] = granted'[t]],
             sysno' = [sysno EXCEPT ![t] = sysno'[t]],
             Unserved(t)' => Unserved(t) /\ sysno'[t] = sysno[t]
      PROVE  OrderInv'
  <2>1. \A u \in Threads : Unserved(u)' => Unserved(u) /\ sysno'[u] = sysno[u]
    BY <1>f, <1>t DEF Types, Unserved, Waits
  <2> QED
    BY <1>f, <2>1, OrderKept
<1>c. ASSUME UNCHANGED current_calls PROVE Counts
  BY <1>c, NothingCounted
<1>0. ASSUME NEW n \in Syscalls, Dispatch(t, n) PROVE OrderInv'
  BY <1>0, <1>t, <1>c, <1>f DEF Dispatch, Types, Unserved, Waits
<1>1. CASE EnterPolicy(t)   BY <1>1, <1>t, <1>c, <1>f DEF EnterPolicy, Types, Unserved, Waits
<1>2. CASE ReadMonitor(t)   BY <1>2, <1>t, <1>c, <1>f DEF ReadMonitor, Types, Unserved, Waits
<1>3. CASE CountCall(t)
  <2>1. current_calls' = Counted(RuleOf(t), current_calls)
    BY <1>3 DEF CountCall, RuleOf
  <2>2. Counts
    BY <1>t, <2>1, RuleOfCall DEF Counts
  <2> QED
    BY <1>3, <1>t, <2>2, <1>f DEF CountCall, Types, Unserved, Waits
<1>4. CASE BlockThread(t)   BY <1>4, <1>t, <1>c, <1>f DEF BlockThread, Types, Unserved, Waits
<1>5. CASE RecordBlocked(t) BY <1>5, <1>t, <1>c, <1>f DEF RecordBlocked, Types, Unserved, Waits
<1>6. CASE Sleep(t)         BY <1>6, <1>t, <1>c, <1>f DEF Sleep, Types, Unserved, Waits
<1>7. CASE Proceed(t)       BY <1>7, <1>t, <1>c, <1>f DEF Proceed, Types, Unserved, Waits
<1>8. CASE Uncount(t)       BY <1>8, <1>t, <1>c, <1>f DEF Uncount, AfterUncount, Types, Unserved, Waits
<1>9. CASE RecordDelay(t)   BY <1>9, <1>t, <1>c, <1>f DEF RecordDelay, Types, Unserved, Waits
<1>10. CASE LeavePolicy(t)
  BY <1>10, <1>t, <1>c, <1>f DEF LeavePolicy, AfterLeave, Types, Unserved, Waits
<1>11. CASE NotifyUnload(t)
  <2>1. kpc'[Timer] = kpc[Timer] /\ (kpc[Rmmod] = "freed" => kpc'[Rmmod] = "freed")
    BY <1>11, <1>t, WalkersKnown DEF NotifyUnload, Types
  <2> QED
    BY <1>11, <1>t, <1>c, <2>1, <1>f DEF NotifyUnload, Types, Unserved, Waits
<1>12. CASE CallOriginal(t) BY <1>12, <1>t, <1>c, <1>f DEF CallOriginal, Types, Unserved, Waits
<1>13. CASE Interrupt(t)    BY <1>13, <1>t, <1>c, <1>f DEF Interrupt, Types, Unserved, Waits
<1> QED
  BY <1>0, <1>1, <1>2, <1>3, <1>4, <1>5, <1>6, <1>7, <1>8, <1>9, <1>10, <1>11, <1>12, <1>13
  DEF ThreadStep

\* A waiter that leaves the queue, granted or not, leaves the rest in order.
LEMMA UnlinkOrders ==
    ASSUME OrderInv, NEW t, Unlink(t)
    PROVE  QueueOrdered'
<1>t. Types /\ fifo_waiters \in Seq(Threads) /\ IsInjective(fifo_waiters)
  BY DEF OrderInv, WaitersInv, QInv, QueueIsWaiters, Types
<1>1. /\ ToSet(fifo_waiters') = ToSet(fifo_waiters) \ {t}
      /\ \A m, n : Before(fifo_waiters', m, n) => Before(fifo_waiters, m, n)
  BY <1>t, UnlinkInjective
<1>2. \A u \in Threads : ahead'[u] = ahead[u] \ {t}
  BY DEF Unlink
<1>3. \A u \in ToSet(fifo_waiters) : u \in Threads
  BY <1>t, ToSetType
<1>4. \A m, n : Before(fifo_waiters, m, n) => m \in Threads
  BY <1>t, BeforeMembers
<1>5. \A u \in ToSet(fifo_waiters') : ahead'[u] \subseteq ToSet(fifo_waiters') \ {u}
  BY <1>1, <1>2, <1>3 DEF OrderInv, QueueOrdered
<1>6. \A m, n : Before(fifo_waiters', m, n) => n \notin ahead'[m]
  BY <1>1, <1>2, <1>4 DEF OrderInv, QueueOrdered
<1> QED
  BY <1>5, <1>6 DEF QueueOrdered

LEMMA QueueStepOrders ==
    ASSUME OrderInv, IInv', WaitersInv', NEW t \in Threads, QueueStep(t)
    PROVE  OrderInv'
<1>t. Types /\ fifo_waiters \in Seq(Threads) /\ IsInjective(fifo_waiters)
  BY DEF OrderInv, WaitersInv, QInv, QueueIsWaiters, Types
<1> USE DEF call, gauges, walk, registry, At, Goto
<1>1. fifo_lock = NoOne /\ UNCHANGED <<kpc, rules_list, current_calls>>
  BY DEF QueueStep, Enqueue, AbandonQueue
<1>2. kpc[Timer] \notin WalkingPcs
  BY <1>1, WalkersKnown DEF OrderInv, WaitersInv, QInv, FifoLockHeld
<1>3. WalkOrdered'
  BY <1>1, <1>2 DEF WalkOrdered
<1>4. QueueOrdered'
  <2>1. CASE Enqueue(t)
    <3>1. fifo_waiters' = Append(fifo_waiters, t) /\ pc[t] = "enqueue"
      BY <2>1 DEF Enqueue, Queued
    <3>2. t \notin ToSet(fifo_waiters)
      BY <1>t, <2>1, EnqueueFresh
    <3>3. /\ ToSet(fifo_waiters') = ToSet(fifo_waiters) \cup {t}
          /\ \A m, n : Before(fifo_waiters', m, n) => Before(fifo_waiters, m, n) \/ n = t
      BY <1>t, <3>1, <3>2, AppendList
    <3>4. /\ ahead'[t] = ToSet(fifo_waiters)
          /\ \A u \in Threads : u # t => ahead'[u] = ahead[u]
      BY <1>t, <2>1 DEF Enqueue, Types
    <3>5. \A u \in ToSet(fifo_waiters') : u \in Threads
      BY <1>t, <3>3, ToSetType
    <3>6. \A u \in ToSet(fifo_waiters') : ahead'[u] \subseteq ToSet(fifo_waiters') \ {u}
      BY <3>2, <3>3, <3>4, <3>5 DEF OrderInv, QueueOrdered
    <3>7. ASSUME NEW m, NEW n, Before(fifo_waiters', m, n) PROVE n \notin ahead'[m]
      <4>1. m \in ToSet(fifo_waiters')
        BY <1>t, <3>1, <3>7, AppendProperties, BeforeMembers
      <4>2. CASE n = t
        BY <3>2, <3>3, <3>4, <3>5, <4>1, <4>2 DEF OrderInv, QueueOrdered
      <4>3. CASE n # t
        <5>1. Before(fifo_waiters, m, n)
          BY <3>3, <3>7, <4>3
        <5>2. m \in ToSet(fifo_waiters)
          BY <1>t, <5>1, BeforeMembers
        <5> QED
          BY <3>2, <3>4, <3>5, <4>1, <5>1, <5>2 DEF OrderInv, QueueOrdered
      <4> QED
        BY <4>2, <4>3
    <3> QED
      BY <3>6, <3>7 DEF QueueOrdered
  <2>2. CASE AbandonQueue(t)
    <3>1. CASE granted[t]
      BY <2>2, <3>1 DEF AbandonQueue, OrderInv, QueueOrdered
    <3>2. CASE ~granted[t]
      BY <2>2, <3>2, UnlinkOrders DEF AbandonQueue, Withdraw
    <3> QED
      BY <3>1, <3>2
  <2> QED
    BY <2>1, <2>2 DEF QueueStep
<1> QED
  BY <1>1, <1>3, <1>4 DEF OrderInv, ListedCounted

LEMMA TimerStepOrders ==
    ASSUME OrderInv, IInv', WaitersInv', WaitStep(Timer) \/ WalkStep(Timer)
    PROVE  OrderInv'
<1>t. Types
  BY DEF OrderInv, WaitersInv, QInv
<1>z. /\ todo \in Seq(Threads) /\ fifo_waiters \in Seq(Threads)
      /\ IsInjective(fifo_waiters)
  BY <1>t DEF OrderInv, WaitersInv, QueueIsWaiters, Types
<1> USE DEF call, gauges, queue, walk, registry, AtK, GotoK
<1>r. kpc'[Rmmod] = kpc[Rmmod] /\ UNCHANGED rules_list
  BY <1>t, WalkersKnown DEF WaitStep, WalkStep, AcquireFifo, FlushVisit, UnlinkGranted,
    WakeGranted, ReleaseFifo, TimerFire, TimerVisit, Types
<1>1. CASE AcquireFifo(Timer)
  <2>1. todo' = fifo_waiters
        /\ UNCHANGED <<pc, granted, fifo_waiters, ahead, rules_list, current_calls, sysno>>
    BY <1>1 DEF AcquireFifo
  <2>2. WalkOrdered' /\ QueueOrdered'
    BY <2>1 DEF OrderInv, QueueOrdered, WalkOrdered
  <2> QED
    BY <1>r, <2>1, <2>2 DEF OrderInv, ListedCounted
<1>2. CASE TimerFire
  <2>1. kpc'[Timer] = "lock" /\ UNCHANGED <<fifo_waiters, ahead, rules_list>>
    BY <1>2, <1>t, WalkersKnown DEF TimerFire, Types
  <2>2. ListedCounted'
    BY <1>2, <1>r DEF TimerFire, OrderInv, ListedCounted
  <2>3. WalkOrdered' /\ QueueOrdered'
    BY <2>1 DEF OrderInv, QueueOrdered, WalkOrdered, WalkingPcs
  <2> QED
    BY <2>1, <2>2, <2>3 DEF OrderInv
<1>3. CASE TimerVisit
  <2>0. PICK w : w = Head(todo)
    OBVIOUS
  <2>1. /\ kpc[Timer] = "walk" /\ todo # <<>> /\ todo' = Tail(todo)
        /\ UNCHANGED <<pc, sysno, fifo_waiters, ahead, rules_list>>
        /\ current_calls' = Counted(RuleOf(w), current_calls)
        /\ IF OverLimit(RuleOf(w), current_calls) THEN UNCHANGED granted ELSE Grant(w)
    BY <1>3, <2>0 DEF TimerVisit, RuleOf
  <2>2. /\ w \in Threads /\ ToSet(todo) = {w} \cup ToSet(todo')
        /\ \A m, n : Before(todo', m, n) => Before(todo, m, n)
    BY <1>z, <2>0, <2>1, TailList
  <2>3. ListedCounted'
    BY <1>t, <1>r, <2>1, RuleOfCall DEF OrderInv, ListedCounted, Counted, Types
  <2>4. QueueOrdered'
    BY <2>1 DEF OrderInv, QueueOrdered
  <2>5. \A u \in Threads : Unserved(u)' => Unserved(u)
    BY <1>t, <2>1, <2>2 DEF Unserved, Waits, Grant, Types
  <2>6. Unserved(w)' => OverLimit(RuleOf(w), current_calls)
    BY <1>t, <2>1, <2>2 DEF Unserved, Waits, Grant, Types
  <2>7. WalkOrdered'
    <3>1. \A m, n : Before(todo', m, n) => n \notin ahead'[m]
      BY <2>1, <2>2 DEF OrderInv, WalkOrdered, WalkingPcs
    <3>2. ASSUME NEW u \in ToSet(fifo_waiters), u \notin ToSet(todo'), Unserved(u)'
          PROVE  OverLimit(RuleOf(u), current_calls)'
      <4>0. u \in Threads
        BY <1>z, ToSetType
      <4>1. OverLimit(RuleOf(u), current_calls)
        <5>1. CASE u = w
          BY <2>6, <3>2, <5>1
        <5>2. CASE u # w
          BY <2>1, <2>2, <2>5, <3>2, <4>0, <5>2 DEF OrderInv, WalkOrdered, WalkingPcs
        <5> QED
          BY <5>1, <5>2
      <4>2. OverLimit(RuleOf(u), current_calls')
        BY <1>t, <2>1, <4>1, RuleOfCall, ExhaustedStays
      <4>3. RuleOf(u)' = RuleOf(u)
        BY <2>1 DEF RuleOf
      <4> QED
        BY <4>2, <4>3
    <3> QED
      BY <2>1, <3>1, <3>2 DEF WalkOrdered
  <2> QED
    BY <2>1, <2>3, <2>4, <2>7 DEF OrderInv
<1>4. CASE UnlinkGranted(Timer)
  <2>1. /\ kpc[Timer] = "unlink" /\ Unlink(cur)
        /\ UNCHANGED <<pc, granted, sysno, todo, rules_list, current_calls>>
    BY <1>4 DEF UnlinkGranted
  <2>2. QueueOrdered'
    BY <2>1, UnlinkOrders
  <2>3. ToSet(fifo_waiters') \subseteq ToSet(fifo_waiters)
    BY <1>t, <1>z, <2>1, UnlinkInjective
  <2>4. \A u \in Threads : ahead'[u] \subseteq ahead[u]
    BY <2>1 DEF Unlink
  <2>5. \A m, n : Before(todo, m, n) => m \in Threads
    BY <1>z, BeforeMembers
  <2>6. WalkOrdered'
    BY <2>1, <2>3, <2>4, <2>5 DEF OrderInv, WalkOrdered, WalkingPcs, Unserved, Waits, RuleOf
  <2> QED
    BY <1>r, <2>1, <2>2, <2>6 DEF OrderInv, ListedCounted
<1>5. CASE WakeGranted(Timer)
  <2>1. /\ UNCHANGED <<fifo_waiters, ahead, todo, rules_list, current_calls, sysno>>
        /\ kpc[Timer] \in WalkingPcs
    BY <1>5 DEF WakeGranted, WalkingPcs
  <2>2. \A u \in Threads : Unserved(u)' => Unserved(u)
    BY <1>5, <1>t DEF WakeGranted, Types, Unserved, Waits
  <2> QED
    BY <1>r, <2>1, <2>2, NothingCounted, OrderKept
<1>6. CASE ReleaseFifo(Timer)
  <2>1. /\ UNCHANGED <<pc, granted, fifo_waiters, ahead, todo, rules_list, current_calls, sysno>>
        /\ kpc[Timer] \in WalkingPcs
    BY <1>6 DEF ReleaseFifo, WalkingPcs
  <2>2. \A u \in Threads : Unserved(u)' => Unserved(u)
    BY <2>1 DEF Unserved, Waits
  <2> QED
    BY <1>r, <2>1, <2>2, NothingCounted, OrderKept
<1>7. ~FlushVisit(Timer)
  BY DEF FlushVisit
<1> QED
  BY <1>1, <1>2, <1>3, <1>4, <1>5, <1>6, <1>7, WalkersKnown DEF WaitStep, WalkStep

\* A flush takes nodes out of the queue, and rmmod frees the rules, while the timer is
\* not in its walk.
LEMMA FlushStepOrders ==
    ASSUME OrderInv, IInv', WaitersInv', NEW k \in Walkers \ {Timer},
           WaitStep(k) \/ WalkStep(k)
    PROVE  OrderInv'
<1>t. Types
  BY DEF OrderInv, WaitersInv, QInv
<1> USE DEF call, gauges, queue, walk, registry, AtK, GotoK
<1>1. kpc'[Timer] = kpc[Timer]
  BY <1>t, WalkersKnown DEF WaitStep, WalkStep, AcquireFifo, DelTimerSync, FlushVisit,
    UnlinkGranted, WakeGranted, ReleaseFifo, CleanupInterceptor, WaitForZeroWrappers,
    CleanupRegistry, Types
<1>2. kpc[Rmmod] = "freed" => kpc'[Rmmod] = "freed"
  BY <1>t, WalkersKnown DEF WaitStep, WalkStep, AcquireFifo, DelTimerSync, FlushVisit,
    UnlinkGranted, WakeGranted, ReleaseFifo, CleanupInterceptor, WaitForZeroWrappers,
    CleanupRegistry, Types
<1>w. ASSUME kpc[Timer] \notin WalkingPcs PROVE WalkOrdered'
  BY <1>1, <1>w DEF WalkOrdered
<1>3. ASSUME UNCHANGED <<fifo_waiters, ahead, rules_list, current_calls>>,
             kpc[Timer] \notin WalkingPcs
      PROVE  OrderInv'
  BY <1>2, <1>3, <1>w DEF OrderInv, QueueOrdered, ListedCounted
<1>4. ASSUME kpc[k] \in WalkingPcs PROVE kpc[Timer] \notin WalkingPcs
  BY <1>4, WalkersKnown, WhoUnlinks DEF OrderInv, WaitersInv
<1>5. ASSUME kpc[k] \in {"restore", "waitzero", "cleanup"}, k = Rmmod
      PROVE  kpc[Timer] \notin WalkingPcs
  BY <1>5 DEF OrderInv, IInv, Shutdown, WalkingPcs
<1>6. CASE AcquireFifo(k)
  <2>1. kpc[Timer] \notin WalkingPcs
    BY <1>6, WalkersKnown, NobodyUnlinks DEF AcquireFifo, OrderInv, WaitersInv
  <2> QED
    BY <1>3, <1>6, <2>1 DEF AcquireFifo
<1>7. CASE UnlinkGranted(k)
  <2>1. /\ UNCHANGED <<rules_list, current_calls>> /\ Unlink(cur)
        /\ kpc[Timer] \notin WalkingPcs
    BY <1>4, <1>7 DEF UnlinkGranted, WalkingPcs
  <2>2. QueueOrdered'
    BY <2>1, UnlinkOrders
  <2> QED
    BY <1>2, <1>w, <2>1, <2>2 DEF OrderInv, ListedCounted
<1>8. CASE FlushVisit(k)  BY <1>3, <1>4, <1>8 DEF FlushVisit, WalkingPcs
<1>9. CASE WakeGranted(k) BY <1>3, <1>4, <1>9 DEF WakeGranted, WalkingPcs
<1>10. CASE ReleaseFifo(k) BY <1>3, <1>4, <1>10 DEF ReleaseFifo, WalkingPcs
<1>11. CASE k = Rmmod /\ DelTimerSync
  BY <1>3, <1>11 DEF DelTimerSync, TimerQuiet, WalkingPcs
<1>12. CASE k = Rmmod /\ CleanupInterceptor
  BY <1>3, <1>5, <1>12 DEF CleanupInterceptor
<1>13. CASE k = Rmmod /\ WaitForZeroWrappers
  BY <1>3, <1>5, <1>13 DEF WaitForZeroWrappers
<1>14. CASE k = Rmmod /\ CleanupRegistry
  <2>1. kpc'[Rmmod] = "freed" /\ UNCHANGED <<fifo_waiters, ahead>>
    BY <1>14, <1>t DEF CleanupRegistry, Types
  <2>2. kpc[Timer] \notin WalkingPcs
    BY <1>5, <1>14 DEF CleanupRegistry
  <2> QED
    BY <1>w, <2>1, <2>2 DEF OrderInv, QueueOrdered, ListedCounted
<1> QED
  BY <1>6, <1>7, <1>8, <1>9, <1>10, <1>11, <1>12, <1>13, <1>14 DEF WaitStep, WalkStep

\* What administrators may do is to switch the monitor.
LEMMA OnlyToggles ==
    ASSUME RulesAlone, NEW a \in Admins, AdminStep(a)
    PROVE  \E on \in BOOLEAN : Toggle(a, on)
BY DEF RulesAlone, AdminStep, AddRule, RemoveRule, ResetStats

LEMMA OrderStep ==
    ASSUME RulesAlone
    PROVE  OrderInv /\ [Next]_vars => OrderInv'
<1> SUFFICES ASSUME OrderInv, [Next]_vars PROVE OrderInv'
  OBVIOUS
<1>t. Types
  BY DEF OrderInv, WaitersInv, QInv
<1>w. IInv' /\ WaitersInv'
  BY WaitersStep, TypesStep, GaugesStep, ShutdownStep DEF OrderInv, IInv
<1> USE DEF call, gauges, queue, walk, registry, AtK, GotoK
<1>1. ASSUME NEW t \in Threads,
             \/ \E n \in Syscalls : Dispatch(t, n)
             \/ ThreadStep(t) \/ QueueStep(t) \/ Interrupt(t)
      PROVE  OrderInv'
  BY <1>1, <1>w, ThreadStepOrders, QueueStepOrders
<1>2. ASSUME NEW k \in Walkers, WaitStep(k) \/ WalkStep(k) PROVE OrderInv'
  BY <1>2, <1>w, TimerStepOrders, FlushStepOrders
<1>3. ASSUME UNCHANGED <<pc, granted, fifo_waiters, ahead, todo, rules_list, current_calls,
                         sysno>>,
             kpc'[Timer] = kpc[Timer], kpc[Rmmod] = "freed" => kpc'[Rmmod] = "freed"
      PROVE  OrderInv'
  BY <1>3, <1>w, NothingCounted, OrderKept DEF Unserved, Waits
<1>4. ASSUME NEW a \in Admins, AdminStep(a) PROVE OrderInv'
  <2>1. PICK on \in BOOLEAN : Toggle(a, on)
    BY <1>4, OnlyToggles
  <2> QED
    BY <1>3, <1>t, <2>1, WalkersKnown DEF Toggle, Types
<1>5. CASE StopPolicyEngine
  BY <1>3, <1>5, <1>t, WalkersKnown DEF StopPolicyEngine, Types
<1>6. CASE TouchStale \/ UNCHANGED vars
  BY <1>3, <1>6 DEF TouchStale, vars
<1>7. CASE Halted
  BY <1>6, <1>7 DEF Halted
<1> QED
  BY <1>1, <1>2, <1>4, <1>5, <1>6, <1>7 DEF Next

\* The waiter granted by a step is the first of those of its rule.
LEMMA FirstIsServed ==
    ASSUME OrderInv, TimerVisit, ~OverLimit(RuleOf(Head(todo)), current_calls),
           NEW u \in ahead[Head(todo)] \ {Head(todo)}, Waits(u)
    PROVE  RuleOf(u) # RuleOf(Head(todo))
<1> DEFINE w == Head(todo)
<1>1. kpc[Timer] = "walk" /\ todo # <<>> /\ todo \in Seq(Threads)
  BY DEF TimerVisit, AtK, OrderInv, WaitersInv, QInv, Types
<1>2. /\ w \in ToSet(todo) /\ ToSet(todo) = {w} \cup ToSet(Tail(todo))
      /\ \A n \in ToSet(Tail(todo)) : Before(todo, w, n)
  BY <1>1, TailList
<1>3. w \in ToSet(fifo_waiters)
  BY <1>1, <1>2, WalkersKnown DEF OrderInv, WaitersInv, WalkIsAhead, WalkingPcs
<1>4. u \in ToSet(fifo_waiters)
  BY <1>3 DEF OrderInv, QueueOrdered
<1>5. u \notin ToSet(todo)
  BY <1>1, <1>2 DEF OrderInv, WalkOrdered, WalkingPcs
<1>6. Unserved(u)
  <2>1. kpc[Timer] \in WalkingPcs
    BY <1>1 DEF WalkingPcs
  <2>2. ~BeingUnlinked(u)
    BY <1>1, <2>1, WalkersKnown, WhoUnlinks DEF OrderInv, WaitersInv
  <2> QED
    BY <1>4, <2>2 DEF OrderInv, WaitersInv, QueueIsWaiters, Unserved
<1>7. OverLimit(RuleOf(u), current_calls)
  BY <1>1, <1>4, <1>5, <1>6 DEF OrderInv, WalkOrdered, WalkingPcs
<1> QED
  BY <1>7

\* While the timer holds the lock nobody but its visit gives a token.
LEMMA WhoGrants ==
    ASSUME OrderInv, [Next]_vars, fifo_lock = Timer,
           NEW w \in Threads, ~granted[w], granted'[w]
    PROVE  TimerVisit /\ w = Head(todo) /\ ~OverLimit(RuleOf(w), current_calls)
<1>t. Types
  BY DEF OrderInv, WaitersInv, QInv
<1> USE DEF call, gauges, queue, walk, registry
<1>1. ASSUME NEW t \in Threads,
             \/ \E n \in Syscalls : Dispatch(t, n)
             \/ ThreadStep(t) \/ QueueStep(t) \/ Interrupt(t)
      PROVE  FALSE
  <2>1. UNCHANGED granted \/ granted' = [granted EXCEPT ![t] = FALSE]
    BY <1>1 DEF Dispatch, ThreadStep, QueueStep, Interrupt, EnterPolicy, ReadMonitor,
      CountCall, BlockThread, RecordBlocked, Sleep, Proceed, Uncount, RecordDelay,
      LeavePolicy, NotifyUnload, CallOriginal, Enqueue, AbandonQueue
  <2> QED
    BY <1>t, <2>1 DEF Types
<1>2. ASSUME NEW k \in Walkers, WaitStep(k) \/ WalkStep(k) PROVE TimerVisit
  <2>1. ~FlushVisit(k)
    BY <1>2 DEF FlushVisit, AtK, OrderInv, WaitersInv, QInv, FifoLockHeld, WalkingPcs
  <2> QED
    BY <1>2, <2>1 DEF WaitStep, WalkStep, AcquireFifo, DelTimerSync, UnlinkGranted,
      WakeGranted, ReleaseFifo, TimerFire, CleanupInterceptor, WaitForZeroWrappers,
      CleanupRegistry
<1>3. ~UNCHANGED granted
  OBVIOUS
<1>a. ASSUME NEW a \in Admins, AdminStep(a) PROVE FALSE
  BY <1>3, <1>a DEF AdminStep, Toggle, AddRule, RemoveRule, ResetStats
<1>4. TimerVisit
  BY <1>1, <1>2, <1>3, <1>a DEF Next, StopPolicyEngine, TouchStale, vars, Halted
<1>5. todo \in Seq(Threads) /\ todo # <<>>
  BY <1>4, <1>t DEF TimerVisit, Types
<1>6. Head(todo) \in Threads
  BY <1>5, TailList
<1> QED
  BY <1>4, <1>6, <1>t DEF TimerVisit, Grant, RuleOf, Types

\* Unless the rules are changed or reset, the timer grants the waiters of each rule in the
\* order in which they queued, past those of other rules, over any number of windows, and
\* however many give up, walk out or are flushed meanwhile.
THEOREM ServedFirstCome == ASSUME RulesAlone PROVE Spec => ServedInOrder
<1> DEFINE First ==
        \A w \in Threads :
            fifo_lock = Timer /\ ~granted[w] /\ granted'[w] =>
                \A u \in ahead[w] \ {w} :
                    Waits(u) =>
                        Selected(rules_list, Task[u], sysno[u])
                            # Selected(rules_list, Task[w], sysno[w])
<1>1. OrderInv /\ [Next]_vars => First
  <2> SUFFICES ASSUME OrderInv, [Next]_vars, fifo_lock = Timer,
                      NEW w \in Threads, ~granted[w], granted'[w],
                      NEW u \in ahead[w] \ {w}, Waits(u)
               PROVE  RuleOf(u) # RuleOf(w)
    BY DEF RuleOf
  <2> QED
    BY WhoGrants, FirstIsServed
<1>2. OrderInv /\ [Next]_vars => OrderInv'
  BY OrderStep
<1>3. Spec => [][First]_vars
  BY <1>1, <1>2, OrderInit, PTL DEF Spec
<1> QED
  BY <1>3 DEF ServedInOrder
=============================================================================
