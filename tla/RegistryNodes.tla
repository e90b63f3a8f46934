---------------------------- MODULE RegistryNodes ----------------------------
(***************************************************************************)
(* The list of kmod/registry_data.c node by node: kmalloc, list_add_tail,  *)
(* traversals that load one pointer at a time, list_del, the grace period  *)
(* and kfree, in the two builds of the module: "rcu", where is_throttled() *)
(* and the timer read without a lock, and "spinlock" (USE_SPINLOCK), where *)
(* every traversal holds registry_lock. The timer's callback runs in       *)
(* softirq context: the process it interrupts stands still until it ends.  *)
(*                                                                         *)
(* Of a rule only what a search compares is kept, as one key. What the     *)
(* traversals count and record is in RegistryRules and RuleStats.          *)
(***************************************************************************)
EXTENDS Integers, SequencesExt

CONSTANTS
    Threads,    \* processes that search the list: callers, and ioctl's readers
    Admins,     \* processes inside add_rule() and remove_rule()
    Timer,      \* the epoch timer's softirq
    NoOne,      \* registry_lock is free; nobody is interrupted
    Nodes,      \* what kmalloc() can return
    Anchor,     \* the list head, where a traversal begins and ends
    Keys,       \* what rules are set on
    Wanted,     \* what searches look for
    Every,      \* wanted by a traversal that visits all nodes
    Free,       \* what a node holds that is free memory
    Builds      \* the builds to be looked at

Processes == Threads \cup Admins
Readers == Processes \cup {Timer}

ASSUME NodesAssumption ==
    /\ Threads \cap Admins = {}
    /\ Timer \notin Processes
    /\ NoOne \notin Readers
    /\ Anchor \notin Nodes
    /\ Wanted \subseteq Keys
    /\ Every \notin Keys /\ Free \notin Keys \cup {Every}
    /\ Builds \subseteq {"rcu", "spinlock"}

VARIABLES
    build,          \* fixed at compile time
    key,            \* what each node's rule is set on, or Free
    rules_list,     \* the nodes linked, in order
    next,           \* the forward pointer an unlinked node keeps
    registry_lock,
    pc,             \* where each reader is
    at,             \* its cursor: a node, or Anchor
    want,           \* what it looks for
    interrupted,    \* the process the timer's softirq has interrupted
    pending,        \* readers each synchronize_rcu() still waits for
    seen,           \* history: nodes linked at some time during a traversal
    answers,        \* history: what it would have found at some time, at once
    visited,        \* history: nodes it has examined
    due             \* history: nodes linked ever since it began, not examined yet

list == <<key, rules_list, next>>
readers == <<pc, at, want>>
history == <<seen, answers, visited, due>>
vars == <<build, list, registry_lock, readers, interrupted, pending, history>>

Listed == ToSet(rules_list)

\* A traversal is under way.
Traversing(r) == pc[r] \in {"load", "examine", "unlock"}

\* ... between rcu_read_lock() and rcu_read_unlock().
RcuReader(r) == Traversing(r) /\ registry_lock # r

\* The i-th node is the first on k.
IsFirst(nodes, keys, k, i) ==
    /\ keys[nodes[i]] = k
    /\ \A j \in 1 .. i - 1 : keys[nodes[j]] # k

\* What a search for k that took no time would find.
Found(nodes, keys, k) ==
    IF \E i \in DOMAIN nodes : IsFirst(nodes, keys, k, i)
    THEN nodes[CHOOSE i \in DOMAIN nodes : IsFirst(nodes, keys, k, i)]
    ELSE Anchor

\* The place of a linked node; the head's is 0.
Place(n) == IF n = Anchor THEN 0 ELSE CHOOSE i \in DOMAIN rules_list : rules_list[i] = n

\* Where the forward pointer of a linked node, or of the head, leads.
Successor(n) == IF Place(n) = Len(rules_list) THEN Anchor ELSE rules_list[Place(n) + 1]

Forward(n) == IF n \in Listed \cup {Anchor} THEN Successor(n) ELSE next[n]

Init ==
    /\ build \in Builds
    /\ key = [n \in Nodes |-> Free]
    /\ rules_list = <<>>
    /\ next = [n \in Nodes |-> Anchor]
    /\ registry_lock = NoOne
    /\ pc = [r \in Readers |-> "idle"]
    /\ at = [r \in Readers |-> Anchor]
    /\ want = [r \in Readers |-> Every]
    /\ interrupted = NoOne
    /\ pending = [a \in Admins |-> {}]
    /\ seen = [r \in Readers |-> {}]
    /\ answers = [r \in Readers |-> {}]
    /\ visited = [r \in Readers |-> {}]
    /\ due = [r \in Readers |-> {}]

\* A process does not run while the timer runs on top of it.
At(r, label) == pc[r] = label /\ interrupted # r
Goto(r, label) == pc' = [pc EXCEPT ![r] = label]
-----------------------------------------------------------------------------
(* Traversals.                                                             *)

\* Where is_throttled(), reset_all_counters() and debug_print_rules() begin.
ReadSide == IF build = "spinlock" THEN "lock" ELSE "enter"

\* is_throttled() looks for a key. So do update_peak_delay(), update_thread_stats(),
\* get_rule_stats() and reset_rule_stats(), which take the lock in both builds; so does
\* get_active_rules(), which finds nothing to stop at.
Search(t, k) ==
    /\ At(t, "idle")
    /\ Goto(t, ReadSide) \/ Goto(t, "lock")
    /\ want' = [want EXCEPT ![t] = k]
    /\ UNCHANGED <<build, list, registry_lock, at, interrupted, pending, history>>

\* The callback resets every counter, then looks for the rule of each waiter. One
\* interrupt stands for one of its traversals.
TimerFire(p, k) ==
    /\ At(Timer, "idle")
    /\ Goto(Timer, ReadSide)
    /\ want' = [want EXCEPT ![Timer] = k]
    /\ interrupted' = p
    /\ UNCHANGED <<build, list, registry_lock, at, pending, history>>

Begin(r) ==
    /\ Goto(r, "load")
    /\ seen' = [seen EXCEPT ![r] = Listed]
    /\ answers' = [answers EXCEPT ![r] = {Found(rules_list, key, want[r])}]
    /\ visited' = [visited EXCEPT ![r] = {}]
    /\ due' = [due EXCEPT ![r] = Listed]

EnterRcu(r) ==
    /\ At(r, "enter")
    /\ Begin(r)
    /\ UNCHANGED <<build, list, registry_lock, at, want, interrupted, pending>>

EnterLocked(r) ==
    /\ At(r, "lock")
    /\ registry_lock = NoOne
    /\ registry_lock' = r
    /\ Begin(r)
    /\ UNCHANGED <<build, list, at, want, interrupted, pending>>

Load(r) ==
    /\ At(r, "load")
    /\ at' = [at EXCEPT ![r] = Forward(at[r])]
    /\ Goto(r, IF Forward(at[r]) = Anchor THEN "unlock" ELSE "examine")
    /\ UNCHANGED <<build, list, registry_lock, want, interrupted, pending, history>>

\* The fields are compared, the counters changed: the search stops at a match.
Examine(r) ==
    /\ At(r, "examine")
    /\ Goto(r, IF key[at[r]] = want[r] THEN "unlock" ELSE "load")
    /\ visited' = [visited EXCEPT ![r] = @ \cup {at[r]}]
    /\ due' = [due EXCEPT ![r] = @ \ {at[r]}]
    /\ UNCHANGED <<build, list, registry_lock, at, want, interrupted, pending, seen, answers>>

Leave(r) ==
    /\ At(r, "unlock")
    /\ Goto(r, "idle")
    /\ registry_lock' = IF registry_lock = r THEN NoOne ELSE registry_lock
    /\ pending' = [a \in Admins |-> pending[a] \ {r}]
    /\ interrupted' = IF r = Timer THEN NoOne ELSE interrupted
    /\ at' = [at EXCEPT ![r] = Anchor]
    /\ want' = [want EXCEPT ![r] = Every]
    /\ seen' = [seen EXCEPT ![r] = {}]
    /\ answers' = [answers EXCEPT ![r] = {}]
    /\ visited' = [visited EXCEPT ![r] = {}]
    /\ due' = [due EXCEPT ![r] = {}]
    /\ UNCHANGED <<build, list>>
-----------------------------------------------------------------------------
(* add_rule() and remove_rule().                                           *)

\* Whoever is traversing may from now on meet the new list.
Witness(nodes) ==
    /\ seen' = [r \in Readers |-> IF Traversing(r) THEN seen[r] \cup ToSet(nodes) ELSE {}]
    /\ answers' = [r \in Readers |->
            IF Traversing(r) THEN answers[r] \cup {Found(nodes, key, want[r])} ELSE {}]
    /\ due' = [r \in Readers |-> due[r] \cap ToSet(nodes)]
    /\ UNCHANGED visited

\* The node is filled before the lock is taken. kmalloc() may fail: nothing happens.
Allocate(a, n, k) ==
    /\ At(a, "idle")
    /\ key[n] = Free
    /\ key' = [key EXCEPT ![n] = k]
    /\ at' = [at EXCEPT ![a] = n]
    /\ Goto(a, "addlock")
    /\ UNCHANGED <<build, rules_list, next, registry_lock, want, interrupted, pending, history>>

Want(a, k) ==
    /\ At(a, "idle")
    /\ want' = [want EXCEPT ![a] = k]
    /\ Goto(a, "dellock")
    /\ UNCHANGED <<build, list, registry_lock, at, interrupted, pending, history>>

LockToWrite(a) ==
    /\ pc[a] \in {"addlock", "dellock"} /\ interrupted # a
    /\ registry_lock = NoOne
    /\ registry_lock' = a
    /\ Goto(a, IF pc[a] = "addlock" THEN "publish" ELSE "unlink")
    /\ UNCHANGED <<build, list, at, want, interrupted, pending, history>>

\* list_add_tail_rcu(): one store makes the node visible. The caller prints the
\* rules afterwards.
Publish(a) ==
    /\ At(a, "publish")
    /\ rules_list' = Append(rules_list, at[a])
    /\ Witness(rules_list')
    /\ registry_lock' = NoOne
    /\ at' = [at EXCEPT ![a] = Anchor]
    /\ Goto(a, ReadSide)
    /\ UNCHANGED <<build, key, next, want, interrupted, pending>>

\* faulty: the node forgets where it led; list_del_init(): it leads to itself
Forgotten(n) == Anchor
SelfLinked(n) == n
\* list_del_rcu() leaves the forward pointer for those who stand on the node.
Kept(n) == Successor(n)

StillLinked(n) == rules_list            \* faulty: no list_del()
Without(n) == RemoveAt(rules_list, Place(n))

AfterUnlink == IF build = "rcu" THEN "sync" ELSE "kfree"

Unlink(a) ==
    /\ At(a, "unlink")
    /\ registry_lock' = NoOne
    /\ want' = [want EXCEPT ![a] = Every]
    /\ LET n == Found(rules_list, key, want[a])
       IN  IF n = Anchor
           THEN /\ Goto(a, "idle")          \* -ENOENT
                /\ UNCHANGED <<rules_list, next, at, history>>
           ELSE /\ rules_list' = Without(n)
                /\ next' = [next EXCEPT ![n] = Kept(n)]
                /\ at' = [at EXCEPT ![a] = n]
                /\ Witness(rules_list')
                /\ Goto(a, AfterUnlink)
    /\ UNCHANGED <<build, key, interrupted, pending>>

\* The hook has been released; synchronize_rcu() waits for those reading now.
Synchronize(a) ==
    /\ At(a, "sync")
    /\ pending' = [pending EXCEPT ![a] = {r \in Readers : RcuReader(r)}]
    /\ Goto(a, "grace")
    /\ UNCHANGED <<build, list, registry_lock, at, want, interrupted, history>>

NoGrace(a) == TRUE                      \* faulty: the node is freed at once
GraceOver(a) == pending[a] = {}

GracePeriodEnds(a) ==
    /\ At(a, "grace")
    /\ GraceOver(a)
    /\ Goto(a, "kfree")
    /\ UNCHANGED <<build, list, registry_lock, at, want, interrupted, pending, history>>

Kfree(a) ==
    /\ At(a, "kfree")
    /\ key' = [key EXCEPT ![at[a]] = Free]
    /\ next' = [next EXCEPT ![at[a]] = Anchor]
    /\ at' = [at EXCEPT ![a] = Anchor]
    /\ Goto(a, "idle")
    /\ UNCHANGED <<build, rules_list, registry_lock, want, interrupted, pending, history>>
-----------------------------------------------------------------------------
\* The timer spins, on the CPU of the process that holds the lock: neither goes on.
SelfDeadlock ==
    /\ pc[Timer] = "lock"
    /\ registry_lock = interrupted /\ interrupted # NoOne

SpinForEver == SelfDeadlock /\ UNCHANGED vars

ReadStep(r) == EnterRcu(r) \/ EnterLocked(r) \/ Load(r) \/ Examine(r) \/ Leave(r)

WriteStep(a) ==
    \/ \E n \in Nodes, k \in Keys : Allocate(a, n, k)
    \/ \E k \in Keys : Want(a, k)
    \/ LockToWrite(a) \/ Publish(a) \/ Unlink(a)
    \/ Synchronize(a) \/ GracePeriodEnds(a) \/ Kfree(a)

Next ==
    \/ \E r \in Readers : ReadStep(r)
    \/ \E a \in Admins : WriteStep(a)
    \/ \E t \in Threads, k \in Wanted : Search(t, k)
    \/ \E p \in Processes \cup {NoOne}, k \in Wanted \cup {Every} : TimerFire(p, k)
    \/ SpinForEver

Spec == Init /\ [][Next]_vars
-----------------------------------------------------------------------------
(* Properties.                                                             *)

ReaderPcs == {"idle", "enter", "lock", "load", "examine", "unlock"}
WriterPcs == {"addlock", "publish", "dellock", "unlink", "sync", "grace", "kfree"}

\* Type correctness; no node is linked twice.
TypeOK ==
    /\ build \in Builds
    /\ key \in [Nodes -> Keys \cup {Free}]
    /\ rules_list \in Seq(Nodes) /\ IsInjective(rules_list)
    /\ next \in [Nodes -> Nodes \cup {Anchor}]
    /\ registry_lock \in Readers \cup {NoOne}
    /\ pc \in [Readers -> ReaderPcs \cup WriterPcs]
    /\ at \in [Readers -> Nodes \cup {Anchor}]
    /\ want \in [Readers -> Keys \cup {Every}]
    /\ interrupted \in Processes \cup {NoOne}
    /\ pending \in [Admins -> SUBSET Readers]
    /\ seen \in [Readers -> SUBSET Nodes]
    /\ answers \in [Readers -> SUBSET (Nodes \cup {Anchor})]
    /\ visited \in [Readers -> SUBSET Nodes] /\ due \in [Readers -> SUBSET Nodes]

\* Unlinked by an administrator who has not freed it yet.
Removed == {at[a] : a \in {b \in Admins : pc[b] \in {"sync", "grace", "kfree"}}}

\* registry_data.c:125, "Ora è sicuro deallocare la memoria". In neither build does a
\* traversal stand on a node that has been freed, whether or not it was handed out again.
NoUseAfterFree ==
    \A r \in Readers :
        Traversing(r) /\ at[r] # Anchor => at[r] \in Listed \cup Removed

\* What the other modules take a traversal for: one step. Whatever is linked and
\* unlinked meanwhile, it ends with what an immediate search would have found at
\* some moment of it: no rule that stays listed is missed, none is counted that was not
\* the first to match.
TraversalIsAtomic ==
    \A r \in Readers : pc[r] = "unlock" => at[r] \in answers[r]

\* list_for_each_entry_rcu() has no bound of its own. It ends because no traversal comes
\* back to a node it has visited, though it stands on nodes that are taken out and
\* others, or the same ones, are put in: synchronize_rcu() waits for no reader that goes
\* round, and the timer keeps no processor.
VisitsOnce ==
    \A r \in Readers : pc[r] = "examine" => at[r] \notin visited[r]

\* registry_data.c:215, :238: a traversal that stops at nothing has, at its end, visited
\* every node that was linked all the time. So the timer resets the counter of every
\* rule that stays, whoever removes the rule it stands on.
NothingMissed ==
    \A r \in Readers : pc[r] = "unlock" /\ want[r] = Every => due[r] = {}
=============================================================================
