------------------------- MODULE RegistryNodesProofs -------------------------
(***************************************************************************)
(* Proofs about the list of rules node by node, for any number of readers, *)
(* administrators, nodes and keys and for both builds: no use after free,  *)
(* a traversal answers as if it had taken no time, it comes to an end, and *)
(* it misses no node that stays.                                           *)
(***************************************************************************)
EXTENDS RegistryNodes, ListFacts

(* Facts about the list of rules.                                           *)

\* The place of a linked node is where it stands.
LEMMA PlaceFacts ==
    ASSUME rules_list \in Seq(Nodes), NEW n \in Listed
    PROVE  n # Anchor /\ Place(n) \in 1 .. Len(rules_list) /\ rules_list[Place(n)] = n
<1>1. DOMAIN rules_list = 1 .. Len(rules_list)
  BY LenProperties
<1>2. \E i \in DOMAIN rules_list : rules_list[i] = n
  BY DEF Listed, ToSet
<1>3. n \in Nodes
  BY <1>1, <1>2, ElementOfSeq
<1>4. /\ (CHOOSE i \in DOMAIN rules_list : rules_list[i] = n) \in DOMAIN rules_list
      /\ rules_list[CHOOSE i \in DOMAIN rules_list : rules_list[i] = n] = n
  BY <1>2
<1> QED
  BY <1>1, <1>3, <1>4, NodesAssumption DEF Place

\* An immediate search looks at the linked nodes only.
LEMMA FoundByKeys ==
    ASSUME NEW s \in Seq(Nodes), NEW keys, NEW others, NEW k,
           \A n \in ToSet(s) : keys[n] = others[n]
    PROVE  Found(s, keys, k) = Found(s, others, k)
<1>1. Len(s) \in Nat /\ DOMAIN s = 1 .. Len(s)
  BY LenProperties
<1>2. \A i \in 1 .. Len(s) : keys[s[i]] = others[s[i]]
  BY <1>1 DEF ToSet
<1>3. \A i \in 1 .. Len(s) : IsFirst(s, keys, k, i) <=> IsFirst(s, others, k, i)
  <2> SUFFICES ASSUME NEW i \in 1 .. Len(s)
               PROVE  IsFirst(s, keys, k, i) <=> IsFirst(s, others, k, i)
    OBVIOUS
  <2>1. \A j \in 1 .. i - 1 : keys[s[j]] = others[s[j]]
    BY <1>1, <1>2
  <2> QED
    BY <1>2, <2>1 DEF IsFirst
<1>4. CASE \E i \in 1 .. Len(s) : IsFirst(s, keys, k, i)
  <2>1. PICK i \in 1 .. Len(s) : IsFirst(s, keys, k, i)
    BY <1>4
  <2>2. ASSUME NEW j \in 1 .. Len(s), IsFirst(s, keys, k, j) PROVE j = i
    <3>1. ~(i \in 1 .. j - 1) /\ ~(j \in 1 .. i - 1)
      BY <2>1, <2>2 DEF IsFirst
    <3> QED
      BY <1>1, <3>1
  <2>3. /\ (CHOOSE j \in DOMAIN s : IsFirst(s, keys, k, j)) = i
        /\ (CHOOSE j \in DOMAIN s : IsFirst(s, others, k, j)) = i
    BY <1>1, <1>3, <2>1, <2>2
  <2> QED
    BY <1>1, <1>3, <2>1, <2>3 DEF Found
<1>5. CASE ~\E i \in 1 .. Len(s) : IsFirst(s, keys, k, i)
  BY <1>1, <1>3, <1>5 DEF Found
<1> QED
  BY <1>4, <1>5

\* The list without one of its nodes.
LEMMA WithoutFacts ==
    ASSUME rules_list \in Seq(Nodes), IsInjective(rules_list), NEW n \in Listed
    PROVE  /\ Without(n) \in Seq(Nodes) /\ IsInjective(Without(n))
           /\ ToSet(Without(n)) = Listed \ {n}
           /\ \A m, x : Before(Without(n), m, x) => Before(rules_list, m, x)
BY PlaceFacts, RemoveAtList DEF Without, Listed

\* The node after a linked one is linked, and nothing stands between the two.
LEMMA SuccessorFacts ==
    ASSUME rules_list \in Seq(Nodes), IsInjective(rules_list), NEW n \in Listed \cup {Anchor}
    PROVE  /\ Successor(n) \in Listed \cup {Anchor}
           /\ Successor(n) # Anchor =>
                \A m : Before(rules_list, m, Successor(n)) => m = n \/ Before(rules_list, m, n)
           /\ Successor(n) = Anchor =>
                \A m \in Listed : m = n \/ Before(rules_list, m, n)
<1> DEFINE s == rules_list
           p == Place(n)
<1>1. Len(s) \in Nat /\ DOMAIN s = 1 .. Len(s) /\ \A i \in 1 .. Len(s) : s[i] \in Nodes
  BY LenProperties, ElementOfSeq
<1>2. \A i, j \in 1 .. Len(s) : s[i] = s[j] => i = j
  BY <1>1 DEF IsInjective
<1>3. \/ n = Anchor /\ p = 0
      \/ n # Anchor /\ p \in 1 .. Len(s) /\ s[p] = n
  BY PlaceFacts DEF Place
<1>4. Successor(n) = IF p = Len(s) THEN Anchor ELSE s[p + 1]
  BY DEF Successor
<1> HIDE DEF p
<1>5. CASE p = Len(s)
  <2>1. Successor(n) = Anchor
    BY <1>4, <1>5
  <2>2. ASSUME NEW m \in Listed PROVE m = n \/ Before(s, m, n)
    <3>1. PICK i \in 1 .. Len(s) : s[i] = m
      BY <1>1 DEF Listed, ToSet
    <3>2. p \in 1 .. Len(s) /\ s[p] = n
      BY <1>1, <1>3, <1>5, <3>1
    <3>3. CASE i = p
      BY <3>1, <3>2, <3>3
    <3>4. CASE i # p
      <4>x. i \in 1 .. p /\ p \in Nat
        BY <1>1, <1>5, <3>1, Zenon
      <4>1. i < p
        BY <3>4, <4>x
      <4> QED
        BY <3>1, <3>2, <4>1 DEF Before
    <3> QED
      BY <3>3, <3>4
  <2> QED
    BY <2>1, <2>2
<1>6. CASE p # Len(s)
  <2>1. p + 1 \in 1 .. Len(s) /\ Successor(n) = s[p + 1]
    BY <1>1, <1>3, <1>4, <1>6
  <2>2. Successor(n) \in Listed /\ Successor(n) \in Nodes
    BY <1>1, <2>1 DEF Listed, ToSet
  <2>3. ASSUME NEW m, Before(s, m, Successor(n)) PROVE m = n \/ Before(s, m, n)
    <3>1. PICK i, j \in 1 .. Len(s) : i < j /\ s[i] = m /\ s[j] = s[p + 1]
      BY <2>1, <2>3 DEF Before
    <3>2. j = p + 1
      BY <1>2, <2>1, <3>1
    <3>3. i \in 1 .. p /\ p \in 1 .. Len(s) /\ s[p] = n
      BY <1>1, <1>3, <3>1, <3>2
    <3>4. CASE i = p
      BY <3>1, <3>3, <3>4
    <3>5. CASE i # p
      <4>1. i < p
        BY <1>1, <3>3, <3>5
      <4> QED
        BY <3>1, <3>3, <4>1 DEF Before
    <3> QED
      BY <3>4, <3>5
  <2> QED
    BY <2>2, <2>3, NodesAssumption
<1> QED
  BY <1>5, <1>6

\* What an immediate search returns: the linked node on k with none before it.
LEMMA FoundFacts ==
    ASSUME NEW s \in Seq(Nodes), IsInjective(s), NEW keys, NEW k
    PROVE  /\ Found(s, keys, k) \in ToSet(s) \cup {Anchor}
           /\ Found(s, keys, k) # Anchor => keys[Found(s, keys, k)] = k
           /\ \A n \in ToSet(s) :
                keys[n] = k /\ (\A m : Before(s, m, n) => keys[m] # k) => Found(s, keys, k) = n
           /\ (\A n \in ToSet(s) : keys[n] # k) => Found(s, keys, k) = Anchor
<1> DEFINE c == CHOOSE i \in DOMAIN s : IsFirst(s, keys, k, i)
           some == \E i \in DOMAIN s : IsFirst(s, keys, k, i)
<1>1. Len(s) \in Nat /\ DOMAIN s = 1 .. Len(s)
  BY LenProperties
<1>2. some => c \in DOMAIN s /\ IsFirst(s, keys, k, c)
  OBVIOUS
<1>3. Found(s, keys, k) = IF some THEN s[c] ELSE Anchor
  BY DEF Found
<1> HIDE DEF c, some
<1>4. some => s[c] \in ToSet(s) /\ keys[s[c]] = k
  BY <1>2 DEF IsFirst, ToSet
<1>5. ASSUME NEW n \in ToSet(s), keys[n] = k, \A m : Before(s, m, n) => keys[m] # k
      PROVE  some /\ s[c] = n
  <2>1. PICK i \in 1 .. Len(s) : s[i] = n
    BY <1>1 DEF ToSet
  <2>2. ASSUME NEW j \in 1 .. i - 1 PROVE keys[s[j]] # k
    <3>1. j \in 1 .. Len(s) /\ j < i
      BY <1>1, <2>1
    <3>2. Before(s, s[j], n)
      BY <2>1, <3>1 DEF Before
    <3> QED
      BY <1>5, <3>2
  <2>3. some
    BY <1>1, <1>5, <2>1, <2>2 DEF IsFirst, some
  <2>4. c \in 1 .. Len(s) /\ keys[s[c]] = k /\ \A j \in 1 .. c - 1 : keys[s[j]] # k
    BY <1>1, <1>2, <2>3 DEF IsFirst
  <2>5. ~(i \in 1 .. c - 1) /\ ~(c \in 1 .. i - 1)
    BY <1>5, <2>1, <2>2, <2>4
  <2>6. i = c
    BY <1>1, <2>1, <2>4, <2>5
  <2> QED
    BY <2>1, <2>3, <2>6
<1> QED
  BY <1>3, <1>4, <1>5
-----------------------------------------------------------------------------
(* The inductive invariant.                                                *)

\* registry_lock excludes. In the spinlock build nobody reads without it.
Locking ==
    /\ \A r \in Readers : pc[r] \in {"publish", "unlink"} => registry_lock = r
    /\ \A r \in Readers : registry_lock = r => Traversing(r) \/ pc[r] \in {"publish", "unlink"}
    /\ \A r \in Readers \ Admins : pc[r] \in ReaderPcs
    /\ build = "spinlock" =>
        \A r \in Readers :
            pc[r] \notin {"enter", "sync", "grace"} /\ (Traversing(r) => registry_lock = r)

\* The administrator has a node that is not in the list: not yet, or no longer.
Owning(a) == pc[a] \in {"addlock", "publish", "sync", "grace", "kfree"}

Ownership ==
    /\ \A a \in Admins : Owning(a) => at[a] \in Nodes \ Listed /\ key[at[a]] # Free
    /\ \A a, b \in Admins : Owning(a) /\ Owning(b) /\ at[a] = at[b] => a = b
    /\ \A n \in Listed : key[n] # Free
    /\ \A r \in Readers :
        pc[r] \in {"idle", "enter", "lock", "dellock", "unlink"} => at[r] = Anchor

\* An unlinked node that will not be freed before r has left.
KeptFor(r, n) ==
    \E a \in Admins :
        at[a] = n /\ (pc[a] = "sync" \/ (pc[a] = "grace" /\ r \in pending[a]))

\* From the nodes linked at some time during a traversal no pointer leads elsewhere,
\* and none of them is freed under it.
Coverage ==
    \A r \in Readers : Traversing(r) =>
        /\ Listed \subseteq seen[r]
        /\ at[r] \in seen[r] \cup {Anchor}
        /\ pc[r] = "examine" => at[r] # Anchor
        /\ \A n \in seen[r] \ Listed :
            RcuReader(r) /\ KeptFor(r, n) /\ next[n] \in seen[r] \cup {Anchor}

NodesInv == TypeOK /\ Locking /\ Ownership /\ Coverage
-----------------------------------------------------------------------------
(* The invariant holds at first, and every step keeps it.                  *)

\* The readers are the processes and the timer.
LEMMA ReaderFacts ==
    /\ Threads \subseteq Readers /\ Admins \subseteq Readers /\ Timer \in Readers
    /\ Processes \subseteq Readers /\ Timer \notin Admins /\ NoOne \notin Readers
    /\ \A t \in Threads : t \notin Admins /\ t # Timer
BY NodesAssumption DEF Readers, Processes

\* What the types of the variables make of the operators.
LEMMA OperatorTypes ==
    ASSUME TypeOK
    PROVE  /\ Listed \subseteq Nodes /\ Anchor \notin Listed
           /\ \A k : Found(rules_list, key, k) \in Listed \cup {Anchor}
           /\ \A n \in Nodes \cup {Anchor} : Forward(n) \in Nodes \cup {Anchor}
<1>1. /\ rules_list \in Seq(Nodes) /\ IsInjective(rules_list)
      /\ next \in [Nodes -> Nodes \cup {Anchor}]
  BY DEF TypeOK
<1>2. Listed \subseteq Nodes
  BY <1>1, LenProperties, ElementOfSeq DEF Listed, ToSet
<1>3. \A k : Found(rules_list, key, k) \in Listed \cup {Anchor}
  BY <1>1, FoundFacts DEF Listed
<1>4. \A n \in Listed \cup {Anchor} : Successor(n) \in Listed \cup {Anchor}
  BY <1>1, SuccessorFacts
<1> QED
  BY <1>1, <1>2, <1>3, <1>4, NodesAssumption DEF Forward

LEMMA NodesInit == Init => NodesInv
<1> SUFFICES ASSUME Init PROVE NodesInv
  OBVIOUS
<1>1. TypeOK
  BY NodesAssumption, EmptySeq DEF Init, TypeOK, ReaderPcs, IsInjective
<1>2. Listed = {} /\ \A r \in Readers : pc[r] = "idle"
  BY DEF Init, Listed, ToSet
<1>3. Locking /\ Ownership /\ Coverage
  BY <1>2, ReaderFacts DEF Init, Locking, Ownership, Coverage, Traversing, ReaderPcs, Owning
<1> QED
  BY <1>1, <1>3 DEF NodesInv

\* What a new list adds to the history of those who are traversing.
LEMMA WitnessTypes ==
    ASSUME TypeOK, NEW s \in Seq(Nodes), IsInjective(s), Witness(s)
    PROVE  /\ seen' \in [Readers -> SUBSET Nodes]
           /\ answers' \in [Readers -> SUBSET (Nodes \cup {Anchor})]
           /\ visited' \in [Readers -> SUBSET Nodes] /\ due' \in [Readers -> SUBSET Nodes]
<1>1. ToSet(s) \subseteq Nodes
  BY LenProperties, ElementOfSeq DEF ToSet
<1>2. \A k : Found(s, key, k) \in Nodes \cup {Anchor}
  BY <1>1, FoundFacts
<1> QED
  BY <1>1, <1>2 DEF Witness, TypeOK

\* Types, and no repetition in the list.
LEMMA TypesStep ==
    ASSUME NodesInv, [Next]_vars
    PROVE  TypeOK'
<1>0. TypeOK /\ Locking /\ Ownership /\ Coverage
  BY DEF NodesInv
<1>1. ASSUME NEW t \in Threads, NEW k \in Wanted, Search(t, k) PROVE TypeOK'
  BY <1>1, <1>0, ReaderFacts, NodesAssumption DEF Search, TypeOK, Goto, At, list, history, ReaderPcs, WriterPcs, ReadSide
<1>2. ASSUME NEW p \in Processes \cup {NoOne}, NEW k \in Wanted \cup {Every}, TimerFire(p, k) PROVE TypeOK'
  BY <1>2, <1>0, ReaderFacts, NodesAssumption DEF TimerFire, TypeOK, Goto, At, list, history, ReaderPcs, WriterPcs, ReadSide
<1>3. ASSUME NEW r \in Readers, EnterRcu(r) PROVE TypeOK'
  BY <1>3, <1>0, OperatorTypes DEF EnterRcu, Begin, TypeOK, Goto, At, list, history, ReaderPcs, WriterPcs, ReadSide
<1>4. ASSUME NEW r \in Readers, EnterLocked(r) PROVE TypeOK'
  BY <1>4, <1>0, OperatorTypes DEF EnterLocked, Begin, TypeOK, Goto, At, list, history, ReaderPcs, WriterPcs, ReadSide
<1>5. ASSUME NEW r \in Readers, Load(r) PROVE TypeOK'
  BY <1>5, <1>0, OperatorTypes DEF Load, TypeOK, Goto, At, list, history, ReaderPcs, WriterPcs, ReadSide
<1>6. ASSUME NEW r \in Readers, Examine(r) PROVE TypeOK'
  <2>1. at[r] \in Nodes
    BY <1>6, <1>0 DEF Examine, At, Coverage, Traversing, TypeOK
  <2> QED
    BY <1>6, <1>0, <2>1, ReaderFacts DEF Examine, TypeOK, Goto, At, list, history, ReaderPcs, WriterPcs, ReadSide
<1>7. ASSUME NEW r \in Readers, Leave(r) PROVE TypeOK'
  BY <1>7, <1>0, ReaderFacts DEF Leave, TypeOK, Goto, At, list, history, ReaderPcs, WriterPcs, ReadSide
<1>8. ASSUME NEW a \in Admins, NEW n \in Nodes, NEW k \in Keys, Allocate(a, n, k) PROVE TypeOK'
  BY <1>8, <1>0, ReaderFacts DEF Allocate, TypeOK, Goto, At, list, history, ReaderPcs, WriterPcs, ReadSide
<1>9. ASSUME NEW a \in Admins, NEW k \in Keys, Want(a, k) PROVE TypeOK'
  BY <1>9, <1>0, ReaderFacts DEF Want, TypeOK, Goto, At, list, history, ReaderPcs, WriterPcs, ReadSide
<1>10. ASSUME NEW a \in Admins, LockToWrite(a) PROVE TypeOK'
  BY <1>10, <1>0, ReaderFacts DEF LockToWrite, TypeOK, Goto, At, list, history, ReaderPcs, WriterPcs, ReadSide
<1>11. ASSUME NEW a \in Admins, Publish(a) PROVE TypeOK'
  <2>1. at[a] \in Nodes \ Listed /\ rules_list' = Append(rules_list, at[a])
    BY <1>11, <1>0, ReaderFacts DEF Publish, Ownership, Owning, At
  <2>2. rules_list' \in Seq(Nodes) /\ IsInjective(rules_list')
    BY <1>0, <2>1, AppendList DEF TypeOK, Listed
  <2> QED
    BY <1>11, <1>0, <2>2, WitnessTypes, ReaderFacts DEF Publish, TypeOK, Goto, At, list, history, ReaderPcs, WriterPcs, ReadSide
<1>12. ASSUME NEW a \in Admins, Unlink(a) PROVE TypeOK'
  <2> DEFINE n == Found(rules_list, key, want[a])
  <2>1. CASE n = Anchor
    BY <1>12, <1>0, <2>1, ReaderFacts DEF Unlink, TypeOK, Goto, At, list, history, ReaderPcs, WriterPcs, ReadSide
  <2>2. CASE n # Anchor
    <3>1. n \in Listed /\ n \in Nodes /\ Kept(n) \in Nodes \cup {Anchor}
      BY <1>0, <2>2, OperatorTypes, SuccessorFacts DEF TypeOK, Kept
    <3>2. /\ rules_list' = Without(n) /\ next' = [next EXCEPT ![n] = Kept(n)]
          /\ at' = [at EXCEPT ![a] = n] /\ Witness(rules_list') /\ Goto(a, AfterUnlink)
      BY <1>12, <2>2 DEF Unlink
    <3>3. rules_list' \in Seq(Nodes) /\ IsInjective(rules_list')
      BY <1>0, <3>1, <3>2, WithoutFacts DEF TypeOK
    <3>4. /\ seen' \in [Readers -> SUBSET Nodes] /\ answers' \in [Readers -> SUBSET (Nodes \cup {Anchor})]
          /\ visited' \in [Readers -> SUBSET Nodes] /\ due' \in [Readers -> SUBSET Nodes]
      BY <1>0, <3>2, <3>3, WitnessTypes
    <3> HIDE DEF n
    <3>5. /\ next' \in [Nodes -> Nodes \cup {Anchor}]
          /\ at' \in [Readers -> Nodes \cup {Anchor}]
          /\ pc' \in [Readers -> ReaderPcs \cup WriterPcs]
          /\ want' \in [Readers -> Keys \cup {Every}]
          /\ registry_lock' \in Readers \cup {NoOne}
      BY <1>12, <1>0, <3>1, <3>2, ReaderFacts DEF Unlink, TypeOK, Goto, ReaderPcs, WriterPcs, AfterUnlink
    <3> QED
      BY <1>12, <1>0, <3>3, <3>4, <3>5 DEF Unlink, TypeOK
  <2> QED
    BY <2>1, <2>2
<1>13. ASSUME NEW a \in Admins, Synchronize(a) PROVE TypeOK'
  BY <1>13, <1>0, ReaderFacts DEF Synchronize, TypeOK, Goto, At, list, history, ReaderPcs, WriterPcs, ReadSide
<1>14. ASSUME NEW a \in Admins, GracePeriodEnds(a) PROVE TypeOK'
  BY <1>14, <1>0, ReaderFacts DEF GracePeriodEnds, TypeOK, Goto, At, list, history, ReaderPcs, WriterPcs, ReadSide
<1>15. ASSUME NEW a \in Admins, Kfree(a) PROVE TypeOK'
  BY <1>15, <1>0, ReaderFacts DEF Kfree, TypeOK, Goto, At, list, history, ReaderPcs, WriterPcs, ReadSide
<1>16. CASE UNCHANGED vars
  BY <1>16 DEF vars, list, readers, history, NodesInv, TypeOK
<1> QED
  BY <1>1, <1>2, <1>3, <1>4, <1>5, <1>6, <1>7, <1>8,
     <1>9, <1>10, <1>11, <1>12, <1>13, <1>14, <1>15, <1>16
  DEF Next, ReadStep, WriteStep, SpinForEver

\* The lock is taken when it is free and given back by its owner.
LEMMA LockingStep ==
    ASSUME NodesInv, [Next]_vars
    PROVE  Locking'
<1>0. Locking /\ pc \in [Readers -> ReaderPcs \cup WriterPcs] /\ build \in {"rcu", "spinlock"}
  BY NodesAssumption DEF NodesInv, TypeOK
<1>1. ASSUME NEW t \in Threads, NEW k \in Wanted, Search(t, k) PROVE Locking'
  BY <1>1, <1>0, ReaderFacts DEF Search, Locking, Traversing, At, Goto, ReaderPcs, ReadSide
<1>2. ASSUME NEW p \in Processes \cup {NoOne}, NEW k \in Wanted \cup {Every}, TimerFire(p, k) PROVE Locking'
  BY <1>2, <1>0, ReaderFacts DEF TimerFire, Locking, Traversing, At, Goto, ReaderPcs, ReadSide
<1>3. ASSUME NEW r \in Readers, EnterRcu(r) PROVE Locking'
  BY <1>3, <1>0, ReaderFacts DEF EnterRcu, Begin, Locking, Traversing, At, Goto, ReaderPcs, ReadSide
<1>4. ASSUME NEW r \in Readers, EnterLocked(r) PROVE Locking'
  BY <1>4, <1>0, ReaderFacts DEF EnterLocked, Begin, Locking, Traversing, At, Goto, ReaderPcs, ReadSide
<1>5. ASSUME NEW r \in Readers, Load(r) PROVE Locking'
  BY <1>5, <1>0, ReaderFacts DEF Load, Locking, Traversing, At, Goto, ReaderPcs, ReadSide
<1>6. ASSUME NEW r \in Readers, Examine(r) PROVE Locking'
  BY <1>6, <1>0, ReaderFacts DEF Examine, Locking, Traversing, At, Goto, ReaderPcs, ReadSide
<1>7. ASSUME NEW r \in Readers, Leave(r) PROVE Locking'
  BY <1>7, <1>0, ReaderFacts DEF Leave, Locking, Traversing, At, Goto, ReaderPcs, ReadSide
<1>8. ASSUME NEW a \in Admins, NEW n \in Nodes, NEW k \in Keys, Allocate(a, n, k) PROVE Locking'
  BY <1>8, <1>0, ReaderFacts DEF Allocate, Locking, Traversing, At, Goto, ReaderPcs, ReadSide
<1>9. ASSUME NEW a \in Admins, NEW k \in Keys, Want(a, k) PROVE Locking'
  BY <1>9, <1>0, ReaderFacts DEF Want, Locking, Traversing, At, Goto, ReaderPcs, ReadSide
<1>10. ASSUME NEW a \in Admins, LockToWrite(a) PROVE Locking'
  BY <1>10, <1>0, ReaderFacts DEF LockToWrite, Locking, Traversing, At, Goto, ReaderPcs, ReadSide
<1>11. ASSUME NEW a \in Admins, Publish(a) PROVE Locking'
  BY <1>11, <1>0, ReaderFacts DEF Publish, Locking, Traversing, At, Goto, ReaderPcs, ReadSide
<1>12. ASSUME NEW a \in Admins, Unlink(a) PROVE Locking'
  BY <1>12, <1>0, ReaderFacts DEF Unlink, AfterUnlink, Locking, Traversing, At, Goto, ReaderPcs, ReadSide
<1>13. ASSUME NEW a \in Admins, Synchronize(a) PROVE Locking'
  BY <1>13, <1>0, ReaderFacts DEF Synchronize, Locking, Traversing, At, Goto, ReaderPcs, ReadSide
<1>14. ASSUME NEW a \in Admins, GracePeriodEnds(a) PROVE Locking'
  BY <1>14, <1>0, ReaderFacts DEF GracePeriodEnds, Locking, Traversing, At, Goto, ReaderPcs, ReadSide
<1>15. ASSUME NEW a \in Admins, Kfree(a) PROVE Locking'
  BY <1>15, <1>0, ReaderFacts DEF Kfree, Locking, Traversing, At, Goto, ReaderPcs, ReadSide
<1>16. CASE UNCHANGED vars
  BY <1>16, <1>0 DEF vars, readers, Locking, Traversing, At, Goto, ReaderPcs, ReadSide
<1> QED
  BY <1>1, <1>2, <1>3, <1>4, <1>5, <1>6, <1>7, <1>8,
     <1>9, <1>10, <1>11, <1>12, <1>13, <1>14, <1>15, <1>16
  DEF Next, ReadStep, WriteStep, SpinForEver

\* A node is in the list, or in the hands of one administrator, or free.
LEMMA OwnershipStep ==
    ASSUME NodesInv, [Next]_vars
    PROVE  Ownership'
<1>0. Ownership /\ Locking /\ TypeOK
  BY DEF NodesInv
<1>00. /\ pc \in [Readers -> ReaderPcs \cup WriterPcs] /\ at \in [Readers -> Nodes \cup {Anchor}]
       /\ key \in [Nodes -> Keys \cup {Free}]
  BY <1>0 DEF TypeOK
<1>1. ASSUME NEW t \in Threads, NEW k \in Wanted, Search(t, k) PROVE Ownership'
  BY <1>1, <1>0, <1>00, ReaderFacts DEF Search, Listed, Ownership, Owning, At, Goto, list, ReadSide
<1>2. ASSUME NEW p \in Processes \cup {NoOne}, NEW k \in Wanted \cup {Every}, TimerFire(p, k) PROVE Ownership'
  BY <1>2, <1>0, <1>00, ReaderFacts DEF TimerFire, Listed, Ownership, Owning, At, Goto, list, ReadSide
<1>3. ASSUME NEW r \in Readers, EnterRcu(r) PROVE Ownership'
  BY <1>3, <1>0, <1>00, ReaderFacts DEF EnterRcu, Begin, Listed, Ownership, Owning, At, Goto, list, ReadSide
<1>4. ASSUME NEW r \in Readers, EnterLocked(r) PROVE Ownership'
  BY <1>4, <1>0, <1>00, ReaderFacts DEF EnterLocked, Begin, Listed, Ownership, Owning, At, Goto, list, ReadSide
<1>5. ASSUME NEW r \in Readers, Load(r) PROVE Ownership'
  BY <1>5, <1>0, <1>00, ReaderFacts DEF Load, Listed, Ownership, Owning, At, Goto, list, ReadSide
<1>6. ASSUME NEW r \in Readers, Examine(r) PROVE Ownership'
  BY <1>6, <1>0, <1>00, ReaderFacts DEF Examine, Listed, Ownership, Owning, At, Goto, list, ReadSide
<1>7. ASSUME NEW r \in Readers, Leave(r) PROVE Ownership'
  BY <1>7, <1>0, <1>00, ReaderFacts DEF Leave, Listed, Ownership, Owning, At, Goto, list, ReadSide
<1>8. ASSUME NEW a \in Admins, NEW n \in Nodes, NEW k \in Keys, Allocate(a, n, k) PROVE Ownership'
  <2>1. Listed' = Listed /\ n \notin Listed /\ k # Free
    BY <1>8, <1>0, NodesAssumption DEF Allocate, Listed, Ownership
  <2>2. Listed \subseteq Nodes
    BY <1>0, OperatorTypes
  <2> QED
    BY <1>8, <1>0, <1>00, <2>1, <2>2, ReaderFacts DEF Allocate, Ownership, Owning, At, Goto, list, ReadSide
<1>9. ASSUME NEW a \in Admins, NEW k \in Keys, Want(a, k) PROVE Ownership'
  BY <1>9, <1>0, <1>00, ReaderFacts DEF Want, Listed, Ownership, Owning, At, Goto, list, ReadSide
<1>10. ASSUME NEW a \in Admins, LockToWrite(a) PROVE Ownership'
  BY <1>10, <1>0, <1>00, ReaderFacts DEF LockToWrite, Listed, Ownership, Owning, At, Goto, list, ReadSide
<1>11. ASSUME NEW a \in Admins, Publish(a) PROVE Ownership'
  <2>1. at[a] \in Nodes \ Listed /\ key[at[a]] # Free /\ Owning(a)
    BY <1>11, <1>0, ReaderFacts DEF Publish, Ownership, Owning, At
  <2>2. Listed' = Listed \cup {at[a]}
    BY <1>11, <1>0, <2>1, AppendList DEF Publish, TypeOK, Listed
  <2> QED
    BY <1>11, <1>0, <1>00, <2>1, <2>2, ReaderFacts DEF Publish, Ownership, Owning, At, Goto, list, ReadSide
<1>12. ASSUME NEW a \in Admins, Unlink(a) PROVE Ownership'
  <2> DEFINE n == Found(rules_list, key, want[a])
  <2>1. CASE n = Anchor
    BY <1>12, <1>0, <1>00, <2>1, ReaderFacts DEF Unlink, Listed, Ownership, Owning, At, Goto, list, ReadSide
  <2>2. CASE n # Anchor
    <3>1. n \in Listed /\ n \in Nodes
      BY <1>0, <2>2, OperatorTypes
    <3>2. /\ rules_list' = Without(n) /\ at' = [at EXCEPT ![a] = n]
          /\ Goto(a, AfterUnlink) /\ key' = key
      BY <1>12, <2>2 DEF Unlink
    <3>3. Listed' = Listed \ {n}
      BY <1>0, <3>1, <3>2, WithoutFacts DEF TypeOK, Listed
    <3>4. ~Owning(a) /\ (AfterUnlink = "sync" \/ AfterUnlink = "kfree")
      BY <1>12 DEF Unlink, At, Owning, AfterUnlink
    <3> HIDE DEF n
    <3> QED
      BY <1>0, <1>00, <3>1, <3>2, <3>3, <3>4, ReaderFacts DEF Ownership, Owning, Goto
  <2> QED
    BY <2>1, <2>2
<1>13. ASSUME NEW a \in Admins, Synchronize(a) PROVE Ownership'
  BY <1>13, <1>0, <1>00, ReaderFacts DEF Synchronize, Listed, Ownership, Owning, At, Goto, list, ReadSide
<1>14. ASSUME NEW a \in Admins, GracePeriodEnds(a) PROVE Ownership'
  BY <1>14, <1>0, <1>00, ReaderFacts DEF GracePeriodEnds, Listed, Ownership, Owning, At, Goto, list, ReadSide
<1>15. ASSUME NEW a \in Admins, Kfree(a) PROVE Ownership'
  BY <1>15, <1>0, <1>00, ReaderFacts DEF Kfree, Listed, Ownership, Owning, At, Goto, list, ReadSide
<1>16. CASE UNCHANGED vars
  BY <1>16, <1>0 DEF vars, list, readers, Listed, Ownership, Owning, At, Goto, list, ReadSide
<1> QED
  BY <1>1, <1>2, <1>3, <1>4, <1>5, <1>6, <1>7, <1>8,
     <1>9, <1>10, <1>11, <1>12, <1>13, <1>14, <1>15, <1>16
  DEF Next, ReadStep, WriteStep, SpinForEver

\* Where the cursor goes next has been in the list.
LEMMA ForwardIsSeen ==
    ASSUME NodesInv, NEW r \in Readers, Traversing(r)
    PROVE  Forward(at[r]) \in seen[r] \cup {Anchor}
<1>1. TypeOK /\ Coverage
  BY DEF NodesInv
<1>2. CASE at[r] \in Listed \cup {Anchor}
  <2>1. Successor(at[r]) \in Listed \cup {Anchor}
    BY <1>1, <1>2, SuccessorFacts DEF TypeOK
  <2> QED
    BY <1>1, <1>2, <2>1 DEF Forward, Coverage
<1>3. CASE at[r] \notin Listed \cup {Anchor}
  BY <1>1, <1>3 DEF Forward, Coverage
<1> QED
  BY <1>2, <1>3

\* No traversal is led astray.
LEMMA CoverageStep ==
    ASSUME NodesInv, [Next]_vars
    PROVE  Coverage'
<1>0. Coverage /\ Ownership /\ Locking /\ TypeOK
  BY DEF NodesInv
<1>00. /\ pc \in [Readers -> ReaderPcs \cup WriterPcs] /\ at \in [Readers -> Nodes \cup {Anchor}]
       /\ key \in [Nodes -> Keys \cup {Free}] /\ next \in [Nodes -> Nodes \cup {Anchor}]
       /\ seen \in [Readers -> SUBSET Nodes] /\ pending \in [Admins -> SUBSET Readers]
       /\ Listed \subseteq Nodes /\ Anchor \notin Listed
  BY <1>0, OperatorTypes DEF TypeOK
<1>1. ASSUME NEW t \in Threads, NEW k \in Wanted, Search(t, k) PROVE Coverage'
  BY <1>1, <1>0, <1>00, ReaderFacts DEF Search, Listed, Coverage, Traversing, RcuReader, KeptFor, At, Goto, list, history, ReadSide
<1>2. ASSUME NEW p \in Processes \cup {NoOne}, NEW k \in Wanted \cup {Every}, TimerFire(p, k) PROVE Coverage'
  BY <1>2, <1>0, <1>00, ReaderFacts DEF TimerFire, Listed, Coverage, Traversing, RcuReader, KeptFor, At, Goto, list, history, ReadSide
<1>3. ASSUME NEW r \in Readers, EnterRcu(r) PROVE Coverage'
  BY <1>3, <1>0, <1>00, ReaderFacts DEF EnterRcu, Begin, Listed, Locking, Ownership, Coverage, Traversing, RcuReader, KeptFor, At, Goto, list, history, ReadSide
<1>4. ASSUME NEW r \in Readers, EnterLocked(r) PROVE Coverage'
  BY <1>4, <1>0, <1>00, ReaderFacts DEF EnterLocked, Begin, Listed, Locking, Ownership, Coverage, Traversing, RcuReader, KeptFor, At, Goto, list, history, ReadSide
<1>5. ASSUME NEW r \in Readers, Load(r) PROVE Coverage'
  <2>1. at'[r] \in seen[r] \cup {Anchor} /\ (pc'[r] = "examine" => at'[r] # Anchor)
    BY <1>5, <1>00, ForwardIsSeen DEF Load, At, Goto, Traversing
  <2> QED
    BY <1>5, <1>0, <1>00, <2>1, ReaderFacts DEF Load, Listed, Coverage, Traversing, RcuReader, KeptFor, At, Goto, list, history, ReadSide
<1>6. ASSUME NEW r \in Readers, Examine(r) PROVE Coverage'
  BY <1>6, <1>0, <1>00, ReaderFacts DEF Examine, Listed, Coverage, Traversing, RcuReader, KeptFor, At, Goto, list, history, ReadSide
<1>7. ASSUME NEW r \in Readers, Leave(r) PROVE Coverage'
  BY <1>7, <1>0, <1>00, ReaderFacts DEF Leave, Listed, Coverage, Traversing, RcuReader, KeptFor, At, Goto, list, history, ReadSide
<1>8. ASSUME NEW a \in Admins, NEW n \in Nodes, NEW k \in Keys, Allocate(a, n, k) PROVE Coverage'
  BY <1>8, <1>0, <1>00, ReaderFacts DEF Allocate, Listed, Coverage, Traversing, RcuReader, KeptFor, At, Goto, list, history, ReadSide
<1>9. ASSUME NEW a \in Admins, NEW k \in Keys, Want(a, k) PROVE Coverage'
  BY <1>9, <1>0, <1>00, ReaderFacts DEF Want, Listed, Coverage, Traversing, RcuReader, KeptFor, At, Goto, list, history, ReadSide
<1>10. ASSUME NEW a \in Admins, LockToWrite(a) PROVE Coverage'
  BY <1>10, <1>0, <1>00, ReaderFacts DEF LockToWrite, Listed, Coverage, Traversing, RcuReader, KeptFor, At, Goto, list, history, ReadSide
<1>11. ASSUME NEW a \in Admins, Publish(a) PROVE Coverage'
  <2> DEFINE x == at[a]
  <2>1. x \in Nodes \ Listed
    BY <1>11, <1>0, ReaderFacts DEF Publish, Ownership, Owning, At
  <2>2. Listed' = Listed \cup {x} /\ ToSet(rules_list') = Listed \cup {x}
    BY <1>11, <1>0, <2>1, AppendList DEF Publish, TypeOK, Listed
  <2> HIDE DEF x
  <2>3. ASSUME NEW r \in Readers, Traversing(r)'
        PROVE  r # a /\ Traversing(r) /\ RcuReader(r) /\ RcuReader(r)' /\ pc'[r] = pc[r]
    BY <1>11, <1>0, <1>00, <2>3, ReaderFacts
    DEF Publish, Locking, Traversing, RcuReader, At, Goto, ReadSide
  <2>4. ASSUME NEW r \in Readers, NEW n \in Nodes, KeptFor(r, n) PROVE KeptFor(r, n)'
    BY <1>11, <1>00, <2>4, ReaderFacts DEF Publish, KeptFor, At, Goto
  <2>5. \A r \in Readers : Traversing(r)' => seen'[r] = seen[r] \cup Listed \cup {x} /\ at'[r] = at[r]
    BY <1>11, <1>00, <2>2, <2>3 DEF Publish, Witness
  <2>6. next' = next
    BY <1>11 DEF Publish
  <2> QED
    BY <1>0, <1>00, <2>1, <2>2, <2>3, <2>4, <2>5, <2>6 DEF Coverage
<1>12. ASSUME NEW a \in Admins, Unlink(a) PROVE Coverage'
  <2>0. PICK n \in Listed \cup {Anchor} : n = Found(rules_list, key, want[a])
    BY <1>0, OperatorTypes
  <2>3. ASSUME NEW r \in Readers, Traversing(r)'
        PROVE  r # a /\ Traversing(r) /\ RcuReader(r) /\ RcuReader(r)' /\ pc'[r] = pc[r]
               /\ build = "rcu"
    BY <1>12, <1>0, <1>00, <2>3, ReaderFacts, NodesAssumption
    DEF Unlink, Locking, Traversing, RcuReader, At, Goto, AfterUnlink, TypeOK
  <2>1. CASE n = Anchor
    BY <1>12, <1>0, <1>00, <2>0, <2>1, <2>3, ReaderFacts DEF Unlink, Listed, Coverage, Traversing, RcuReader, KeptFor, At, Goto, list, history, ReadSide
  <2>2. CASE n # Anchor
    <3>1. n \in Listed /\ n \in Nodes /\ Kept(n) \in Listed \cup {Anchor}
      BY <1>0, <1>00, <2>2, SuccessorFacts DEF TypeOK, Kept
    <3>2. /\ rules_list' = Without(n) /\ next' = [next EXCEPT ![n] = Kept(n)]
          /\ at' = [at EXCEPT ![a] = n] /\ Witness(rules_list') /\ Goto(a, AfterUnlink)
      BY <1>12, <2>0, <2>2 DEF Unlink
    <3>3. Listed' = Listed \ {n} /\ ToSet(rules_list') = Listed \ {n}
      BY <1>0, <3>1, <3>2, WithoutFacts DEF TypeOK, Listed
    <3>4. ASSUME NEW r \in Readers, Traversing(r)'
          PROVE  /\ seen'[r] = seen[r] \cup (Listed \ {n})
                 /\ at'[r] = at[r]
                 /\ KeptFor(r, n)'
      <4>1. Traversing(r) /\ r # a /\ build = "rcu"
        BY <2>3, <3>4
      <4>2. seen'[r] = seen[r] \cup (Listed \ {n})
        BY <3>2, <3>3, <4>1 DEF Witness
      <4>3. at'[r] = at[r] /\ at'[a] = n /\ pc'[a] = "sync"
        BY <1>00, <3>2, <4>1, ReaderFacts DEF Goto, AfterUnlink
      <4> QED
        BY <4>2, <4>3 DEF KeptFor
    <3>5. ASSUME NEW r \in Readers, NEW m \in Nodes, KeptFor(r, m) PROVE KeptFor(r, m)'
      BY <1>12, <1>00, <3>2, <3>5, ReaderFacts DEF Unlink, KeptFor, At, Goto
    <3>6. \A m \in Nodes : next'[m] = IF m = n THEN Kept(n) ELSE next[m]
      BY <1>00, <3>2
    <3>7. ASSUME NEW r \in Readers, Traversing(r)', NEW m \in seen'[r] \ Listed'
          PROVE  RcuReader(r)' /\ KeptFor(r, m)' /\ next'[m] \in seen'[r] \cup {Anchor}
      <4>1. /\ Traversing(r) /\ RcuReader(r)' /\ Listed \subseteq seen[r]
            /\ seen'[r] = seen[r] /\ seen[r] \subseteq Nodes
        <5>1. Traversing(r) /\ RcuReader(r)' /\ seen'[r] = seen[r] \cup (Listed \ {n})
          BY <2>3, <3>4, <3>7
        <5>2. Listed \subseteq seen[r] /\ seen[r] \subseteq Nodes
          BY <1>0, <1>00, <5>1 DEF Coverage
        <5>3. seen[r] \cup (Listed \ {n}) = seen[r]
          BY <5>2
        <5> QED
          BY <5>1, <5>2, <5>3
      <4>2. CASE m = n
        BY <3>1, <3>4, <3>6, <3>7, <4>1, <4>2
      <4>3. CASE m # n
        <5>1. m \in seen[r] \ Listed /\ m \in Nodes
          BY <3>3, <4>1, <4>3
        <5>2. KeptFor(r, m) /\ next[m] \in seen[r] \cup {Anchor}
          BY <1>0, <4>1, <5>1 DEF Coverage
        <5> QED
          BY <3>5, <3>6, <4>1, <4>3, <5>1, <5>2
      <4> QED
        BY <4>2, <4>3
    <3>8. ASSUME NEW r \in Readers, Traversing(r)'
          PROVE  /\ Listed' \subseteq seen'[r]
                 /\ at'[r] \in seen'[r] \cup {Anchor}
                 /\ pc'[r] = "examine" => at'[r] # Anchor
      BY <1>0, <2>3, <3>3, <3>4, <3>8 DEF Coverage
    <3> QED
      BY <3>7, <3>8 DEF Coverage
  <2> QED
    BY <2>1, <2>2
<1>13. ASSUME NEW a \in Admins, Synchronize(a) PROVE Coverage'
  BY <1>13, <1>0, <1>00, ReaderFacts DEF Synchronize, Listed, Coverage, Traversing, RcuReader, KeptFor, At, Goto, list, history, ReadSide
<1>14. ASSUME NEW a \in Admins, GracePeriodEnds(a) PROVE Coverage'
  <2>1. ASSUME NEW r \in Readers, NEW n \in Nodes, RcuReader(r), KeptFor(r, n)
        PROVE  KeptFor(r, n)'
    <3>1. PICK b \in Admins : at[b] = n /\ (pc[b] = "sync" \/ (pc[b] = "grace" /\ r \in pending[b]))
      BY <2>1 DEF KeptFor
    <3>2. b # a
      BY <1>14, <3>1 DEF GracePeriodEnds, GraceOver, At
    <3> QED
      BY <1>14, <1>00, <3>1, <3>2, ReaderFacts DEF GracePeriodEnds, KeptFor, Goto
  <2>2. \A r \in Readers : (Traversing(r)' <=> Traversing(r)) /\ (RcuReader(r)' <=> RcuReader(r))
                           /\ (Traversing(r) => pc'[r] = pc[r])
    BY <1>14, <1>00, ReaderFacts DEF GracePeriodEnds, Traversing, RcuReader, At, Goto
  <2> QED
    BY <1>14, <1>0, <1>00, <2>1, <2>2 DEF GracePeriodEnds, Coverage, Listed, list, history
<1>15. ASSUME NEW a \in Admins, Kfree(a) PROVE Coverage'
  BY <1>15, <1>0, <1>00, ReaderFacts DEF Kfree, Listed, Coverage, Traversing, RcuReader, KeptFor, At, Goto, list, history, ReadSide
<1>16. CASE UNCHANGED vars
  BY <1>16, <1>0 DEF vars, list, readers, history, Listed, Coverage, Traversing, RcuReader, KeptFor, At, Goto, list, history, ReadSide
<1> QED
  BY <1>1, <1>2, <1>3, <1>4, <1>5, <1>6, <1>7, <1>8,
     <1>9, <1>10, <1>11, <1>12, <1>13, <1>14, <1>15, <1>16
  DEF Next, ReadStep, WriteStep, SpinForEver

\* The four parts together.
THEOREM NodesInvariant == Spec => []NodesInv
<1>1. ASSUME NodesInv, [Next]_vars PROVE NodesInv'
  BY <1>1, TypesStep, LockingStep, OwnershipStep, CoverageStep DEF NodesInv
<1> QED
  BY NodesInit, <1>1, PTL DEF Spec

\* In both builds and for every number of processes and nodes, the values the
\* variables take, and no node is linked twice.
THEOREM TypesCorrect == Spec => []TypeOK
<1>1. NodesInv => TypeOK
  BY DEF NodesInv
<1> QED
  BY NodesInvariant, <1>1, PTL

\* registry_data.c:125: remove_rule() frees a node when nobody can stand on it any more,
\* be it that readers hold the lock or that a grace period has passed.
THEOREM FreedNodesUnreachable == Spec => []NoUseAfterFree
<1>1. ASSUME NodesInv PROVE NoUseAfterFree
  <2> SUFFICES ASSUME NEW r \in Readers, Traversing(r), at[r] # Anchor
               PROVE  at[r] \in Listed \cup Removed
    BY DEF NoUseAfterFree
  <2>1. at[r] \in Listed \/ KeptFor(r, at[r])
    BY <1>1 DEF NodesInv, Coverage
  <2> QED
    BY <2>1 DEF KeptFor, Removed
<1> QED
  BY NodesInvariant, <1>1, PTL
-----------------------------------------------------------------------------
(* What happens to a traversal.                                            *)

\* Nodes a traversal may stand on are in nobody's hands but a waiting remover's.
LEMMA SeenNodes ==
    ASSUME NodesInv, NEW r \in Readers, Traversing(r), NEW n \in seen[r]
    PROVE  /\ n \in Nodes /\ key[n] # Free
           /\ \A a \in Admins : Owning(a) /\ at[a] = n => pc[a] \in {"sync", "grace"}
<1>1. Coverage /\ Ownership /\ n \in Nodes
  BY DEF NodesInv, TypeOK
<1>2. CASE n \in Listed
  BY <1>1, <1>2 DEF Ownership
<1>3. CASE n \notin Listed
  <2>1. PICK b \in Admins : at[b] = n /\ pc[b] \in {"sync", "grace"}
    BY <1>1, <1>3 DEF Coverage, KeptFor
  <2>2. Owning(b)
    BY <2>1 DEF Owning
  <2> QED
    BY <1>1, <2>1, <2>2 DEF Ownership
<1> QED
  BY <1>2, <1>3

\* A step leaves the list, the traversal of r and the nodes it has seen alone.
Bystander(r) ==
    /\ Traversing(r) /\ rules_list' = rules_list
    /\ pc'[r] = pc[r] /\ at'[r] = at[r] /\ want'[r] = want[r]
    /\ seen'[r] = seen[r] /\ answers'[r] = answers[r]
    /\ visited'[r] = visited[r] /\ due'[r] = due[r]
    /\ \A n \in seen[r] : key'[n] = key[n] /\ next'[n] = next[n]

\* Any other step is one of its own, or a change of the list.
LEMMA TraversalSteps ==
    ASSUME NodesInv, [Next]_vars, NEW r \in Readers, Traversing(r)'
    PROVE  \/ Bystander(r)
           \/ EnterRcu(r) \/ EnterLocked(r) \/ Load(r) \/ Examine(r)
           \/ \E a \in Admins : Publish(a) \/ Unlink(a)
<1>0. /\ pc \in [Readers -> ReaderPcs \cup WriterPcs] /\ at \in [Readers -> Nodes \cup {Anchor}]
      /\ want \in [Readers -> Keys \cup {Every}] /\ seen \in [Readers -> SUBSET Nodes]
      /\ answers \in [Readers -> SUBSET (Nodes \cup {Anchor})]
      /\ visited \in [Readers -> SUBSET Nodes] /\ due \in [Readers -> SUBSET Nodes]
      /\ key \in [Nodes -> Keys \cup {Free}] /\ next \in [Nodes -> Nodes \cup {Anchor}]
  BY DEF NodesInv, TypeOK
<1>1. ASSUME NEW t \in Threads, NEW k \in Wanted, Search(t, k) PROVE Bystander(r)
  BY <1>1, <1>0, ReaderFacts DEF Search, Bystander, Traversing, At, Goto, list, history, ReadSide
<1>2. ASSUME NEW p \in Processes \cup {NoOne}, NEW k \in Wanted \cup {Every}, TimerFire(p, k) PROVE Bystander(r)
  BY <1>2, <1>0, ReaderFacts DEF TimerFire, Bystander, Traversing, At, Goto, list, history, ReadSide
<1>3. ASSUME NEW q \in Readers, EnterRcu(q), q # r PROVE Bystander(r)
  BY <1>3, <1>0, ReaderFacts DEF EnterRcu, Begin, Bystander, Traversing, At, Goto, list, history, ReadSide
<1>4. ASSUME NEW q \in Readers, EnterLocked(q), q # r PROVE Bystander(r)
  BY <1>4, <1>0, ReaderFacts DEF EnterLocked, Begin, Bystander, Traversing, At, Goto, list, history, ReadSide
<1>5. ASSUME NEW q \in Readers, Load(q), q # r PROVE Bystander(r)
  BY <1>5, <1>0, ReaderFacts DEF Load, Bystander, Traversing, At, Goto, list, history, ReadSide
<1>6. ASSUME NEW q \in Readers, Examine(q), q # r PROVE Bystander(r)
  BY <1>6, <1>0, ReaderFacts DEF Examine, Bystander, Traversing, At, Goto, list, history, ReadSide
<1>7. ASSUME NEW q \in Readers, Leave(q) PROVE Bystander(r)
  BY <1>7, <1>0, ReaderFacts DEF Leave, Bystander, Traversing, At, Goto, list, history, ReadSide
<1>8. ASSUME NEW a \in Admins, NEW n \in Nodes, NEW k \in Keys, Allocate(a, n, k) PROVE Bystander(r)
  <2>1. /\ Traversing(r) /\ rules_list' = rules_list
        /\ pc'[r] = pc[r] /\ at'[r] = at[r] /\ want'[r] = want[r]
        /\ seen'[r] = seen[r] /\ answers'[r] = answers[r]
        /\ visited'[r] = visited[r] /\ due'[r] = due[r]
    BY <1>8, <1>0, ReaderFacts DEF Allocate, Traversing, At, Goto, history
  <2>2. ASSUME NEW m \in seen[r] PROVE key'[m] = key[m] /\ next'[m] = next[m]
    BY <1>8, <1>0, <2>1, <2>2, SeenNodes DEF Allocate, At, Owning
  <2> QED
    BY <2>1, <2>2 DEF Bystander
<1>9. ASSUME NEW a \in Admins, NEW k \in Keys, Want(a, k) PROVE Bystander(r)
  BY <1>9, <1>0, ReaderFacts DEF Want, Bystander, Traversing, At, Goto, list, history, ReadSide
<1>10. ASSUME NEW a \in Admins, LockToWrite(a) PROVE Bystander(r)
  BY <1>10, <1>0, ReaderFacts DEF LockToWrite, Bystander, Traversing, At, Goto, list, history, ReadSide
<1>11. ASSUME NEW a \in Admins, Synchronize(a) PROVE Bystander(r)
  BY <1>11, <1>0, ReaderFacts DEF Synchronize, Bystander, Traversing, At, Goto, list, history, ReadSide
<1>12. ASSUME NEW a \in Admins, GracePeriodEnds(a) PROVE Bystander(r)
  BY <1>12, <1>0, ReaderFacts DEF GracePeriodEnds, Bystander, Traversing, At, Goto, list, history, ReadSide
<1>13. ASSUME NEW a \in Admins, Kfree(a) PROVE Bystander(r)
  <2>1. /\ Traversing(r) /\ rules_list' = rules_list
        /\ pc'[r] = pc[r] /\ at'[r] = at[r] /\ want'[r] = want[r]
        /\ seen'[r] = seen[r] /\ answers'[r] = answers[r]
        /\ visited'[r] = visited[r] /\ due'[r] = due[r]
    BY <1>13, <1>0, ReaderFacts DEF Kfree, Traversing, At, Goto, history
  <2>2. ASSUME NEW m \in seen[r] PROVE key'[m] = key[m] /\ next'[m] = next[m]
    BY <1>13, <1>0, <2>1, <2>2, SeenNodes DEF Kfree, At, Owning
  <2> QED
    BY <2>1, <2>2 DEF Bystander
<1>14. CASE UNCHANGED vars
  BY <1>14 DEF vars, list, readers, history, Traversing, Bystander
<1> QED
  BY <1>1, <1>2, <1>3, <1>4, <1>5, <1>6, <1>7, <1>8, <1>9, <1>10, <1>11, <1>12, <1>13, <1>14
  DEF Next, ReadStep, WriteStep, SpinForEver
-----------------------------------------------------------------------------
(* A traversal answers as if it had taken no time.                         *)

\* What r may still meet, from where it is: nothing before a linked node of C matches;
\* an unlinked one matched when it was the first to, or leads on to C, or nothing
\* matched when it led to the end.
Ahead(r, C) ==
    /\ at[r] \in C \cup {Anchor}
    /\ \A n \in C \cap Listed, m \in Listed : Before(rules_list, m, n) => key[m] # want[r]
    /\ \A n \in C \ Listed :
        IF key[n] = want[r] THEN n \in answers[r]
        ELSE next[n] \in C \/ (next[n] = Anchor /\ Anchor \in answers[r])

\* The search of r is on its way to one of its answers.
OnItsWay(r) ==
    /\ Found(rules_list, key, want[r]) \in answers[r]
    /\ pc[r] = "load" => at[r] = Anchor \/ key[at[r]] # want[r]
    /\ pc[r] = "unlock" => at[r] \in answers[r]
    /\ pc[r] # "unlock" => \E C \in SUBSET seen[r] : Ahead(r, C)

Searching == \A r \in Readers : Traversing(r) => OnItsWay(r)

\* What does not touch the list, nor what r has seen, does not touch r.
LEMMA Undisturbed ==
    ASSUME NodesInv, Searching, NEW r \in Readers, Bystander(r)
    PROVE  OnItsWay(r)'
<1>0. /\ Traversing(r) /\ rules_list' = rules_list
      /\ pc'[r] = pc[r] /\ at'[r] = at[r] /\ want'[r] = want[r]
      /\ seen'[r] = seen[r] /\ answers'[r] = answers[r]
      /\ \A n \in seen[r] : key'[n] = key[n] /\ next'[n] = next[n]
  BY DEF Bystander
<1>1. OnItsWay(r) /\ Listed' = Listed /\ Listed \subseteq seen[r]
      /\ at[r] \in seen[r] \cup {Anchor} /\ rules_list \in Seq(Nodes)
  BY <1>0 DEF Searching, NodesInv, Coverage, Listed, TypeOK
<1>2. Found(rules_list', key', want'[r]) = Found(rules_list, key, want[r])
  BY <1>0, <1>1, FoundByKeys DEF Listed
<1>3. pc'[r] = "load" => at'[r] = Anchor \/ key'[at'[r]] # want'[r]
  BY <1>0, <1>1 DEF OnItsWay
<1>4. ASSUME pc'[r] # "unlock" PROVE \E C \in SUBSET seen'[r] : Ahead(r, C)'
  <2>1. PICK C \in SUBSET seen[r] : Ahead(r, C)
    BY <1>0, <1>1, <1>4 DEF OnItsWay
  <2>2. Ahead(r, C)'
    BY <1>0, <1>1, <2>1 DEF Ahead
  <2> QED
    BY <1>0, <2>1, <2>2
<1> QED
  BY <1>0, <1>1, <1>2, <1>3, <1>4 DEF OnItsWay

\* Load: the node after those that did not match, or the end, where none did.
LEMMA LoadSearching ==
    ASSUME NodesInv, Searching, NEW r \in Readers, Load(r)
    PROVE  OnItsWay(r)'
<1> DEFINE n == at[r]
<1>1. /\ pc[r] = "load" /\ Traversing(r) /\ OnItsWay(r)
      /\ rules_list' = rules_list /\ key' = key /\ next' = next /\ want' = want
      /\ seen' = seen /\ answers' = answers /\ Listed' = Listed
      /\ at'[r] = Forward(n)
      /\ pc'[r] = IF Forward(n) = Anchor THEN "unlock" ELSE "examine"
  BY DEF Load, At, Goto, Traversing, Searching, list, history, Listed, NodesInv, TypeOK
<1>2. /\ rules_list \in Seq(Nodes) /\ IsInjective(rules_list)
      /\ Listed \subseteq seen[r] /\ n \in seen[r] \cup {Anchor}
      /\ seen[r] \subseteq Nodes /\ Forward(n) \in seen[r] \cup {Anchor}
      /\ Anchor \notin Listed
  BY <1>1, ForwardIsSeen, OperatorTypes DEF NodesInv, TypeOK, Coverage
<1>3. PICK C \in SUBSET seen[r] : Ahead(r, C)
  BY <1>1 DEF OnItsWay
<1>4. n = Anchor \/ (n \in C /\ key[n] # want[r])
  BY <1>1, <1>3 DEF Ahead, OnItsWay
<1>5. ASSUME n \in Listed \cup {Anchor}
      PROVE  /\ Forward(n) = Anchor => \A m \in Listed : key[m] # want[r]
             /\ Forward(n) # Anchor =>
                    /\ Forward(n) \in Listed
                    /\ \A m \in Listed : Before(rules_list, m, Forward(n)) => key[m] # want[r]
  <2>1. ASSUME NEW m \in Listed, m = n \/ Before(rules_list, m, n) PROVE key[m] # want[r]
    <3>1. ~Before(rules_list, m, Anchor)
      BY <1>2, ElementOfSeq, NodesAssumption DEF Before
    <3>2. n # Anchor
      BY <1>2, <2>1, <3>1
    <3> QED
      BY <1>3, <1>4, <1>5, <2>1, <3>2 DEF Ahead
  <2>2. Forward(n) = Successor(n)
    BY <1>5 DEF Forward
  <2> QED
    BY <1>2, <1>5, <2>1, <2>2, SuccessorFacts
<1>6. ASSUME n \notin Listed \cup {Anchor}
      PROVE  Forward(n) \in C \/ (Forward(n) = Anchor /\ Anchor \in answers[r])
  BY <1>3, <1>4, <1>6 DEF Ahead, Forward
<1>7. CASE Forward(n) = Anchor
  <2>1. Anchor \in answers[r]
    <3>1. CASE n \in Listed \cup {Anchor}
      <4>1. Found(rules_list, key, want[r]) = Anchor
        BY <1>2, <1>5, <1>7, <3>1, FoundFacts DEF Listed
      <4> QED
        BY <1>1, <4>1 DEF OnItsWay
    <3>2. CASE n \notin Listed \cup {Anchor}
      BY <1>2, <1>6, <1>7, <3>2, NodesAssumption
    <3> QED
      BY <3>1, <3>2
  <2> QED
    BY <1>1, <1>7, <2>1 DEF OnItsWay
<1>8. CASE Forward(n) # Anchor
  <2>1. PICK f : f = Forward(n)
    OBVIOUS
  <2>2. C \cup {f} \in SUBSET seen[r]
    BY <1>2, <1>8, <2>1
  <2>3. Ahead(r, C \cup {f})'
    <3>1. CASE n \in Listed \cup {Anchor}
      BY <1>1, <1>3, <1>5, <1>8, <2>1, <3>1 DEF Ahead
    <3>2. CASE n \notin Listed \cup {Anchor}
      BY <1>1, <1>3, <1>6, <1>8, <2>1, <3>2 DEF Ahead
    <3> QED
      BY <3>1, <3>2
  <2> QED
    BY <1>1, <1>8, <2>2, <2>3 DEF OnItsWay
<1> QED
  BY <1>7, <1>8

\* Examine: a node that matches is an answer.
LEMMA ExamineSearching ==
    ASSUME NodesInv, Searching, NEW r \in Readers, Examine(r)
    PROVE  OnItsWay(r)'
<1>1. /\ pc[r] = "examine" /\ Traversing(r) /\ OnItsWay(r)
      /\ rules_list' = rules_list /\ key' = key /\ next' = next /\ want' = want /\ at' = at
      /\ seen' = seen /\ answers' = answers /\ Listed' = Listed
      /\ pc'[r] = IF key[at[r]] = want[r] THEN "unlock" ELSE "load"
  BY DEF Examine, At, Goto, Traversing, Searching, list, history, Listed, NodesInv, TypeOK
<1>2. rules_list \in Seq(Nodes) /\ IsInjective(rules_list) /\ at[r] # Anchor /\ Listed \subseteq Nodes
  BY <1>1, OperatorTypes DEF NodesInv, TypeOK, Coverage
<1>3. PICK C \in SUBSET seen[r] : Ahead(r, C)
  BY <1>1 DEF OnItsWay
<1>4. at[r] \in C
  BY <1>2, <1>3 DEF Ahead
<1>5. CASE key[at[r]] = want[r]
  <2>1. at[r] \in answers[r]
    <3>1. CASE at[r] \in Listed
      <4>1. \A m : Before(rules_list, m, at[r]) => m \in Listed
        BY <1>2, LenProperties DEF Before, Listed, ToSet
      <4>2. Found(rules_list, key, want[r]) = at[r]
        BY <1>2, <1>3, <1>4, <1>5, <3>1, <4>1, FoundFacts DEF Ahead, Listed
      <4> QED
        BY <1>1, <4>2 DEF OnItsWay
    <3>2. CASE at[r] \notin Listed
      BY <1>3, <1>4, <1>5, <3>2 DEF Ahead
    <3> QED
      BY <3>1, <3>2
  <2> QED
    BY <1>1, <1>5, <2>1 DEF OnItsWay
<1>6. CASE key[at[r]] # want[r]
  <2>1. Ahead(r, C)'
    BY <1>1, <1>3 DEF Ahead
  <2> QED
    BY <1>1, <1>3, <1>6, <2>1 DEF OnItsWay
<1> QED
  BY <1>5, <1>6

\* Publish: the new node comes after all others.
LEMMA PublishSearching ==
    ASSUME NodesInv, Searching, NEW a \in Admins, Publish(a), NEW r \in Readers, Traversing(r)'
    PROVE  OnItsWay(r)'
<1>1. PICK x : x = at[a]
  OBVIOUS
<1>2. x \in Nodes \ Listed /\ Owning(a) /\ pc[a] = "publish"
  BY <1>1, ReaderFacts DEF Publish, NodesInv, Ownership, Owning, At
<1>3. r # a /\ Traversing(r) /\ pc'[r] = pc[r] /\ at'[r] = at[r] /\ want' = want /\ key' = key
      /\ next' = next
  BY ReaderFacts DEF Publish, Traversing, At, Goto, ReadSide, NodesInv, TypeOK
<1>4. /\ OnItsWay(r) /\ Listed \subseteq seen[r] /\ at[r] \in seen[r] \cup {Anchor} /\ x \notin seen[r]
  BY <1>1, <1>2, <1>3, SeenNodes DEF Searching, NodesInv, Coverage
<1>5. /\ rules_list' = Append(rules_list, x) /\ Witness(rules_list')
      /\ Listed' = Listed \cup {x}
      /\ \A m, n : Before(rules_list', m, n) => Before(rules_list, m, n) \/ n = x
  BY <1>1, <1>2, AppendList DEF Publish, NodesInv, TypeOK, Listed
<1>6. /\ seen[r] \subseteq seen'[r] /\ answers[r] \subseteq answers'[r]
      /\ Found(rules_list', key', want'[r]) \in answers'[r]
  BY <1>3, <1>5 DEF Witness
<1>7. ASSUME pc'[r] # "unlock" PROVE \E C \in SUBSET seen'[r] : Ahead(r, C)'
  <2>1. PICK C \in SUBSET seen[r] : Ahead(r, C)
    BY <1>3, <1>4, <1>7 DEF OnItsWay
  <2>2. C \cap Listed' = C \cap Listed /\ C \ Listed' = C \ Listed /\ x \notin C
    BY <1>4, <1>5, <2>1
  <2>3. ASSUME NEW n \in C \cap Listed', NEW m \in Listed', Before(rules_list', m, n)
        PROVE  key'[m] # want'[r]
    <3>1. Before(rules_list, m, n) /\ n \in C \cap Listed
      BY <1>5, <2>2, <2>3
    <3>2. m \in Listed
      BY <3>1, LenProperties DEF Before, Listed, ToSet, NodesInv, TypeOK
    <3> QED
      BY <1>3, <2>1, <3>1, <3>2 DEF Ahead
  <2>4. Ahead(r, C)'
    BY <1>3, <1>6, <2>1, <2>2, <2>3 DEF Ahead
  <2> QED
    BY <1>6, <2>1, <2>4
<1> QED
  BY <1>3, <1>4, <1>6, <1>7 DEF OnItsWay

\* Unlink: a node that was the first to match is an answer, another leads on.
LEMMA UnlinkSearching ==
    ASSUME NodesInv, Searching, NEW a \in Admins, Unlink(a), NEW r \in Readers, Traversing(r)'
    PROVE  OnItsWay(r)'
<1>1. /\ rules_list \in Seq(Nodes) /\ IsInjective(rules_list) /\ Listed \subseteq Nodes
      /\ Anchor \notin Listed /\ next \in [Nodes -> Nodes \cup {Anchor}]
  BY OperatorTypes DEF NodesInv, TypeOK
<1>2. PICK x \in Listed \cup {Anchor} : x = Found(rules_list, key, want[a])
  BY OperatorTypes DEF NodesInv
<1>3. r # a /\ Traversing(r) /\ pc'[r] = pc[r] /\ at'[r] = at[r] /\ want'[r] = want[r] /\ key' = key
  BY ReaderFacts DEF Unlink, Traversing, At, Goto, AfterUnlink, NodesInv, TypeOK
<1>4. OnItsWay(r) /\ Listed \subseteq seen[r] /\ at[r] \in seen[r] \cup {Anchor} /\ seen[r] \subseteq Nodes
  BY <1>3 DEF Searching, NodesInv, Coverage, TypeOK
<1>5. CASE x = Anchor
  <2>1. Bystander(r)
    BY <1>2, <1>3, <1>5 DEF Unlink, history, Bystander
  <2> QED
    BY <2>1, Undisturbed
<1>6. CASE x # Anchor
  <2>1. /\ rules_list' = Without(x) /\ next' = [next EXCEPT ![x] = Kept(x)]
        /\ Witness(rules_list')
    BY <1>2, <1>6 DEF Unlink
  <2>2. /\ Listed' = Listed \ {x}
        /\ \A m, n : Before(rules_list', m, n) => Before(rules_list, m, n)
    BY <1>1, <1>2, <1>6, <2>1, WithoutFacts DEF Listed
  <2>3. /\ seen[r] \subseteq seen'[r] /\ answers[r] \subseteq answers'[r]
        /\ Found(rules_list', key', want'[r]) \in answers'[r]
    BY <1>3, <2>1 DEF Witness
  <2>4. \A n \in Nodes : next'[n] = IF n = x THEN Successor(x) ELSE next[n]
    BY <1>1, <2>1 DEF Kept
  <2>5. \A m, n : Before(rules_list, m, n) => m \in Listed /\ n \in Listed
    BY <1>1, LenProperties DEF Before, Listed, ToSet
  <2>6. ASSUME pc'[r] # "unlock" PROVE \E C \in SUBSET seen'[r] : Ahead(r, C)'
    <3>1. PICK C \in SUBSET seen[r] : Ahead(r, C)
      BY <1>3, <1>4, <2>6 DEF OnItsWay
    <3>2. PICK f : f = Successor(x)
      OBVIOUS
    <3>3. \A n \in C \ Listed : n # x /\ n \in Nodes
      BY <1>2, <1>4, <1>6, <3>1
    <3>4. \A n \in C \ Listed :
            IF key'[n] = want'[r] THEN n \in answers'[r]
            ELSE next'[n] \in C \/ (next'[n] = Anchor /\ Anchor \in answers'[r])
      BY <1>3, <2>3, <2>4, <3>1, <3>3 DEF Ahead
    <3>5. \A n \in C \cap Listed, m \in Listed' : Before(rules_list', m, n) => key'[m] # want'[r]
      BY <1>3, <2>2, <3>1 DEF Ahead
    <3>6. CASE x \notin C \/ key[x] = want[r]
      <4>1. x \in C => x \in answers'[r]
        <5>1. x \in C => Found(rules_list, key, want[r]) = x
          BY <1>1, <1>2, <1>6, <2>5, <3>1, <3>6, FoundFacts DEF Ahead, Listed
        <5> QED
          BY <1>4, <2>3, <5>1 DEF OnItsWay
      <4>2. Ahead(r, C)'
        BY <1>3, <2>2, <3>1, <3>4, <3>5, <3>6, <4>1 DEF Ahead
      <4> QED
        BY <2>3, <3>1, <4>2
    <3>7. CASE x \in C /\ key[x] # want[r]
      <4>1. ASSUME NEW m \in Listed, m = x \/ Before(rules_list, m, x) PROVE key[m] # want[r]
        BY <1>2, <1>6, <3>1, <3>7, <4>1 DEF Ahead
      <4>2. CASE f = Anchor
        <5>1. \A m \in Listed : key[m] # want[r]
          BY <1>1, <1>2, <3>2, <4>1, <4>2, SuccessorFacts
        <5>2. Anchor \in answers'[r]
          <6>1. Found(rules_list, key, want[r]) = Anchor
            BY <1>1, <5>1, FoundFacts DEF Listed
          <6> QED
            BY <1>4, <2>3, <6>1 DEF OnItsWay
        <5>3. Ahead(r, C)'
          BY <1>2, <1>3, <1>4, <2>2, <2>4, <3>1, <3>2, <3>4, <3>5, <3>7, <4>2, <5>2 DEF Ahead
        <5> QED
          BY <2>3, <3>1, <5>3
      <4>3. CASE f # Anchor
        <5>1. f \in Listed /\ \A m \in Listed : Before(rules_list, m, f) => key[m] # want[r]
          BY <1>1, <1>2, <3>2, <4>1, <4>3, SuccessorFacts
        <5>2. C \cup {f} \in SUBSET seen'[r]
          BY <1>4, <2>3, <5>1
        <5>3. \A m \in Listed' : Before(rules_list', m, f) => key'[m] # want'[r]
          BY <1>3, <2>2, <5>1
        <5>4. ASSUME NEW n \in (C \cup {f}) \ Listed'
              PROVE  IF key'[n] = want'[r] THEN n \in answers'[r]
                     ELSE next'[n] \in C \cup {f} \/ (next'[n] = Anchor /\ Anchor \in answers'[r])
          <6>1. CASE n = x
            BY <1>1, <1>2, <1>3, <1>6, <2>4, <3>2, <3>7, <6>1
          <6>2. CASE n # x
            <7>1. n \in C \ Listed
              BY <2>2, <5>1, <6>2
            <7> QED
              BY <3>4, <7>1
          <6> QED
            BY <6>1, <6>2
        <5>5. Ahead(r, C \cup {f})'
          BY <1>3, <2>2, <3>1, <3>5, <5>3, <5>4 DEF Ahead
        <5> QED
          BY <5>2, <5>5
      <4> QED
        BY <4>2, <4>3
    <3> QED
      BY <3>6, <3>7
  <2> QED
    BY <1>3, <1>4, <2>3, <2>6 DEF OnItsWay
<1> QED
  BY <1>5, <1>6

\* A traversal that begins has one answer so far.
LEMMA BeginSearching ==
    ASSUME NodesInv, NEW r \in Readers, Begin(r), pc[r] \in {"enter", "lock"},
           rules_list' = rules_list, key' = key, at' = at, want' = want
    PROVE  OnItsWay(r)'
<1>1. at[r] = Anchor /\ pc'[r] = "load" /\ answers'[r] = {Found(rules_list, key, want[r])}
  BY DEF Begin, Goto, NodesInv, Ownership, TypeOK
<1>2. Ahead(r, {})'
  BY <1>1 DEF Ahead
<1> QED
  BY <1>1, <1>2 DEF OnItsWay

\* Every search stays on its way.
LEMMA SearchingStep ==
    ASSUME NodesInv, Searching, [Next]_vars
    PROVE  Searching'
<1> SUFFICES ASSUME NEW r \in Readers, Traversing(r)' PROVE OnItsWay(r)'
  BY DEF Searching
<1>1. CASE Bystander(r)
  BY <1>1, Undisturbed
<1>2. CASE EnterRcu(r)
  BY <1>2, BeginSearching DEF EnterRcu, At, list
<1>3. CASE EnterLocked(r)
  BY <1>3, BeginSearching DEF EnterLocked, At, list
<1>4. CASE Load(r)
  BY <1>4, LoadSearching
<1>5. CASE Examine(r)
  BY <1>5, ExamineSearching
<1>6. ASSUME NEW a \in Admins, Publish(a) PROVE OnItsWay(r)'
  BY <1>6, PublishSearching
<1>7. ASSUME NEW a \in Admins, Unlink(a) PROVE OnItsWay(r)'
  BY <1>7, UnlinkSearching
<1> QED
  BY <1>1, <1>2, <1>3, <1>4, <1>5, <1>6, <1>7, TraversalSteps

\* registry_data.c:146, :153: with or without the lock, and whatever is added and removed
\* under it, a traversal ends with what an immediate search would have found at some
\* moment between its beginning and its end.
THEOREM SearchesAreAtomic == Spec => []TraversalIsAtomic
<1>1. Init => Searching
  BY DEF Init, Searching, Traversing
<1>2. Searching => TraversalIsAtomic
  BY DEF Searching, OnItsWay, TraversalIsAtomic, Traversing
<1> QED
  BY NodesInvariant, <1>1, <1>2, SearchingStep, PTL DEF Spec
-----------------------------------------------------------------------------
(* A traversal ends, and misses no node that stays.                        *)

\* The forward pointers lead upwards in rank, from the head's on; from below a node that
\* is still due none leads past it. What r has examined lies behind it, what is due ahead.
InOrder(r, rank) ==
    LET sources == seen[r] \cup {Anchor}
    IN  /\ \A n \in seen[r] : rank[Anchor] < rank[n]
        /\ \A n \in sources : Forward(n) # Anchor => rank[n] < rank[Forward(n)]
        /\ \A d \in due[r], n \in sources : rank[n] = rank[d] => n = d
        /\ \A d \in due[r], n \in sources :
            rank[n] < rank[d] => Forward(n) # Anchor /\ rank[Forward(n)] <= rank[d]
        /\ IF pc[r] = "load"
           THEN /\ \A v \in visited[r] : rank[v] <= rank[at[r]]
                /\ \A d \in due[r] : rank[at[r]] < rank[d]
           ELSE /\ \A v \in visited[r] : rank[v] < rank[at[r]]
                /\ \A d \in due[r] : rank[at[r]] <= rank[d]

Ranks == [Nodes \cup {Anchor} -> Int]

\* The traversal of r makes its way along the list.
OnwardOnly(r) ==
    /\ visited[r] \subseteq seen[r] /\ due[r] \subseteq Listed
    /\ pc[r] = "unlock" /\ want[r] = Every => due[r] = {}
    /\ pc[r] # "unlock" => \E rank \in Ranks : InOrder(r, rank)

Walking == \A r \in Readers : Traversing(r) => OnwardOnly(r)

\* What the types make of a traversal, and of where pointers lead from what it has seen.
LEMMA WalkFacts ==
    ASSUME NodesInv, NEW r \in Readers, Traversing(r)
    PROVE  /\ seen[r] \subseteq Nodes /\ Listed \subseteq seen[r] /\ Anchor \notin Nodes
           /\ at[r] \in seen[r] \cup {Anchor}
           /\ \A n \in seen[r] \cup {Anchor} : Forward(n) \in seen[r] \cup {Anchor}
<1>1. TypeOK /\ Coverage
  BY DEF NodesInv
<1>2. \A n \in Listed \cup {Anchor} : Forward(n) \in Listed \cup {Anchor}
  BY <1>1, SuccessorFacts DEF TypeOK, Forward
<1>3. \A n \in seen[r] \ Listed : n # Anchor => Forward(n) \in seen[r] \cup {Anchor}
  BY <1>1 DEF Coverage, Forward
<1> QED
  BY <1>1, <1>2, <1>3, NodesAssumption DEF TypeOK, Coverage

\* The node after a linked one has the next place.
LEMMA SuccessorPlace ==
    ASSUME rules_list \in Seq(Nodes), IsInjective(rules_list), NEW n \in Listed \cup {Anchor}
    PROVE  /\ Len(rules_list) \in Nat /\ Place(n) \in 0 .. Len(rules_list)
           /\ n # Anchor => Place(n) # 0
           /\ \A m \in Listed \cup {Anchor} : Place(m) = Place(n) => m = n
           /\ Successor(n) = Anchor <=> Place(n) = Len(rules_list)
           /\ Successor(n) # Anchor => Place(Successor(n)) = Place(n) + 1
<1> DEFINE s == rules_list
<1>1. Len(s) \in Nat /\ DOMAIN s = 1 .. Len(s) /\ \A i \in 1 .. Len(s) : s[i] \in Nodes
  BY LenProperties, ElementOfSeq
<1>2. \A i, j \in 1 .. Len(s) : s[i] = s[j] => i = j
  BY <1>1 DEF IsInjective
<1>3. Place(Anchor) = 0 /\ Anchor \notin Nodes
  BY NodesAssumption DEF Place
<1>4. \A m \in Listed : m # Anchor /\ Place(m) \in 1 .. Len(s) /\ s[Place(m)] = m
  BY PlaceFacts
<1>5. Place(n) \in 0 .. Len(s) /\ (n # Anchor => Place(n) # 0)
  BY <1>1, <1>3, <1>4
<1>6. ASSUME NEW m \in Listed \cup {Anchor}, Place(m) = Place(n) PROVE m = n
  BY <1>1, <1>3, <1>4, <1>6
<1>7. CASE Place(n) = Len(s)
  BY <1>1, <1>5, <1>6, <1>7 DEF Successor
<1>8. CASE Place(n) # Len(s)
  <2>1. Place(n) + 1 \in 1 .. Len(s) /\ Successor(n) = s[Place(n) + 1]
    BY <1>1, <1>5, <1>8 DEF Successor
  <2>2. Successor(n) \in Listed
    BY <1>1, <2>1 DEF Listed, ToSet
  <2>3. Place(Successor(n)) = Place(n) + 1
    BY <1>2, <1>4, <2>1, <2>2
  <2> QED
    BY <1>1, <1>4, <1>5, <1>6, <1>8, <2>2, <2>3
<1> QED
  BY <1>7, <1>8

\* list_add_tail() changes the pointer of the last node, or of the head, and no other.
LEMMA PublishForward ==
    ASSUME NodesInv, NEW a \in Admins, Publish(a), NEW x, x = at[a]
    PROVE  \E last \in Listed \cup {Anchor} :
                /\ Forward(last) = Anchor /\ Forward(x)' = Anchor
                /\ \A n \in (Nodes \cup {Anchor}) \ {x} :
                    Forward(n)' = IF n = last THEN x ELSE Forward(n)
<1>1. /\ rules_list \in Seq(Nodes) /\ IsInjective(rules_list)
      /\ x \in Nodes \ Listed /\ rules_list' = Append(rules_list, x) /\ next' = next
  BY ReaderFacts DEF Publish, NodesInv, TypeOK, Ownership, Owning, At
<1>2. /\ rules_list' \in Seq(Nodes) /\ IsInjective(rules_list')
      /\ Listed' = Listed \cup {x} /\ Len(rules_list') = Len(rules_list) + 1
      /\ \A i \in 1 .. Len(rules_list) : rules_list'[i] = rules_list[i]
      /\ rules_list'[Len(rules_list) + 1] = x
  BY <1>1, AppendList, AppendProperties DEF Listed
<1>3. Len(rules_list) \in Nat /\ Anchor \notin Nodes /\ Listed \subseteq Nodes
  BY <1>1, OperatorTypes, LenProperties, NodesAssumption DEF NodesInv
<1>4. ASSUME NEW n \in Listed \cup {Anchor} PROVE Place(n)' = Place(n)
  <2>1. CASE n = Anchor
    BY <2>1 DEF Place
  <2>2. CASE n # Anchor
    <3>1. n \in Listed /\ n \in Listed'
      BY <1>2, <2>2
    <3>2. Place(n) \in 1 .. Len(rules_list) /\ rules_list[Place(n)] = n
      BY <1>1, <3>1, PlaceFacts
    <3>3. Place(n)' \in 1 .. Len(rules_list') /\ rules_list'[Place(n)'] = n
      <4>1. DOMAIN rules_list' = 1 .. Len(rules_list')
        BY <1>2, LenProperties
      <4>2. \E i \in DOMAIN rules_list' : rules_list'[i] = n
        BY <3>1 DEF Listed, ToSet
      <4> QED
        BY <2>2, <4>1, <4>2 DEF Place
    <3>4. \A i, j \in 1 .. Len(rules_list') : rules_list'[i] = rules_list'[j] => i = j
      BY <1>2, LenProperties DEF IsInjective
    <3> QED
      BY <1>2, <1>3, <3>2, <3>3, <3>4
  <2> QED
    BY <2>1, <2>2
<1>5. \A n \in Listed \cup {Anchor} :
        /\ Place(n) \in 0 .. Len(rules_list)
        /\ \A m \in Listed \cup {Anchor} : Place(m) = Place(n) => m = n
        /\ Forward(n) = IF Place(n) = Len(rules_list) THEN Anchor ELSE rules_list[Place(n) + 1]
  BY <1>1, SuccessorPlace DEF Forward, Successor
<1>6. ASSUME NEW n \in Listed \cup {Anchor}
      PROVE  Forward(n)' = IF Place(n) = Len(rules_list) THEN x ELSE Forward(n)
  <2>1. Forward(n)' = rules_list'[Place(n) + 1]
    BY <1>2, <1>3, <1>4, <1>5 DEF Forward, Successor
  <2> QED
    BY <1>2, <1>3, <1>5, <2>1
<1>7. \A n \in (Nodes \cup {Anchor}) \ (Listed \cup {Anchor, x}) : Forward(n)' = Forward(n)
  BY <1>1, <1>2 DEF Forward
<1>8. Forward(x)' = Anchor
  <2>1. x \in Listed' /\ x # Anchor
    BY <1>1, <1>2, <1>3
  <2>2. DOMAIN rules_list' = 1 .. Len(rules_list')
    BY <1>2, LenProperties
  <2>3. \A i \in DOMAIN rules_list' : rules_list'[i] = x <=> i = Len(rules_list')
    BY <1>2, <1>3, <2>2 DEF IsInjective
  <2>4. Place(x)' = Len(rules_list')
    BY <1>2, <1>3, <2>1, <2>2, <2>3 DEF Place
  <2> QED
    BY <2>1, <2>4 DEF Forward, Successor
<1>9. \E last \in Listed \cup {Anchor} : Place(last) = Len(rules_list)
  <2>1. CASE Len(rules_list) = 0
    BY <2>1 DEF Place
  <2>2. CASE Len(rules_list) # 0
    <3>1. Len(rules_list) \in DOMAIN rules_list
      BY <1>1, <1>3, <2>2, LenProperties
    <3> DEFINE last == rules_list[Len(rules_list)]
    <3>2. last \in Listed
      BY <3>1 DEF Listed, ToSet
    <3>3. Place(last) \in 1 .. Len(rules_list) /\ rules_list[Place(last)] = last
      BY <1>1, <3>2, PlaceFacts
    <3>4. Place(last) = Len(rules_list)
      BY <1>1, <3>1, <3>3, LenProperties DEF IsInjective
    <3> QED
      BY <3>2, <3>4
  <2> QED
    BY <2>1, <2>2
<1>10. PICK last \in Listed \cup {Anchor} : Place(last) = Len(rules_list)
  BY <1>9
<1>11. \A n \in Listed \cup {Anchor} : Place(n) = Len(rules_list) <=> n = last
  BY <1>5, <1>10
<1>12. Forward(last) = Anchor
  BY <1>5, <1>10
<1> QED
  BY <1>6, <1>7, <1>8, <1>11, <1>12

\* list_del() leads what led to the node past it, to where the node itself still leads.
LEMMA UnlinkForward ==
    ASSUME NodesInv, NEW a \in Admins, Unlink(a), NEW x \in Listed,
           x = Found(rules_list, key, want[a])
    PROVE  /\ Listed' = Listed \ {x}
           /\ \A n \in Nodes \cup {Anchor} :
                Forward(n)' = Forward(n) \/ (Forward(n) = x /\ Forward(n)' = Forward(x))
<1> DEFINE len == Len(rules_list)
           p == Place(x)
<1>1. /\ rules_list \in Seq(Nodes) /\ IsInjective(rules_list) /\ x \in Nodes /\ x # Anchor
      /\ next \in [Nodes -> Nodes \cup {Anchor}] /\ Anchor \notin Nodes /\ Listed \subseteq Nodes
  BY OperatorTypes, NodesAssumption DEF NodesInv, TypeOK
<1>2. rules_list' = RemoveAt(rules_list, p) /\ next' = [next EXCEPT ![x] = Successor(x)]
  BY <1>1 DEF Unlink, Without, Kept
<1>3. len \in Nat /\ p \in 1 .. len /\ rules_list[p] = x
  BY <1>1, PlaceFacts, LenProperties
<1>4. /\ rules_list' \in Seq(Nodes) /\ IsInjective(rules_list') /\ Listed' = Listed \ {x}
      /\ Len(rules_list') = len - 1
      /\ \A k \in 1 .. len - 1 :
            rules_list'[k] = IF k < p THEN rules_list[k] ELSE rules_list[k + 1]
  BY <1>1, <1>2, <1>3, RemoveAtElements, RemoveAtList DEF Listed
<1>5. \A n \in Listed \cup {Anchor} :
        /\ Place(n) \in 0 .. len /\ (n = x <=> Place(n) = p)
        /\ Forward(n) = IF Place(n) = len THEN Anchor ELSE rules_list[Place(n) + 1]
  BY <1>1, SuccessorPlace DEF Forward, Successor
<1> HIDE DEF len, p
<1>6. ASSUME NEW n \in Listed' \cup {Anchor}
      PROVE  Place(n)' = IF Place(n) < p THEN Place(n) ELSE Place(n) - 1
  <2>1. CASE n = Anchor
    BY <1>3, <2>1 DEF Place
  <2>2. CASE n # Anchor
    <3> DEFINE new == IF Place(n) < p THEN Place(n) ELSE Place(n) - 1
    <3>1. n \in Listed' /\ n \in Listed /\ n # x
      BY <1>4, <2>2
    <3>2. Place(n) \in 1 .. len /\ rules_list[Place(n)] = n /\ Place(n) # p
      BY <1>1, <1>5, <3>1, PlaceFacts DEF len
    <3>3. new \in 1 .. len - 1 /\ rules_list'[new] = n
      BY <1>3, <1>4, <3>2
    <3>4. DOMAIN rules_list' = 1 .. len - 1
      BY <1>4, LenProperties
    <3>5. Place(n)' \in 1 .. len - 1 /\ rules_list'[Place(n)'] = n
      <4>1. \E i \in DOMAIN rules_list' : rules_list'[i] = n
        BY <3>1 DEF Listed, ToSet
      <4> QED
        BY <2>2, <3>4, <4>1 DEF Place
    <3> HIDE DEF new
    <3>6. Place(n)' = new
      BY <1>4, <3>3, <3>4, <3>5 DEF IsInjective
    <3> QED
      BY <3>6 DEF new
  <2> QED
    BY <2>1, <2>2
<1>7. ASSUME NEW n \in Listed' \cup {Anchor}
      PROVE  Forward(n)' = Forward(n) \/ (Forward(n) = x /\ Forward(n)' = Forward(x))
  <2>1. n \in Listed \cup {Anchor} /\ n # x
    BY <1>1, <1>4
  <2>2. Forward(n)' = IF Place(n)' = len - 1 THEN Anchor ELSE rules_list'[Place(n)' + 1]
    BY <1>4 DEF Forward, Successor
  <2>3. CASE Place(n) + 1 = p
    <3>1. Forward(n) = x
      BY <1>3, <1>5, <2>1, <2>3
    <3>2. Forward(x) = IF p = len THEN Anchor ELSE rules_list[p + 1]
      BY <1>5
    <3>3. Place(n)' = p - 1
      BY <1>3, <1>5, <1>6, <2>1, <2>3
    <3>4. Forward(n)' = Forward(x)
      BY <1>3, <1>4, <2>2, <3>2, <3>3
    <3> QED
      BY <3>1, <3>4
  <2>4. CASE Place(n) + 1 < p
    BY <1>3, <1>4, <1>5, <1>6, <2>1, <2>2, <2>4
  <2>5. CASE Place(n) > p
    BY <1>3, <1>4, <1>5, <1>6, <2>1, <2>2, <2>5
  <2> QED
    BY <1>3, <1>5, <2>1, <2>3, <2>4, <2>5
<1>8. Forward(x)' = Forward(x)
  BY <1>1, <1>2, <1>4 DEF Forward
<1>9. \A n \in Nodes \ Listed : Forward(n)' = Forward(n)
  BY <1>1, <1>2, <1>4 DEF Forward
<1> QED
  BY <1>4, <1>7, <1>8, <1>9

\* A step that leaves the traversal alone.
LEMMA BystanderWalks ==
    ASSUME NodesInv, NEW r \in Readers, Bystander(r), OnwardOnly(r)
    PROVE  OnwardOnly(r)'
<1>1. /\ Traversing(r) /\ rules_list' = rules_list /\ pc'[r] = pc[r] /\ at'[r] = at[r]
      /\ want'[r] = want[r] /\ seen'[r] = seen[r] /\ visited'[r] = visited[r]
      /\ due'[r] = due[r] /\ Listed' = Listed
      /\ \A n \in seen[r] : next'[n] = next[n]
  BY DEF Bystander, Listed
<1>2. \A n \in seen[r] \cup {Anchor} : Forward(n)' = Forward(n)
  BY <1>1 DEF Forward, Successor, Place
<1>3. ASSUME NEW rank, InOrder(r, rank) PROVE InOrder(r, rank)'
  BY <1>1, <1>2, <1>3 DEF InOrder
<1> QED
  BY <1>1, <1>3 DEF OnwardOnly

\* A traversal that begins: the nodes rank as they stand.
LEMMA BeginWalks ==
    ASSUME NodesInv, NEW r \in Readers, Begin(r), at[r] = Anchor,
           rules_list' = rules_list, next' = next, at' = at
    PROVE  OnwardOnly(r)'
<1>1. /\ rules_list \in Seq(Nodes) /\ IsInjective(rules_list)
      /\ Listed \subseteq Nodes /\ Anchor \notin Nodes
  BY OperatorTypes, NodesAssumption DEF NodesInv, TypeOK
<1>2. /\ pc'[r] = "load" /\ at'[r] = Anchor /\ Listed' = Listed
      /\ seen'[r] = Listed /\ visited'[r] = {} /\ due'[r] = Listed
  BY DEF Begin, Goto, Listed, NodesInv, TypeOK
<1>3. \A n \in Listed \cup {Anchor} : Forward(n)' = Successor(n)
  BY <1>1, <1>2 DEF Forward, Successor, Place
<1>4. PICK rank \in Ranks : \A n \in Listed \cup {Anchor} : rank[n] = Place(n)
  <2> DEFINE places == [n \in Nodes \cup {Anchor} |->
                        IF n \in Listed \cup {Anchor} THEN Place(n) ELSE 0]
  <2>1. places \in Ranks /\ \A n \in Listed \cup {Anchor} : places[n] = Place(n)
    BY <1>1, SuccessorPlace DEF Ranks
  <2> QED
    BY <2>1
<1>5. /\ Place(Anchor) = 0 /\ Len(rules_list) \in Nat
      /\ \A n \in Listed \cup {Anchor} : Successor(n) \in Listed \cup {Anchor}
  BY <1>1, SuccessorFacts, SuccessorPlace DEF Place
<1>6. InOrder(r, rank)'
  <2>1. \A n \in Listed : rank[Anchor] < rank[n]
    BY <1>1, <1>4, <1>5, SuccessorPlace
  <2>2. \A n \in Listed \cup {Anchor} : Successor(n) # Anchor => rank[n] < rank[Successor(n)]
    BY <1>1, <1>4, <1>5, SuccessorPlace
  <2>3. \A d \in Listed, n \in Listed \cup {Anchor} : rank[n] = rank[d] => n = d
    BY <1>1, <1>4, <1>5, SuccessorPlace
  <2>4. ASSUME NEW d \in Listed, NEW n \in Listed \cup {Anchor}, rank[n] < rank[d]
        PROVE  Successor(n) # Anchor /\ rank[Successor(n)] <= rank[d]
    <3>1. Place(n) < Place(d) /\ Place(n) \in 0 .. Len(rules_list) /\ Place(d) \in 0 .. Len(rules_list)
      BY <1>1, <1>4, <2>4, SuccessorPlace
    <3>2. Successor(n) # Anchor /\ Place(Successor(n)) = Place(n) + 1
      BY <1>1, <1>5, <3>1, SuccessorPlace
    <3> QED
      BY <1>4, <1>5, <3>1, <3>2
  <2> QED
    BY <1>2, <1>3, <2>1, <2>2, <2>3, <2>4 DEF InOrder
<1> QED
  BY <1>2, <1>4, <1>6 DEF OnwardOnly

\* Load: one pointer further up, and not past what is due.
LEMMA LoadWalks ==
    ASSUME NodesInv, NEW r \in Readers, Load(r), OnwardOnly(r)
    PROVE  OnwardOnly(r)'
<1>1. /\ pc[r] = "load" /\ Traversing(r) /\ rules_list' = rules_list /\ next' = next
      /\ Listed' = Listed /\ want' = want /\ seen' = seen /\ visited' = visited /\ due' = due
      /\ at'[r] = Forward(at[r])
      /\ pc'[r] = IF Forward(at[r]) = Anchor THEN "unlock" ELSE "examine"
  BY DEF Load, At, Goto, Traversing, list, history, Listed, NodesInv, TypeOK
<1>2. PICK rank \in Ranks : InOrder(r, rank)
  BY <1>1 DEF OnwardOnly
<1>3. PICK f : f = Forward(at[r])
  OBVIOUS
<1>4. /\ at[r] \in seen[r] \cup {Anchor} /\ f \in seen[r] \cup {Anchor}
      /\ seen[r] \subseteq Nodes /\ Anchor \notin Nodes
      /\ visited[r] \subseteq seen[r] /\ due[r] \subseteq seen[r]
  BY <1>1, <1>3, WalkFacts DEF OnwardOnly
<1>5. \A n \in Nodes \cup {Anchor} : rank[n] \in Int /\ Forward(n)' = Forward(n)
  BY <1>1 DEF Ranks, Forward, Successor, Place
<1>6. CASE f = Anchor
  <2>1. due[r] = {}
    BY <1>1, <1>2, <1>3, <1>4, <1>6 DEF InOrder
  <2> QED
    BY <1>1, <1>3, <1>6, <2>1 DEF OnwardOnly
<1>7. CASE f # Anchor
  <2>1. \A v \in visited[r] : rank[v] < rank[f]
    BY <1>1, <1>2, <1>3, <1>4, <1>5, <1>7 DEF InOrder
  <2>2. \A d \in due[r] : rank[f] <= rank[d]
    BY <1>1, <1>2, <1>3, <1>4, <1>5, <1>7 DEF InOrder
  <2>3. pc'[r] = "examine" /\ at'[r] = f
    BY <1>1, <1>3, <1>7
  <2>4. InOrder(r, rank)'
    BY <1>1, <1>2, <1>4, <1>5, <2>1, <2>2, <2>3 DEF InOrder
  <2> QED
    BY <1>1, <1>2, <2>3, <2>4 DEF OnwardOnly
<1> QED
  BY <1>6, <1>7

\* Examine: the node is behind r from now on. No key stops a traversal that visits all.
LEMMA ExamineWalks ==
    ASSUME NodesInv, NEW r \in Readers, Examine(r), OnwardOnly(r)
    PROVE  OnwardOnly(r)'
<1>1. /\ pc[r] = "examine" /\ Traversing(r) /\ rules_list' = rules_list /\ next' = next
      /\ Listed' = Listed /\ want' = want /\ seen' = seen /\ at' = at
      /\ visited'[r] = visited[r] \cup {at[r]} /\ due'[r] = due[r] \ {at[r]}
      /\ pc'[r] = IF key[at[r]] = want[r] THEN "unlock" ELSE "load"
  BY DEF Examine, At, Goto, Traversing, list, Listed, NodesInv, TypeOK
<1>2. PICK rank \in Ranks : InOrder(r, rank)
  BY <1>1 DEF OnwardOnly
<1>3. /\ at[r] \in seen[r] /\ seen[r] \subseteq Nodes
      /\ visited[r] \subseteq seen[r] /\ due[r] \subseteq seen[r] /\ due[r] \subseteq Listed
  BY <1>1, WalkFacts DEF OnwardOnly, NodesInv, Coverage
<1>4. \A n \in Nodes \cup {Anchor} : rank[n] \in Int /\ Forward(n)' = Forward(n)
  BY <1>1 DEF Ranks, Forward, Successor, Place
<1>5. CASE key[at[r]] = want[r]
  <2>1. want[r] # Every
    BY <1>3, <1>5, NodesAssumption DEF NodesInv, TypeOK
  <2> QED
    BY <1>1, <1>3, <1>5, <2>1 DEF OnwardOnly
<1>6. CASE key[at[r]] # want[r]
  <2>1. \A v \in visited'[r] : rank[v] <= rank[at[r]]
    BY <1>1, <1>2, <1>3, <1>4 DEF InOrder
  <2>2. \A d \in due'[r] : rank[at[r]] < rank[d]
    BY <1>1, <1>2, <1>3, <1>4 DEF InOrder
  <2>3. InOrder(r, rank)'
    BY <1>1, <1>2, <1>3, <1>4, <1>6, <2>1, <2>2 DEF InOrder
  <2> QED
    BY <1>1, <1>2, <1>3, <1>6, <2>3 DEF OnwardOnly
<1> QED
  BY <1>5, <1>6

\* Publish: the new node ranks above the last one, behind which nothing is due.
LEMMA PublishWalks ==
    ASSUME NodesInv, NEW a \in Admins, Publish(a), NEW r \in Readers, Traversing(r)',
           Walking
    PROVE  OnwardOnly(r)'
<1>1. PICK x : x = at[a]
  OBVIOUS
<1>2. /\ r # a /\ Traversing(r) /\ pc'[r] = pc[r] /\ at'[r] = at[r] /\ want'[r] = want[r]
      /\ visited' = visited
  BY ReaderFacts DEF Publish, Witness, Traversing, At, Goto, ReadSide, NodesInv, TypeOK
<1>3. x \in Nodes \ Listed /\ Owning(a) /\ pc[a] = "publish"
  BY <1>1, ReaderFacts DEF Publish, NodesInv, Ownership, Owning, At
<1>4. /\ OnwardOnly(r) /\ x \notin seen[r] /\ seen[r] \subseteq Nodes /\ Listed \subseteq seen[r]
      /\ Anchor \notin Nodes /\ at[r] \in seen[r] \cup {Anchor}
      /\ \A n \in seen[r] \cup {Anchor} : Forward(n) \in seen[r] \cup {Anchor}
      /\ visited[r] \subseteq seen[r] /\ due[r] \subseteq Listed
  BY <1>1, <1>2, <1>3, SeenNodes, WalkFacts DEF Walking, OnwardOnly
<1>5. Listed' = Listed \cup {x} /\ ToSet(rules_list') = Listed \cup {x} /\ Witness(rules_list')
  BY <1>1, <1>3, AppendList DEF Publish, NodesInv, TypeOK, Listed
<1>6. seen'[r] = seen[r] \cup {x} /\ due'[r] = due[r]
  BY <1>2, <1>4, <1>5 DEF Witness
<1>7. ASSUME pc'[r] # "unlock" PROVE \E rank \in Ranks : InOrder(r, rank)'
  <2>1. PICK rank \in Ranks : InOrder(r, rank)
    BY <1>2, <1>4, <1>7 DEF OnwardOnly
  <2>2. PICK last \in Listed \cup {Anchor} :
            /\ Forward(last) = Anchor /\ Forward(x)' = Anchor
            /\ \A n \in (Nodes \cup {Anchor}) \ {x} :
                Forward(n)' = IF n = last THEN x ELSE Forward(n)
    BY <1>1, PublishForward
  <2> DEFINE higher == [rank EXCEPT ![x] = rank[last] + 1]
  <2>3. /\ higher \in Ranks /\ \A n \in Nodes \cup {Anchor} : rank[n] \in Int
        /\ higher[x] = rank[last] + 1 /\ \A n \in (Nodes \cup {Anchor}) \ {x} : higher[n] = rank[n]
    BY <1>3, <1>4, <2>1, <2>2 DEF Ranks
  <2>4. PICK up \in Ranks : up = higher
    BY <2>3
  <2> HIDE DEF higher
  <2>5. /\ up[x] = rank[last] + 1 /\ rank[last] \in Int
        /\ \A n \in seen[r] \cup {Anchor} : up[n] = rank[n] /\ rank[n] \in Int /\ n # x
    BY <1>3, <1>4, <2>2, <2>3, <2>4
  <2>6. /\ last \in seen[r] \cup {Anchor} /\ rank[Anchor] <= rank[last]
        /\ \A d \in due[r] : rank[d] <= rank[last]
    BY <1>4, <2>1, <2>2, <2>5 DEF InOrder
  <2>7. \A n \in seen[r] \cup {x} : up[Anchor] < up[n]
    BY <1>4, <2>1, <2>5, <2>6 DEF InOrder
  <2>8. \A n \in seen[r] \cup {x, Anchor} : Forward(n)' # Anchor => up[n] < up[Forward(n)']
    BY <1>4, <2>1, <2>2, <2>5, <2>6 DEF InOrder
  <2>9. \A d \in due[r], n \in seen[r] \cup {x, Anchor} : up[n] = up[d] => n = d
    BY <1>4, <2>1, <2>5, <2>6 DEF InOrder
  <2>10. \A d \in due[r], n \in seen[r] \cup {x, Anchor} :
            up[n] < up[d] => Forward(n)' # Anchor /\ up[Forward(n)'] <= up[d]
    BY <1>4, <2>1, <2>2, <2>5, <2>6 DEF InOrder
  <2>11. InOrder(r, up)'
    <3>1. /\ \A v \in visited[r] : up[v] = rank[v]
          /\ \A d \in due[r] : up[d] = rank[d]
          /\ up[at[r]] = rank[at[r]]
      BY <1>4, <2>5
    <3>2. seen'[r] \cup {Anchor} = seen[r] \cup {x, Anchor}
      BY <1>6
    <3> QED
      BY <1>2, <1>6, <2>1, <2>7, <2>8, <2>9, <2>10, <3>1, <3>2 DEF InOrder
  <2> QED
    BY <2>11
<1> QED
  BY <1>2, <1>4, <1>5, <1>6, <1>7 DEF OnwardOnly

\* Unlink: what led to the node leads past it, but not past what is still due.
LEMMA UnlinkWalks ==
    ASSUME NodesInv, NEW a \in Admins, Unlink(a), NEW r \in Readers, Traversing(r)',
           Walking
    PROVE  OnwardOnly(r)'
<1>1. /\ r # a /\ Traversing(r) /\ pc'[r] = pc[r] /\ at'[r] = at[r] /\ want'[r] = want[r]
      /\ key' = key
  BY ReaderFacts DEF Unlink, Traversing, At, Goto, AfterUnlink, NodesInv, TypeOK
<1>2. PICK x \in Listed \cup {Anchor} : x = Found(rules_list, key, want[a])
  BY OperatorTypes DEF NodesInv
<1>3. /\ OnwardOnly(r) /\ seen[r] \subseteq Nodes /\ Listed \subseteq seen[r]
      /\ Anchor \notin Nodes /\ at[r] \in seen[r] \cup {Anchor}
      /\ \A n \in seen[r] \cup {Anchor} : Forward(n) \in seen[r] \cup {Anchor}
      /\ visited[r] \subseteq seen[r] /\ due[r] \subseteq Listed
  BY <1>1, WalkFacts DEF Walking, OnwardOnly
<1>4. CASE x = Anchor
  <2>1. Bystander(r)
    BY <1>1, <1>2, <1>4 DEF Unlink, history, Bystander
  <2> QED
    BY <1>3, <2>1, BystanderWalks
<1>5. CASE x # Anchor
  <2>1. /\ Listed' = Listed \ {x} /\ x \in Listed
        /\ \A n \in Nodes \cup {Anchor} :
            Forward(n)' = Forward(n) \/ (Forward(n) = x /\ Forward(n)' = Forward(x))
    BY <1>2, <1>5, UnlinkForward
  <2>2. Witness(rules_list') /\ ToSet(rules_list') = Listed'
    BY <1>2, <1>5 DEF Unlink, Listed
  <2>3. seen'[r] = seen[r] /\ visited' = visited /\ due'[r] = due[r] \ {x}
    BY <1>1, <1>3, <2>1, <2>2 DEF Witness
  <2>4. ASSUME pc'[r] # "unlock" PROVE \E rank \in Ranks : InOrder(r, rank)'
    <3>1. PICK rank \in Ranks : InOrder(r, rank)
      BY <1>1, <1>3, <2>4 DEF OnwardOnly
    <3>2. \A n \in Nodes \cup {Anchor} : rank[n] \in Int
      BY DEF Ranks
    <3>3. \A n \in seen[r] \cup {Anchor} : Forward(n)' # Anchor => rank[n] < rank[Forward(n)']
      BY <1>3, <1>5, <2>1, <3>1, <3>2 DEF InOrder
    <3>4. ASSUME NEW d \in due[r] \ {x}, NEW n \in seen[r] \cup {Anchor}, rank[n] < rank[d]
          PROVE  Forward(n)' # Anchor /\ rank[Forward(n)'] <= rank[d]
      <4>1. Forward(n) # Anchor /\ rank[Forward(n)] <= rank[d]
        BY <3>1, <3>4 DEF InOrder
      <4>2. CASE Forward(n)' = Forward(n)
        BY <4>1, <4>2
      <4>3. CASE Forward(n) = x /\ Forward(n)' = Forward(x)
        <5>1. x \in seen[r] /\ d \in seen[r] /\ rank[x] <= rank[d] /\ rank[x] # rank[d]
          BY <1>3, <2>1, <3>1, <4>1, <4>3 DEF InOrder
        <5>2. rank[x] < rank[d]
          BY <1>3, <3>2, <5>1
        <5> QED
          BY <3>1, <4>3, <5>1, <5>2 DEF InOrder
      <4> QED
        BY <1>3, <2>1, <4>2, <4>3
    <3>5. InOrder(r, rank)'
      BY <1>1, <2>3, <3>1, <3>3, <3>4 DEF InOrder
    <3> QED
      BY <3>5
  <2> QED
    BY <1>1, <1>3, <2>1, <2>3, <2>4 DEF OnwardOnly
<1> QED
  BY <1>4, <1>5

\* Every traversal stays on its way.
LEMMA WalkingStep ==
    ASSUME NodesInv, Walking, [Next]_vars
    PROVE  Walking'
<1> SUFFICES ASSUME NEW r \in Readers, Traversing(r)' PROVE OnwardOnly(r)'
  BY DEF Walking
<1>1. CASE Bystander(r)
  BY <1>1, BystanderWalks DEF Bystander, Walking
<1>2. CASE EnterRcu(r) \/ EnterLocked(r)
  <2>1. Begin(r) /\ at[r] = Anchor /\ rules_list' = rules_list /\ next' = next /\ at' = at
    BY <1>2 DEF EnterRcu, EnterLocked, At, list, NodesInv, Ownership
  <2> QED
    BY <2>1, BeginWalks
<1>3. CASE Load(r)
  BY <1>3, LoadWalks DEF Load, At, Traversing, Walking
<1>4. CASE Examine(r)
  BY <1>4, ExamineWalks DEF Examine, At, Traversing, Walking
<1>5. ASSUME NEW a \in Admins, Publish(a) PROVE OnwardOnly(r)'
  BY <1>5, PublishWalks
<1>6. ASSUME NEW a \in Admins, Unlink(a) PROVE OnwardOnly(r)'
  BY <1>6, UnlinkWalks
<1> QED
  BY <1>1, <1>2, <1>3, <1>4, <1>5, <1>6, TraversalSteps

\* ... in every behaviour.
LEMMA WalkingAlways == Spec => []Walking
<1>1. Init => Walking
  BY DEF Init, Walking, Traversing
<1> QED
  BY NodesInvariant, <1>1, WalkingStep, PTL DEF Spec

\* registry_data.c:148, :152 and the like: a traversal meets no node twice, whatever is
\* linked and unlinked under it. So a grace period waits for nobody who goes round for ever.
THEOREM TraversalsEnd == Spec => []VisitsOnce
<1>1. ASSUME NodesInv, Walking PROVE VisitsOnce
  <2> SUFFICES ASSUME NEW r \in Readers, pc[r] = "examine" PROVE at[r] \notin visited[r]
    BY DEF VisitsOnce
  <2>1. Traversing(r) /\ OnwardOnly(r)
    BY <1>1 DEF Traversing, Walking
  <2>2. PICK rank \in Ranks : \A v \in visited[r] : rank[v] < rank[at[r]]
    BY <2>1 DEF OnwardOnly, InOrder
  <2>3. rank[at[r]] \in Int
    BY <1>1, <2>1, WalkFacts DEF Ranks
  <2> QED
    BY <2>2, <2>3
<1> QED
  BY NodesInvariant, WalkingAlways, <1>1, PTL

\* registry_data.c:238, :244: reset_all_counters() reaches every rule that is listed from
\* its beginning to its end, whichever rules are removed meanwhile.
THEOREM FullTraversals == Spec => []NothingMissed
<1>1. Walking => NothingMissed
  BY DEF Walking, OnwardOnly, NothingMissed, Traversing
<1> QED
  BY WalkingAlways, <1>1, PTL
=============================================================================
