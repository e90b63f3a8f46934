------------------------------ MODULE ListFacts ------------------------------
(***************************************************************************)
(* What list_add_tail() and list_del() do to a list: facts about sequences *)
(* that the proofs about the queue of waiters and about the list of rules  *)
(* share, what atomic_inc() and atomic_dec() do to a gauge, and where      *)
(* loops over an index stop and what they compute.                         *)
(***************************************************************************)
EXTENDS Integers, SequencesExt, SequenceTheorems, FiniteSetTheorems, WellFoundedInduction,
        TLAPS

\* m stands somewhere before n.
Before(s, m, n) == \E i, j \in 1 .. Len(s) : i < j /\ s[i] = m /\ s[j] = n

\* A list after its i-th element was taken out, element by element.
LEMMA RemoveAtElements ==
    ASSUME NEW S, NEW s \in Seq(S), NEW i \in 1 .. Len(s)
    PROVE  /\ RemoveAt(s, i) \in Seq(S)
           /\ Len(RemoveAt(s, i)) = Len(s) - 1
           /\ \A k \in 1 .. Len(s) - 1 :
                RemoveAt(s, i)[k] = IF k < i THEN s[k] ELSE s[k + 1]
<1> DEFINE front == SubSeq(s, 1, i - 1)
           back == SubSeq(s, i + 1, Len(s))
<1>1. Len(s) \in Nat /\ i \in Nat /\ i >= 1 /\ i <= Len(s)
  BY LenProperties
<1>2. \A k \in 1 .. Len(s) : s[k] \in S
  BY ElementOfSeq
<1>3. front \in Seq(S) /\ Len(front) = i - 1 /\ \A k \in 1 .. i - 1 : front[k] = s[k]
  <2>1. /\ front \in Seq(S)
        /\ Len(front) = IF 1 <= i - 1 THEN (i - 1) - 1 + 1 ELSE 0
        /\ \A k \in 1 .. (i - 1) - 1 + 1 : front[k] = s[1 + k - 1]
    <3>1. \A k \in 1 .. i - 1 : s[k] \in S
      BY <1>1, <1>2
    <3>2. 1 \in Int /\ i - 1 \in Int
      BY <1>1
    <3> QED
      BY <3>1, <3>2, SubSeqProperties
  <2> HIDE DEF front
  <2>2. (IF 1 <= i - 1 THEN (i - 1) - 1 + 1 ELSE 0) = i - 1
    BY <1>1
  <2>3. \A k \in 1 .. i - 1 : k \in 1 .. (i - 1) - 1 + 1 /\ 1 + k - 1 = k
    BY <1>1
  <2> QED
    BY <2>1, <2>2, <2>3
<1>4. /\ back \in Seq(S) /\ Len(back) = Len(s) - i
      /\ \A k \in 1 .. Len(s) - i : back[k] = s[i + k]
  <2>1. /\ back \in Seq(S)
        /\ Len(back) = IF i + 1 <= Len(s) THEN Len(s) - (i + 1) + 1 ELSE 0
        /\ \A k \in 1 .. Len(s) - (i + 1) + 1 : back[k] = s[(i + 1) + k - 1]
    <3>1. \A k \in i + 1 .. Len(s) : s[k] \in S
      BY <1>1, <1>2
    <3>2. i + 1 \in Int /\ Len(s) \in Int
      BY <1>1
    <3> QED
      BY <3>1, <3>2, SubSeqProperties
  <2> HIDE DEF back
  <2>2. (IF i + 1 <= Len(s) THEN Len(s) - (i + 1) + 1 ELSE 0) = Len(s) - i
    BY <1>1
  <2>3. \A k \in 1 .. Len(s) - i :
            k \in 1 .. Len(s) - (i + 1) + 1 /\ (i + 1) + k - 1 = i + k
    BY <1>1
  <2> QED
    BY <2>1, <2>2, <2>3
<1>5. RemoveAt(s, i) = front \o back
  BY DEF RemoveAt
<1> HIDE DEF front, back
<1>6. /\ front \o back \in Seq(S)
      /\ Len(front \o back) = Len(front) + Len(back)
      /\ \A k \in 1 .. Len(front) + Len(back) :
            (front \o back)[k] = IF k <= Len(front) THEN front[k] ELSE back[k - Len(front)]
  BY <1>3, <1>4, ConcatProperties, Zenon
<1>7. Len(front) + Len(back) = Len(s) - 1
  BY <1>1, <1>3, <1>4
<1>8. ASSUME NEW k \in 1 .. Len(s) - 1
      PROVE  (front \o back)[k] = IF k < i THEN s[k] ELSE s[k + 1]
  <2>1. CASE k < i
    <3>1. k <= Len(front) /\ k \in 1 .. i - 1
      BY <1>1, <1>3, <2>1
    <3> QED
      BY <1>3, <1>6, <1>7, <2>1, <3>1
  <2>2. CASE ~(k < i)
    <3>1. ~(k <= Len(front)) /\ k - Len(front) \in 1 .. Len(s) - i
          /\ i + (k - Len(front)) = k + 1
      BY <1>1, <1>3, <2>2
    <3> QED
      BY <1>4, <1>6, <1>7, <2>2, <3>1
  <2> QED
    BY <2>1, <2>2
<1> QED
  BY <1>5, <1>6, <1>7, <1>8

\* ... it has lost nothing else.
LEMMA RemoveAtKeeps ==
    ASSUME NEW S, NEW s \in Seq(S), NEW i \in 1 .. Len(s), NEW x \in ToSet(s), x # s[i]
    PROVE  x \in ToSet(RemoveAt(s, i))
<1> DEFINE t == RemoveAt(s, i)
<1>1. t \in Seq(S) /\ Len(t) = Len(s) - 1
      /\ \A k \in 1 .. Len(s) - 1 : t[k] = IF k < i THEN s[k] ELSE s[k + 1]
  BY RemoveAtElements
<1>2. Len(s) \in Nat /\ DOMAIN s = 1 .. Len(s) /\ DOMAIN t = 1 .. Len(s) - 1
  BY <1>1, LenProperties
<1> HIDE DEF t
<1>3. PICK j \in 1 .. Len(s) : s[j] = x /\ j # i
  BY <1>2 DEF ToSet
<1>4. CASE j < i
  <2>1. j \in DOMAIN t /\ t[j] = x
    BY <1>1, <1>2, <1>3, <1>4
  <2> QED
    BY <2>1 DEF ToSet, t
<1>5. CASE j > i
  <2>1. j - 1 \in DOMAIN t /\ ~(j - 1 < i) /\ (j - 1) + 1 = j
    BY <1>2, <1>3, <1>5
  <2>2. t[j - 1] = x
    BY <1>1, <1>2, <1>3, <2>1
  <2> QED
    BY <2>1, <2>2 DEF ToSet, t
<1> QED
  BY <1>2, <1>3, <1>4, <1>5

\* In a list without repetitions it is gone, and no two others have changed places.
LEMMA RemoveAtList ==
    ASSUME NEW S, NEW s \in Seq(S), IsInjective(s), NEW i \in 1 .. Len(s)
    PROVE  /\ RemoveAt(s, i) \in Seq(S)
           /\ IsInjective(RemoveAt(s, i))
           /\ ToSet(RemoveAt(s, i)) = ToSet(s) \ {s[i]}
           /\ \A m, n : Before(RemoveAt(s, i), m, n) => Before(s, m, n)
<1> DEFINE t == RemoveAt(s, i)
           old(k) == IF k < i THEN k ELSE k + 1
<1>1. t \in Seq(S) /\ Len(t) = Len(s) - 1
      /\ \A k \in 1 .. Len(s) - 1 : t[k] = IF k < i THEN s[k] ELSE s[k + 1]
  BY RemoveAtElements
<1>2. Len(s) \in Nat /\ DOMAIN s = 1 .. Len(s) /\ DOMAIN t = 1 .. Len(s) - 1
  BY <1>1, LenProperties
<1> HIDE DEF t
<1>3. \A k \in DOMAIN t : old(k) \in DOMAIN s /\ t[k] = s[old(k)] /\ old(k) # i
  BY <1>1, <1>2
<1>4. \A j, k \in DOMAIN t : (old(j) = old(k) => j = k) /\ (j < k => old(j) < old(k))
  BY <1>2
<1>5. \A j \in DOMAIN s : j # i => \E k \in DOMAIN t : old(k) = j
  <2> SUFFICES ASSUME NEW j \in DOMAIN s, j # i PROVE \E k \in DOMAIN t : old(k) = j
    OBVIOUS
  <2>1. CASE j < i
    BY <1>2, <2>1
  <2>2. CASE j > i
    <3>1. j - 1 \in DOMAIN t /\ ~(j - 1 < i) /\ (j - 1) + 1 = j
      BY <1>2, <2>2
    <3> QED
      BY <3>1
  <2> QED
    BY <1>2, <2>1, <2>2
<1> HIDE DEF old
<1>6. \A j, k \in DOMAIN s : s[j] = s[k] => j = k
  BY DEF IsInjective
<1>7. IsInjective(t)
  BY <1>3, <1>4, <1>6 DEF IsInjective
<1>8. ToSet(t) = ToSet(s) \ {s[i]}
  <2>1. ASSUME NEW x \in ToSet(t) PROVE x \in ToSet(s) \ {s[i]}
    BY <1>2, <1>3, <1>6 DEF ToSet
  <2>2. ASSUME NEW x \in ToSet(s), x # s[i] PROVE x \in ToSet(t)
    <3>1. PICK j \in DOMAIN s : s[j] = x
      BY DEF ToSet
    <3>2. PICK k \in DOMAIN t : old(k) = j
      BY <1>5, <2>2, <3>1
    <3> QED
      BY <1>3, <3>1, <3>2 DEF ToSet
  <2> QED
    BY <2>1, <2>2
<1>9. ASSUME NEW m, NEW n, Before(t, m, n) PROVE Before(s, m, n)
  <2>1. PICK j, k \in 1 .. Len(t) : j < k /\ t[j] = m /\ t[k] = n
    BY <1>9 DEF Before
  <2>2. j \in DOMAIN t /\ k \in DOMAIN t
    BY <1>1, <1>2, <2>1
  <2>3. old(j) \in 1 .. Len(s) /\ old(k) \in 1 .. Len(s)
        /\ s[old(j)] = m /\ s[old(k)] = n /\ old(j) < old(k)
    BY <1>2, <1>3, <1>4, <2>1, <2>2
  <2> QED
    BY <2>3 DEF Before
<1> QED
  BY <1>1, <1>7, <1>8, <1>9 DEF t

\* A list with a new element at its end.
LEMMA AppendList ==
    ASSUME NEW S, NEW s \in Seq(S), IsInjective(s), NEW x \in S, x \notin ToSet(s)
    PROVE  /\ Append(s, x) \in Seq(S)
           /\ IsInjective(Append(s, x))
           /\ ToSet(Append(s, x)) = ToSet(s) \cup {x}
           /\ \A m, n : Before(Append(s, x), m, n) => Before(s, m, n) \/ n = x
<1> DEFINE t == Append(s, x)
<1>1. /\ t \in Seq(S) /\ Len(t) = Len(s) + 1
      /\ \A k \in 1 .. Len(s) : t[k] = s[k]
      /\ t[Len(s) + 1] = x
  BY AppendProperties
<1>2. Len(s) \in Nat /\ DOMAIN s = 1 .. Len(s) /\ DOMAIN t = 1 .. Len(s) + 1
  BY <1>1, LenProperties
<1> HIDE DEF t
<1>3. \A k \in DOMAIN t : (k \in DOMAIN s /\ t[k] = s[k]) \/ (k = Len(s) + 1 /\ t[k] = x)
  BY <1>1, <1>2
<1>4. \A k \in DOMAIN s : s[k] # x /\ k \in DOMAIN t /\ t[k] = s[k]
  BY <1>1, <1>2 DEF ToSet
<1>5. \A j, k \in DOMAIN s : s[j] = s[k] => j = k
  BY DEF IsInjective
<1>6. IsInjective(t)
  BY <1>3, <1>4, <1>5 DEF IsInjective
<1>7. ToSet(t) = ToSet(s) \cup {x}
  <2>1. Len(s) + 1 \in DOMAIN t
    BY <1>2
  <2> QED
    BY <1>1, <1>3, <1>4, <2>1 DEF ToSet
<1>8. ASSUME NEW m, NEW n, Before(t, m, n), n # x PROVE Before(s, m, n)
  <2>1. PICK j, k \in 1 .. Len(t) : j < k /\ t[j] = m /\ t[k] = n
    BY <1>8 DEF Before
  <2>2. k \in 1 .. Len(s) /\ s[k] = n
    BY <1>1, <1>2, <1>3, <1>8, <2>1
  <2>3. j \in 1 .. Len(s) /\ s[j] = m
    BY <1>1, <1>2, <2>1, <2>2
  <2> QED
    BY <2>1, <2>2, <2>3 DEF Before
<1> QED
  BY <1>1, <1>6, <1>7, <1>8 DEF t

\* A walk that has visited the first node of what it had to visit.
LEMMA TailList ==
    ASSUME NEW S, NEW s \in Seq(S), s # <<>>
    PROVE  /\ Head(s) \in S /\ Tail(s) \in Seq(S)
           /\ ToSet(s) = {Head(s)} \cup ToSet(Tail(s))
           /\ \A m, n : Before(Tail(s), m, n) => Before(s, m, n)
           /\ \A n \in ToSet(Tail(s)) : Before(s, Head(s), n)
           /\ IsInjective(s) => IsInjective(Tail(s)) /\ Head(s) \notin ToSet(Tail(s))
<1> DEFINE t == Tail(s)
<1>1. /\ Len(s) \in Nat /\ Len(s) >= 1 /\ DOMAIN s = 1 .. Len(s)
      /\ Head(s) = s[1] /\ Head(s) \in S
      /\ t \in Seq(S) /\ Len(t) = Len(s) - 1 /\ DOMAIN t = 1 .. Len(t)
      /\ \A i \in 1 .. Len(t) : t[i] = s[i + 1]
  BY HeadTailProperties, LenProperties, EmptySeq
<1> HIDE DEF t
<1>2. \A i \in 1 .. Len(t) : i + 1 \in 1 .. Len(s) /\ 1 < i + 1
  BY <1>1
<1>3. ToSet(s) = {Head(s)} \cup ToSet(t)
  <2>1. ASSUME NEW x \in ToSet(s), x # Head(s) PROVE x \in ToSet(t)
    <3>1. PICK i \in 1 .. Len(s) : s[i] = x
      BY <1>1 DEF ToSet
    <3>2. i - 1 \in 1 .. Len(t) /\ (i - 1) + 1 = i
      BY <1>1, <2>1, <3>1
    <3>3. t[i - 1] = x
      BY <1>1, <3>1, <3>2
    <3> QED
      BY <1>1, <3>2, <3>3 DEF ToSet
  <2>2. ASSUME NEW x \in ToSet(t) PROVE x \in ToSet(s)
    <3>1. PICK i \in 1 .. Len(t) : t[i] = x
      BY <1>1 DEF ToSet
    <3> QED
      BY <1>1, <1>2, <3>1 DEF ToSet
  <2>3. Head(s) \in ToSet(s)
    BY <1>1 DEF ToSet
  <2> QED
    BY <2>1, <2>2, <2>3
<1>4. ASSUME NEW m, NEW n, Before(t, m, n) PROVE Before(s, m, n)
  <2>1. PICK i, j \in 1 .. Len(t) : i < j /\ t[i] = m /\ t[j] = n
    BY <1>4 DEF Before
  <2>2. i + 1 < j + 1 /\ s[i + 1] = m /\ s[j + 1] = n
    BY <1>1, <2>1
  <2> QED
    BY <1>2, <2>2 DEF Before
<1>5. ASSUME NEW n \in ToSet(t) PROVE Before(s, Head(s), n)
  <2>1. PICK i \in 1 .. Len(t) : t[i] = n
    BY <1>1 DEF ToSet
  <2>2. s[i + 1] = n /\ s[1] = Head(s) /\ 1 \in 1 .. Len(s)
    BY <1>1, <2>1
  <2> QED
    BY <1>2, <2>2 DEF Before
<1>6. ASSUME IsInjective(s) PROVE IsInjective(t) /\ Head(s) \notin ToSet(t)
  <2>1. \A i, j \in 1 .. Len(s) : s[i] = s[j] => i = j
    BY <1>1, <1>6 DEF IsInjective
  <2>2. ASSUME NEW i \in 1 .. Len(t), NEW j \in 1 .. Len(t), t[i] = t[j] PROVE i = j
    <3>1. i + 1 = j + 1
      BY <1>1, <1>2, <2>1, <2>2
    <3> QED
      BY <3>1
  <2>3. \A i \in 1 .. Len(t) : t[i] # s[1]
    BY <1>1, <1>2, <2>1
  <2> QED
    BY <1>1, <2>2, <2>3 DEF IsInjective, ToSet
<1> QED
  BY <1>1, <1>3, <1>4, <1>5, <1>6 DEF t

\* A search that stops at its first hit finds one if there is one.
LEMMA LeastIndex ==
    ASSUME NEW T \in SUBSET Nat, T # {}
    PROVE  Min(T) \in T /\ \A m \in T : Min(T) <= m
<1> DEFINE less == {ss \in Nat \X Nat : ss[1] < ss[2]}
<1>1. IsWellFoundedOn(less, Nat)
  BY NatLessThanWellFounded DEF OpToRel
<1>2. PICK n \in T : \A m \in T : ~(<<m, n>> \in less)
  <2> HIDE DEF less
  <2> QED
    BY <1>1, WFMin
<1>3. \A m \in T : ~(m < n)
  BY <1>2
<1>4. \A m \in T : n <= m
  BY <1>3
<1> QED
  BY <1>4 DEF Min

\* The last of several places is there, too, if there is a bound.
LEMMA GreatestIndex ==
    ASSUME NEW n \in Nat, NEW T \in SUBSET (0 .. n), T # {}
    PROVE  Max(T) \in T /\ \A m \in T : Max(T) >= m
<1> DEFINE far == {n - m : m \in T}
<1>1. far \in SUBSET Nat /\ far # {}
  <2>1. \A m \in T : n - m \in Nat /\ n - m \in far
    OBVIOUS
  <2> QED
    BY <2>1
<1>2. Min(far) \in far /\ \A d \in far : Min(far) <= d
  BY <1>1, LeastIndex
<1>3. PICK m \in T : Min(far) = n - m
  BY <1>2
<1>4. \A k \in T : m >= k
  <2> SUFFICES ASSUME NEW k \in T PROVE m >= k
    OBVIOUS
  <2>1. n - k \in far
    OBVIOUS
  <2>2. n - m <= n - k
    BY <1>2, <1>3, <2>1
  <2> QED
    BY <2>2
<1> QED
  BY <1>4 DEF Max

\* What holds at the end of a loop, and before a turn if it holds after it, holds
\* before every turn.
LEMMA BackwardInduction ==
    ASSUME NEW n \in Nat, NEW T \in SUBSET (0 .. n), n \in T,
           \A i \in 0 .. n - 1 : i + 1 \in T => i \in T
    PROVE  T = 0 .. n
<1> DEFINE missing == (0 .. n) \ T
<1> SUFFICES ASSUME missing # {} PROVE FALSE
  OBVIOUS
<1>1. Max(missing) \in missing /\ \A m \in missing : Max(missing) >= m
  BY GreatestIndex
<1> DEFINE last == Max(missing)
<1>2. last \in 0 .. n - 1 /\ last \notin T
  BY <1>1
<1>3. last + 1 \in 0 .. n /\ ~(last >= last + 1)
  BY <1>2
<1>4. last + 1 \in T
  BY <1>1, <1>3
<1> QED
  BY <1>2, <1>4

\* The results of a loop, from each turn on, by the result at its end and what each turn
\* makes of the result of the turns after it.
Loops(S, n, end, turn) ==
    {f \in [0 .. n -> S] : f[n] = end /\ \A i \in 0 .. n - 1 : f[i] = turn[i][f[i + 1]]}

\* There are such results, so that the recursive function stands for them.
LEMMA LoopComputes ==
    ASSUME NEW S, NEW n \in Nat, NEW end \in S, NEW turn \in [0 .. n - 1 -> [S -> S]]
    PROVE  Loops(S, n, end, turn) # {}
<1> DEFINE From(m, f) == f[n] = end /\ \A i \in m .. n - 1 : f[i] = turn[i][f[i + 1]]
           T == {m \in 0 .. n : \E f \in [m .. n -> S] : From(m, f)}
<1>1. n \in T
  <2> DEFINE f == [i \in n .. n |-> end]
  <2>1. f \in [n .. n -> S] /\ From(n, f)
    OBVIOUS
  <2> HIDE DEF f, From
  <2> QED
    BY <2>1
<1>2. ASSUME NEW m \in 0 .. n - 1, m + 1 \in T PROVE m \in T
  <2>1. PICK f \in [m + 1 .. n -> S] : From(m + 1, f)
    BY <1>2
  <2> DEFINE g == [i \in m .. n |-> IF i = m THEN turn[m][f[m + 1]] ELSE f[i]]
  <2>2. f[m + 1] \in S /\ turn[m] \in [S -> S]
    OBVIOUS
  <2>3. g \in [m .. n -> S]
    BY <2>2
  <2>4. \A i \in m + 1 .. n : g[i] = f[i]
    OBVIOUS
  <2>5. g[m] = turn[m][g[m + 1]]
    BY <2>4
  <2>6. ASSUME NEW i \in m .. n - 1, i # m PROVE g[i] = turn[i][g[i + 1]]
    <3>1. i \in m + 1 .. n - 1 /\ i \in m + 1 .. n /\ i + 1 \in m + 1 .. n
      BY <2>6
    <3> HIDE DEF g
    <3> QED
      BY <2>1, <2>4, <3>1
  <2>7. g[n] = end
    BY <2>1, <2>4
  <2> HIDE DEF g
  <2>8. From(m, g)
    BY <2>5, <2>6, <2>7
  <2> QED
    BY <2>3, <2>8
<1> HIDE DEF T
<1>3. T = 0 .. n
  <2>1. T \in SUBSET (0 .. n)
    BY DEF T
  <2> QED
    BY <1>1, <1>2, <2>1, BackwardInduction
<1>4. 0 \in T
  BY <1>3
<1> QED
  BY <1>4 DEF T, Loops

\* A set of threads gains or loses one member.
LEMMA CardinalityMove ==
    ASSUME NEW S, IsFiniteSet(S), NEW t
    PROVE  /\ Cardinality(S \cup {t}) = IF t \in S THEN Cardinality(S) ELSE Cardinality(S) + 1
           /\ Cardinality(S \ {t}) = IF t \in S THEN Cardinality(S) - 1 ELSE Cardinality(S)
<1>1. CASE t \in S
  <2>1. S \cup {t} = S
    BY <1>1
  <2>2. Cardinality(S \ {t}) = Cardinality(S) - 1
    BY <1>1, FS_RemoveElement
  <2> QED
    BY <1>1, <2>1, <2>2
<1>2. CASE t \notin S
  <2>1. S \ {t} = S
    BY <1>2
  <2>2. Cardinality(S \cup {t}) = Cardinality(S) + 1
    BY <1>2, FS_AddElement
  <2> QED
    BY <1>2, <2>1, <2>2
<1> QED
  BY <1>1, <1>2
=============================================================================
