-------------------------- MODULE MmuScannerProofs --------------------------
(***************************************************************************)
(* Proofs about the search for the system call table, for pages and tables *)
(* of any size and whatever memory holds and the page tables map.          *)
(***************************************************************************)
EXTENDS MCHookTable, ListFacts

\* What a loop of the search returns, and what it has read.
Results == [found : Int, read : SUBSET Int]
Nowhere == [found |-> NotFound, read |-> {}]

\* A turn of the loop of validate_page().
WordTurn(memory, page, i, rest) ==
    LET address == page * PageWords + i
    IN  IF OutOfMemory(memory, page, address) THEN Nowhere
        ELSE IF Signature(memory.word, address) THEN [found |-> address, read |-> {address}]
        ELSE AfterReading({address}, rest)

LEMMA ReadingType ==
    ASSUME NEW addresses \in SUBSET Int, NEW rest \in Results
    PROVE  AfterReading(addresses, rest)
                = [found |-> rest.found, read |-> rest.read \cup addresses]
BY DEF AfterReading, Results

LEMMA WordTurnType ==
    ASSUME NEW memory, NEW page \in Nat, NEW i \in Nat, NEW rest \in Results
    PROVE  WordTurn(memory, page, i, rest) \in Results
<1>1. page * PageWords + i \in Int
  BY ScannerAssumption
<1> QED
  BY <1>1, ReadingType DEF WordTurn, Results, Nowhere, NotFound

\* The loop of validate_page(), unrolled by one turn.
LEMMA ValidationLoop ==
    ASSUME NEW memory, NEW page \in Nat
    PROVE  \E from :
            /\ Validation(memory, page) = from[0]
            /\ from[PageWords] = Nowhere
            /\ \A i \in 0 .. PageWords - 1 : from[i] = WordTurn(memory, page, i, from[i + 1])
<1> DEFINE Turns(f) == [i \in 0 .. PageWords |->
                LET address == page * PageWords + i
                IN  IF i = PageWords \/ OutOfMemory(memory, page, address)
                    THEN [found |-> NotFound, read |-> {}]
                    ELSE IF Signature(memory.word, address)
                         THEN [found |-> address, read |-> {address}]
                         ELSE AfterReading({address}, f[i + 1])]
           from == CHOOSE f : f = Turns(f)
           turn == [i \in 0 .. PageWords - 1 |->
                        [rest \in Results |-> WordTurn(memory, page, i, rest)]]
<1>1. /\ PageWords \in Nat /\ PageWords \in 0 .. PageWords
      /\ \A i \in 0 .. PageWords - 1 :
            i \in 0 .. PageWords /\ i + 1 \in 0 .. PageWords /\ i # PageWords
      /\ \A i \in 0 .. PageWords : i # PageWords => i \in 0 .. PageWords - 1
  BY ScannerAssumption
<1>2. Nowhere \in Results /\ turn \in [0 .. PageWords - 1 -> [Results -> Results]]
  BY WordTurnType DEF Nowhere, Results, NotFound
<1>3. PICK f \in [0 .. PageWords -> Results] :
        /\ f[PageWords] = Nowhere
        /\ \A i \in 0 .. PageWords - 1 : f[i] = turn[i][f[i + 1]]
  <2> HIDE DEF turn
  <2>1. Loops(Results, PageWords, Nowhere, turn) # {}
    BY <1>1, <1>2, LoopComputes
  <2> QED
    BY <2>1 DEF Loops
<1>4. \A i \in 0 .. PageWords - 1 : f[i] = WordTurn(memory, page, i, f[i + 1])
  <2>1. \A i \in 0 .. PageWords - 1 : f[i + 1] \in Results
    BY <1>1
  <2> QED
    BY <1>3, <2>1
<1>5. \A g : /\ Turns(g)[PageWords] = Nowhere
             /\ \A i \in 0 .. PageWords - 1 :
                    Turns(g)[i] = WordTurn(memory, page, i, g[i + 1])
  BY <1>1, Zenon DEF WordTurn, Nowhere
<1>6. f = Turns(f)
  <2>1. Turns(f) = [i \in 0 .. PageWords |-> Turns(f)[i]]
    OBVIOUS
  <2>2. f = [i \in 0 .. PageWords |-> f[i]]
    OBVIOUS
  <2> HIDE DEF Turns
  <2>3. \A i \in 0 .. PageWords : f[i] = Turns(f)[i]
    BY <1>1, <1>3, <1>4, <1>5
  <2> QED
    BY <2>1, <2>2, <2>3, Zenon
<1>7. from = Turns(from)
  BY <1>6
<1>8. Validation(memory, page) = from[0]
  BY DEF Validation
<1> HIDE DEF from, Turns
<1>9. /\ from[PageWords] = Nowhere
      /\ \A i \in 0 .. PageWords - 1 : from[i] = WordTurn(memory, page, i, from[i + 1])
  <2> DEFINE turns == Turns(from)
  <2>1. /\ turns[PageWords] = Nowhere
        /\ \A i \in 0 .. PageWords - 1 : turns[i] = WordTurn(memory, page, i, from[i + 1])
    BY <1>5
  <2> HIDE DEF turns
  <2>2. turns = from
    BY <1>7 DEF turns
  <2> QED
    BY <2>1, <2>2
<1> QED
  BY <1>8, <1>9
-----------------------------------------------------------------------------
(* What a place looks like.                                                *)

\* How far a table's words reach.
LEMMA Reach ==
    /\ SEVENTH_NI_SYSCALL \in OTHER_NI_SYSCALLS
    /\ SEVENTH_NI_SYSCALL \in FIRST_NI_SYSCALL + 1 .. PageWords - 1
    /\ \A n \in OTHER_NI_SYSCALLS : n \in FIRST_NI_SYSCALL + 1 .. SEVENTH_NI_SYSCALL
<1>1. PageWords \in Nat /\ OTHER_NI_SYSCALLS \in SUBSET (0 .. PageWords) /\ OTHER_NI_SYSCALLS # {}
  BY ScannerAssumption
<1>2. /\ SEVENTH_NI_SYSCALL \in OTHER_NI_SYSCALLS
      /\ \A n \in OTHER_NI_SYSCALLS : SEVENTH_NI_SYSCALL >= n
  BY <1>1, GreatestIndex DEF SEVENTH_NI_SYSCALL
<1> QED
  BY <1>2, ScannerAssumption

\* Addresses and their pages.
LEMMA OnPage ==
    ASSUME NEW page \in Nat, NEW i \in 0 .. PageWords - 1
    PROVE  PageOf(page * PageWords + i) = page
<1> DEFINE a == page * PageWords + i
           q == a \div PageWords
           r == a % PageWords
<1>1. PageWords \in Nat \ {0} /\ a \in Nat
  BY ScannerAssumption
<1>2. q \in Int /\ r \in 0 .. PageWords - 1 /\ a = q * PageWords + r
  BY <1>1
<1> HIDE DEF q, r
<1>3. (q - page) * PageWords = i - r
  BY <1>1, <1>2
<1>4. q - page < 1
  <2> SUFFICES ASSUME q - page >= 1 PROVE FALSE
    BY <1>2
  <2>1. (q - page) * PageWords >= PageWords
    BY <1>1, <1>2
  <2> QED
    BY <1>1, <1>2, <1>3, <2>1
<1>5. q - page > -1
  <2> SUFFICES ASSUME q - page <= -1 PROVE FALSE
    BY <1>2
  <2>1. (q - page) * PageWords <= -PageWords
    BY <1>1, <1>2
  <2> QED
    BY <1>1, <1>2, <1>3, <2>1
<1> QED
  BY <1>2, <1>4, <1>5 DEF PageOf, q

LEMMA Address ==
    ASSUME NEW a \in Nat
    PROVE  /\ PageOf(a) \in Nat /\ a % PageWords \in 0 .. PageWords - 1
           /\ a = PageOf(a) * PageWords + (a % PageWords)
<1> DEFINE q == a \div PageWords
           r == a % PageWords
<1>1. PageWords \in Nat \ {0}
  BY ScannerAssumption
<1>2. q \in Int /\ r \in 0 .. PageWords - 1 /\ a = q * PageWords + r
  BY <1>1
<1>4. PageOf(a) = q /\ a % PageWords = r
  BY DEF PageOf
<1> HIDE DEF q, r
<1>3. q >= 0
  <2> SUFFICES ASSUME q <= -1 PROVE FALSE
    BY <1>2
  <2>1. q * PageWords <= -PageWords
    BY <1>1, <1>2
  <2> QED
    BY <1>1, <1>2, <2>1
<1>5. q \in Nat
  BY <1>2, <1>3
<1> QED
  BY <1>2, <1>4, <1>5

\* The m-th word after the i-th word of a page.
LEMMA WordAhead ==
    ASSUME NEW page \in Nat, NEW i \in 0 .. PageWords - 1, NEW m \in 0 .. PageWords - 1
    PROVE  PageOf(page * PageWords + i + m) = IF i + m < PageWords THEN page ELSE page + 1
<1>1. PageWords \in Nat \ {0} /\ page * PageWords \in Nat
  BY ScannerAssumption
<1>2. CASE i + m < PageWords
  <2>1. i + m \in 0 .. PageWords - 1 /\ page * PageWords + i + m = page * PageWords + (i + m)
    BY <1>1, <1>2
  <2> QED
    BY <1>2, <2>1, OnPage
<1>3. CASE i + m >= PageWords
  <2>1. i + m - PageWords \in 0 .. PageWords - 1
    BY <1>1, <1>3
  <2>2. page * PageWords + i + m = (page + 1) * PageWords + (i + m - PageWords)
    BY <1>1
  <2>3. PageOf((page + 1) * PageWords + (i + m - PageWords)) = page + 1
    BY <2>1, OnPage
  <2> QED
    BY <1>1, <1>3, <2>2, <2>3
<1> QED
  BY <1>1, <1>2, <1>3

\* A place with all its words on pages that are there is what the loop does not stop at.
LEMMA MayRead ==
    ASSUME NEW memory, NEW page \in Nat, sys_vtpmo(memory, page) # NO_MAP,
           NEW i \in 0 .. PageWords - 1
    PROVE  Readable(memory, page * PageWords + i)
                <=> ~OutOfMemory(memory, page, page * PageWords + i)
<1> DEFINE a == page * PageWords + i
<1>1. a \in Int
  BY ScannerAssumption
<1>2. SEVENTH_NI_SYSCALL \in 0 .. PageWords - 1
  BY Reach, ScannerAssumption
<1>3. PageOf(LastWord(a)) = IF i + SEVENTH_NI_SYSCALL < PageWords THEN page ELSE page + 1
  BY <1>2, WordAhead DEF LastWord
<1>4. ASSUME Readable(memory, a), OutOfMemory(memory, page, a) PROVE FALSE
  <2>1. LastWord(a) \in Identifying(a)
    BY Reach DEF LastWord, Identifying
  <2> QED
    BY <1>4, <2>1 DEF Readable, OutOfMemory
<1>5. ASSUME ~OutOfMemory(memory, page, a), NEW b \in Identifying(a)
      PROVE  sys_vtpmo(memory, PageOf(b)) # NO_MAP
  <2>1. PICK m \in 1 .. SEVENTH_NI_SYSCALL : b = a + m
    <3>1. /\ 1 .. FIRST_NI_SYSCALL \subseteq 1 .. SEVENTH_NI_SYSCALL
          /\ OTHER_NI_SYSCALLS \subseteq 1 .. SEVENTH_NI_SYSCALL
      BY Reach, ScannerAssumption
    <3> QED
      BY <3>1 DEF Identifying
  <2>2. m \in 0 .. PageWords - 1
    BY <1>2, ScannerAssumption
  <2>3. PageOf(b) = IF i + m < PageWords THEN page ELSE page + 1
    BY <2>1, <2>2, WordAhead
  <2>4. CASE i + m < PageWords
    BY <2>3, <2>4
  <2>5. CASE ~(i + m < PageWords)
    <3>1. ~(i + SEVENTH_NI_SYSCALL < PageWords)
      BY <1>2, <2>5, ScannerAssumption
    <3>2. PageOf(LastWord(a)) = page + 1 /\ PageOf(b) = page + 1
      BY <1>3, <2>3, <2>5, <3>1
    <3> QED
      BY <1>5, <3>2 DEF OutOfMemory
  <2> QED
    BY <2>4, <2>5
<1> QED
  BY <1>4, <1>5 DEF Readable

\* Past the place at which the loop stops nothing can be read, either.
LEMMA OutOfMemoryOnwards ==
    ASSUME NEW memory, NEW page \in Nat, NEW i \in 0 .. PageWords - 1,
           OutOfMemory(memory, page, page * PageWords + i), NEW j \in i .. PageWords - 1
    PROVE  OutOfMemory(memory, page, page * PageWords + j)
<1>1. SEVENTH_NI_SYSCALL \in 0 .. PageWords - 1 /\ j \in 0 .. PageWords - 1
  BY Reach, ScannerAssumption
<1>2. /\ PageOf(LastWord(page * PageWords + i))
            = IF i + SEVENTH_NI_SYSCALL < PageWords THEN page ELSE page + 1
      /\ PageOf(LastWord(page * PageWords + j))
            = IF j + SEVENTH_NI_SYSCALL < PageWords THEN page ELSE page + 1
  BY <1>1, WordAhead DEF LastWord
<1>3. ~(i + SEVENTH_NI_SYSCALL < PageWords)
  BY <1>2 DEF OutOfMemory
<1>4. ~(j + SEVENTH_NI_SYSCALL < PageWords)
  BY <1>1, <1>3, ScannerAssumption
<1> QED
  BY <1>2, <1>3, <1>4 DEF OutOfMemory

\* The signature is what identifies a table.
LEMMA SignatureIdentifies ==
    ASSUME NEW word, NEW a \in Int
    PROVE  Signature(word, a) <=> Identified(word, a)
<1> DEFINE first == a + FIRST_NI_SYSCALL
           others == {a + n : n \in OTHER_NI_SYSCALLS}
           handler == word[first]
<1>1. /\ FIRST_NI_SYSCALL \in Nat \ {0}
      /\ OTHER_NI_SYSCALLS \subseteq Int /\ \A n \in OTHER_NI_SYSCALLS : n > FIRST_NI_SYSCALL
  BY Reach, ScannerAssumption
<1>2. /\ first \in Identifying(a) /\ others \subseteq Identifying(a)
      /\ \A i \in Preceding : a + i \in Identifying(a) /\ a + i # first /\ a + i \notin others
      /\ \A b \in Identifying(a) :
            b = first \/ b \in others \/ \E i \in Preceding : b = a + i
  BY <1>1 DEF Identifying, Preceding
<1>3. ASSUME Signature(word, a) PROVE Identified(word, a)
  <2>1. \A b \in others : word[b] = handler
    BY <1>3 DEF Signature
  <2>2. \A i \in Preceding : word[a + i] # handler
    BY <1>3 DEF Signature, good_area
  <2>3. handler > START /\ handler % 4 = 0
    BY <1>3 DEF Signature
  <2> HIDE DEF first, others
  <2>4. {b \in Identifying(a) : word[b] = handler} = {first} \cup others
    BY <1>2, <2>1, <2>2
  <2>5. handler \in {word[b] : b \in Identifying(a)}
    BY <1>2
  <2> HIDE DEF handler
  <2> QED
    BY <2>3, <2>4, <2>5 DEF Identified, first, others
<1>4. ASSUME Identified(word, a) PROVE Signature(word, a)
  <2>1. PICK h \in {word[b] : b \in Identifying(a)} :
            /\ h > START /\ h % 4 = 0
            /\ {b \in Identifying(a) : word[b] = h} = {first} \cup others
    BY <1>4 DEF Identified
  <2> HIDE DEF others
  <2>2. h = handler
    BY <2>1
  <2>3. \A b \in others : word[b] = handler
    BY <2>1, <2>2
  <2>4. \A i \in Preceding : word[a + i] # handler
    BY <1>2, <2>1, <2>2
  <2> QED
    BY <2>1, <2>2, <2>3, <2>4 DEF Signature, good_area, others
<1> QED
  BY <1>3, <1>4
-----------------------------------------------------------------------------
(* What the loops return.                                                  *)

\* The right outcome of a search from one address up to another.
Right(memory, outcome, from, to) ==
    /\ outcome \in Results
    /\ \A a \in outcome.read : Readable(memory, a)
    /\ outcome.found = NotFound => Tables(memory) \cap (from .. to - 1) = {}
    /\ outcome.found # NotFound =>
            /\ outcome.found \in Tables(memory) \cap (from .. to - 1)
            /\ \A a \in Tables(memory) : a >= from => a >= outcome.found

\* Nothing is missed by going past places that are no tables.
LEMMA GoOn ==
    ASSUME NEW memory, NEW from \in Nat, NEW mid \in Nat, NEW to \in Nat, from <= mid,
           NEW rest, Right(memory, rest, mid, to),
           Tables(memory) \cap (from .. mid - 1) = {},
           NEW addresses \in SUBSET Int, \A a \in addresses : Readable(memory, a)
    PROVE  /\ Right(memory, rest, from, to)
           /\ Right(memory, AfterReading(addresses, rest), from, to)
<1>1. Tables(memory) \subseteq Nat
  BY DEF Tables
<1>2. rest.found \in Int /\ rest.read \in SUBSET Int
  BY DEF Right, Results
<1> DEFINE after == AfterReading(addresses, rest)
<1>3. after.found = rest.found /\ after.read = rest.read \cup addresses /\ after \in Results
  <2>1. rest \in Results
    BY DEF Right
  <2>2. after = [found |-> rest.found, read |-> rest.read \cup addresses]
    BY <2>1, ReadingType
  <2> HIDE DEF after
  <2> QED
    BY <1>2, <2>2 DEF Results
<1> HIDE DEF after
<1>4. rest.found = NotFound => Tables(memory) \cap (from .. to - 1) = {}
  BY <1>1 DEF Right
<1>5. rest.found # NotFound =>
        /\ rest.found \in Tables(memory) \cap (from .. to - 1)
        /\ \A a \in Tables(memory) : a >= from => a >= rest.found
  BY <1>1 DEF Right
<1>6. Right(memory, rest, from, to)
  BY <1>4, <1>5 DEF Right
<1>7. Right(memory, after, from, to)
  BY <1>3, <1>4, <1>5 DEF Right
<1> QED
  BY <1>6, <1>7 DEF after

LEMMA NothingRight ==
    ASSUME NEW memory, NEW from, NEW to, Tables(memory) \cap (from .. to - 1) = {}
    PROVE  Right(memory, Nowhere, from, to)
BY DEF Right, Nowhere, Results, NotFound

\* The tables that begin on a page.
LEMMA TablesOnPage ==
    ASSUME NEW memory, NEW page \in 0 .. LastPage - 1, NEW i \in 0 .. PageWords - 1
    PROVE  page * PageWords + i \in Tables(memory) <=>
                /\ sys_vtpmo(memory, page) # NO_MAP
                /\ ~OutOfMemory(memory, page, page * PageWords + i)
                /\ Signature(memory.word, page * PageWords + i)
<1> DEFINE a == page * PageWords + i
<1>1. /\ page \in Nat /\ LastPage \in Nat /\ PageWords \in Nat \ {0}
      /\ a \in Int /\ page + 1 <= LastPage
  BY ScannerAssumption
<1>2. a \in 0 .. LastPage * PageWords - 1
  <2>1. (page + 1) * PageWords <= LastPage * PageWords
    BY <1>1
  <2>2. (page + 1) * PageWords = page * PageWords + PageWords /\ page * PageWords \in Nat
        /\ LastPage * PageWords \in Nat
    BY <1>1
  <2> QED
    BY <1>1, <2>1, <2>2
<1>3. PageOf(a) = page
  BY <1>1, OnPage
<1>4. sys_vtpmo(memory, page) # NO_MAP
        => (Readable(memory, a) <=> ~OutOfMemory(memory, page, a))
  BY <1>1, MayRead
<1>5. Signature(memory.word, a) <=> Identified(memory.word, a)
  BY <1>1, SignatureIdentifies
<1> HIDE DEF a
<1>6. a \in Tables(memory) <=>
        /\ sys_vtpmo(memory, page) # NO_MAP /\ ~OutOfMemory(memory, page, a)
        /\ Signature(memory.word, a)
  BY <1>2, <1>3, <1>4, <1>5 DEF Tables
<1> QED
  BY <1>6 DEF a

\* validate_page() finds the lowest table that begins on its page.
LEMMA ValidationFinds ==
    ASSUME NEW memory, NEW page \in 0 .. LastPage - 1, sys_vtpmo(memory, page) # NO_MAP
    PROVE  Right(memory, Validation(memory, page), page * PageWords, (page + 1) * PageWords)
<1> DEFINE a(i) == page * PageWords + i
           end == (page + 1) * PageWords
<1>1. /\ page \in Nat /\ PageWords \in Nat \ {0} /\ page * PageWords \in Nat
      /\ end = page * PageWords + PageWords /\ end \in Nat
  BY ScannerAssumption
<1>2. PICK from :
        /\ Validation(memory, page) = from[0]
        /\ from[PageWords] = Nowhere
        /\ \A i \in 0 .. PageWords - 1 : from[i] = WordTurn(memory, page, i, from[i + 1])
  BY <1>1, ValidationLoop
<1> DEFINE T == {i \in 0 .. PageWords : Right(memory, from[i], a(i), end)}
<1>3. PageWords \in T
  <2>1. Tables(memory) \cap (a(PageWords) .. end - 1) = {}
    BY <1>1
  <2> QED
    BY <1>1, <1>2, <2>1, NothingRight
<1>4. ASSUME NEW i \in 0 .. PageWords - 1, i + 1 \in T PROVE i \in T
  <2>1. /\ from[i] = WordTurn(memory, page, i, from[i + 1])
        /\ Right(memory, from[i + 1], a(i + 1), end)
    BY <1>2, <1>4
  <2>2. /\ a(i) \in Nat /\ a(i + 1) \in Nat /\ a(i) <= a(i + 1) /\ a(i) .. a(i + 1) - 1 = {a(i)}
        /\ a(i) \in a(i) .. end - 1
    BY <1>1
  <2>3. \A j \in 0 .. PageWords - 1 :
            a(j) \in Tables(memory) <=>
                ~OutOfMemory(memory, page, a(j)) /\ Signature(memory.word, a(j))
    BY TablesOnPage
  <2>4. ASSUME OutOfMemory(memory, page, a(i)) PROVE Right(memory, from[i], a(i), end)
    <3>1. ASSUME NEW b \in a(i) .. end - 1 PROVE b \notin Tables(memory)
      <4>1. b - page * PageWords \in i .. PageWords - 1 /\ b = a(b - page * PageWords)
        BY <1>1
      <4>2. OutOfMemory(memory, page, a(b - page * PageWords))
        BY <1>1, <2>4, <4>1, OutOfMemoryOnwards
      <4> QED
        BY <1>1, <2>3, <4>1, <4>2
    <3>2. from[i] = Nowhere
      BY <2>1, <2>4 DEF WordTurn
    <3>3. Tables(memory) \cap (a(i) .. end - 1) = {}
      BY <3>1
    <3>4. Right(memory, Nowhere, a(i), end)
      BY <3>3, NothingRight
    <3> QED
      BY <3>2, <3>4
  <2>5. ASSUME ~OutOfMemory(memory, page, a(i)), Signature(memory.word, a(i))
        PROVE  Right(memory, from[i], a(i), end)
    <3>1. from[i] = [found |-> a(i), read |-> {a(i)}]
      BY <2>1, <2>5 DEF WordTurn
    <3>2. a(i) \in Tables(memory)
      BY <2>3, <2>5
    <3>3. Readable(memory, a(i)) /\ a(i) # NotFound
      BY <2>2, <3>2 DEF Tables, NotFound
    <3> HIDE DEF a, end
    <3>4. Right(memory, from[i], a(i), end)
      BY <2>2, <3>1, <3>2, <3>3 DEF Right, Results
    <3> QED
      BY <3>4
  <2>6. ASSUME ~OutOfMemory(memory, page, a(i)), ~Signature(memory.word, a(i))
        PROVE  Right(memory, from[i], a(i), end)
    <3>1. from[i] = AfterReading({a(i)}, from[i + 1])
      BY <2>1, <2>6 DEF WordTurn
    <3>2. a(i) \notin Tables(memory)
      BY <2>3, <2>6
    <3>3. Readable(memory, a(i))
      BY <1>1, <2>6, MayRead
    <3> HIDE DEF a, end
    <3>4. Right(memory, AfterReading({a(i)}, from[i + 1]), a(i), end)
      BY <1>1, <2>1, <2>2, <3>2, <3>3, GoOn
    <3> QED
      BY <3>1, <3>4
  <2>7. i \in 0 .. PageWords
    BY <1>1
  <2> QED
    BY <2>4, <2>5, <2>6, <2>7
<1>5. T = 0 .. PageWords
  <2>1. T \in SUBSET (0 .. PageWords)
    OBVIOUS
  <2> HIDE DEF T
  <2> QED
    BY <1>1, <1>3, <1>4, <2>1, BackwardInduction
<1>6. 0 \in T
  BY <1>1, <1>5
<1>7. Right(memory, from[0], page * PageWords + 0, end)
  BY <1>6
<1>8. page * PageWords + 0 = page * PageWords
  BY <1>1
<1> QED
  BY <1>2, <1>7, <1>8

\* A turn of the loop of scan_for_syscall_table().
PageTurn(memory, k, rest) ==
    IF sys_vtpmo(memory, k) = NO_MAP THEN rest
    ELSE LET here == Validation(memory, k)
         IN  IF here.found # NotFound THEN here ELSE AfterReading(here.read, rest)

LEMMA PageTurnType ==
    ASSUME NEW memory, NEW k \in 0 .. LastPage - 1, NEW rest \in Results
    PROVE  PageTurn(memory, k, rest) \in Results
<1>1. CASE sys_vtpmo(memory, k) = NO_MAP
  BY <1>1 DEF PageTurn
<1>2. CASE sys_vtpmo(memory, k) # NO_MAP
  <2> DEFINE here == Validation(memory, k)
  <2>1. here \in Results
    BY <1>2, ValidationFinds DEF Right
  <2>2. PageTurn(memory, k, rest)
            = IF here.found # NotFound THEN here ELSE AfterReading(here.read, rest)
    BY <1>2 DEF PageTurn
  <2> HIDE DEF here
  <2>3. here.read \in SUBSET Int
    BY <2>1 DEF Results
  <2>4. AfterReading(here.read, rest)
            = [found |-> rest.found, read |-> rest.read \cup here.read]
    BY <2>3, ReadingType
  <2>5. AfterReading(here.read, rest) \in Results
    BY <2>3, <2>4 DEF Results
  <2> QED
    BY <2>1, <2>2, <2>5
<1> QED
  BY <1>1, <1>2

\* That loop, unrolled by one turn.
LEMMA ScanLoop ==
    ASSUME NEW memory
    PROVE  \E from :
            /\ Scan(memory) = from[0]
            /\ from[LastPage] = Nowhere
            /\ \A k \in 0 .. LastPage - 1 : from[k] = PageTurn(memory, k, from[k + 1])
<1> DEFINE Turns(f) == [k \in 0 .. LastPage |->
                IF k = LastPage THEN [found |-> NotFound, read |-> {}]
                ELSE IF sys_vtpmo(memory, k) = NO_MAP THEN f[k + 1]
                ELSE LET here == Validation(memory, k)
                     IN  IF here.found # NotFound THEN here
                         ELSE AfterReading(here.read, f[k + 1])]
           from == CHOOSE f : f = Turns(f)
           turn == [k \in 0 .. LastPage - 1 |->
                        [rest \in Results |-> PageTurn(memory, k, rest)]]
<1>1. /\ LastPage \in Nat /\ LastPage \in 0 .. LastPage
      /\ \A k \in 0 .. LastPage - 1 :
            k \in 0 .. LastPage /\ k + 1 \in 0 .. LastPage /\ k # LastPage
      /\ \A k \in 0 .. LastPage : k # LastPage => k \in 0 .. LastPage - 1
  BY ScannerAssumption
<1>2. Nowhere \in Results /\ turn \in [0 .. LastPage - 1 -> [Results -> Results]]
  BY PageTurnType DEF Nowhere, Results, NotFound
<1>3. PICK f \in [0 .. LastPage -> Results] :
        /\ f[LastPage] = Nowhere
        /\ \A k \in 0 .. LastPage - 1 : f[k] = turn[k][f[k + 1]]
  <2> HIDE DEF turn
  <2>1. Loops(Results, LastPage, Nowhere, turn) # {}
    BY <1>1, <1>2, LoopComputes
  <2> QED
    BY <2>1 DEF Loops
<1>4. \A k \in 0 .. LastPage - 1 : f[k] = PageTurn(memory, k, f[k + 1])
  <2>1. \A k \in 0 .. LastPage - 1 : f[k + 1] \in Results
    BY <1>1
  <2> QED
    BY <1>3, <2>1
<1>5. \A g : /\ Turns(g)[LastPage] = Nowhere
             /\ \A k \in 0 .. LastPage - 1 :
                    Turns(g)[k] = PageTurn(memory, k, g[k + 1])
  BY <1>1, Zenon DEF PageTurn, Nowhere
<1>6. f = Turns(f)
  <2>1. Turns(f) = [k \in 0 .. LastPage |-> Turns(f)[k]]
    OBVIOUS
  <2>2. f = [k \in 0 .. LastPage |-> f[k]]
    OBVIOUS
  <2> HIDE DEF Turns
  <2>3. \A k \in 0 .. LastPage : f[k] = Turns(f)[k]
    BY <1>1, <1>3, <1>4, <1>5
  <2> QED
    BY <2>1, <2>2, <2>3, Zenon
<1>7. from = Turns(from)
  BY <1>6
<1>8. Scan(memory) = from[0]
  BY DEF Scan
<1> HIDE DEF from, Turns
<1>9. /\ from[LastPage] = Nowhere
      /\ \A k \in 0 .. LastPage - 1 : from[k] = PageTurn(memory, k, from[k + 1])
  <2> DEFINE turns == Turns(from)
  <2>1. /\ turns[LastPage] = Nowhere
        /\ \A k \in 0 .. LastPage - 1 : turns[k] = PageTurn(memory, k, from[k + 1])
    BY <1>5
  <2> HIDE DEF turns
  <2>2. turns = from
    BY <1>7 DEF turns
  <2> QED
    BY <2>1, <2>2
<1> QED
  BY <1>8, <1>9

\* The places on a page.
LEMMA OnOnePage ==
    ASSUME NEW page \in Nat, NEW b \in page * PageWords .. (page + 1) * PageWords - 1
    PROVE  \E i \in 0 .. PageWords - 1 : b = page * PageWords + i
<1>1. PageWords \in Nat \ {0} /\ page * PageWords \in Nat
      /\ (page + 1) * PageWords = page * PageWords + PageWords
  BY ScannerAssumption
<1>2. b - page * PageWords \in 0 .. PageWords - 1 /\ b = page * PageWords + (b - page * PageWords)
  BY <1>1
<1> QED
  BY <1>2

\* The search finds the lowest table, and has read nothing but what it may.
LEMMA ScanFinds ==
    ASSUME NEW memory
    PROVE  Right(memory, Scan(memory), 0, LastPage * PageWords)
<1> DEFINE a(k) == k * PageWords
           end == LastPage * PageWords
<1>1. LastPage \in Nat /\ PageWords \in Nat \ {0} /\ end \in Nat
  BY ScannerAssumption
<1>2. PICK from :
        /\ Scan(memory) = from[0]
        /\ from[LastPage] = Nowhere
        /\ \A k \in 0 .. LastPage - 1 : from[k] = PageTurn(memory, k, from[k + 1])
  BY ScanLoop
<1> DEFINE T == {k \in 0 .. LastPage : Right(memory, from[k], a(k), end)}
<1>3. LastPage \in T
  <2>1. Tables(memory) \cap (a(LastPage) .. end - 1) = {}
    BY <1>1
  <2> QED
    BY <1>1, <1>2, <2>1, NothingRight
<1>4. ASSUME NEW k \in 0 .. LastPage - 1, k + 1 \in T PROVE k \in T
  <2>1. /\ from[k] = PageTurn(memory, k, from[k + 1])
        /\ Right(memory, from[k + 1], a(k + 1), end)
    BY <1>2, <1>4
  <2>2. /\ a(k) \in Nat /\ a(k + 1) \in Nat /\ a(k) <= a(k + 1) /\ a(k + 1) <= end
        /\ k \in Nat /\ k + 1 <= LastPage
    <3>1. k \in Nat /\ k + 1 \in Nat /\ k + 1 <= LastPage
      BY <1>1
    <3>2. (k + 1) * PageWords <= LastPage * PageWords
      BY <1>1, <3>1
    <3>3. (k + 1) * PageWords = k * PageWords + PageWords /\ k * PageWords \in Nat
      BY <1>1, <3>1
    <3> QED
      BY <1>1, <3>1, <3>2, <3>3
  <2>3. ASSUME sys_vtpmo(memory, k) = NO_MAP PROVE Right(memory, from[k], a(k), end)
    <3>1. ASSUME NEW b \in a(k) .. a(k + 1) - 1 PROVE b \notin Tables(memory)
      <4>1. PICK i \in 0 .. PageWords - 1 : b = k * PageWords + i
        BY <2>2, OnOnePage
      <4> QED
        BY <2>3, <4>1, TablesOnPage
    <3>2. from[k] = from[k + 1]
      BY <2>1, <2>3 DEF PageTurn
    <3>3. Tables(memory) \cap (a(k) .. a(k + 1) - 1) = {}
      BY <3>1
    <3> HIDE DEF a, end
    <3>4. Right(memory, from[k + 1], a(k), end)
      BY <1>1, <2>1, <2>2, <3>3, GoOn
    <3> QED
      BY <3>2, <3>4
  <2>4. ASSUME sys_vtpmo(memory, k) # NO_MAP PROVE Right(memory, from[k], a(k), end)
    <3> DEFINE here == Validation(memory, k)
    <3>1. Right(memory, here, a(k), a(k + 1))
      BY <2>4, ValidationFinds
    <3>2. from[k] = IF here.found # NotFound THEN here ELSE AfterReading(here.read, from[k + 1])
      BY <2>1, <2>4 DEF PageTurn
    <3> HIDE DEF a, end, here
    <3>3. CASE here.found # NotFound
      <4>1. Right(memory, here, a(k), end)
        BY <1>1, <2>2, <3>1, <3>3 DEF Right
      <4> QED
        BY <3>2, <3>3, <4>1
    <3>4. CASE here.found = NotFound
      <4>1. /\ Tables(memory) \cap (a(k) .. a(k + 1) - 1) = {}
            /\ here.read \in SUBSET Int /\ \A b \in here.read : Readable(memory, b)
        BY <3>1, <3>4 DEF Right, Results
      <4>2. Right(memory, AfterReading(here.read, from[k + 1]), a(k), end)
        BY <1>1, <2>1, <2>2, <4>1, GoOn
      <4> QED
        BY <3>2, <3>4, <4>2
    <3> QED
      BY <3>3, <3>4
  <2>5. k \in 0 .. LastPage
    BY <1>1
  <2> QED
    BY <2>3, <2>4, <2>5
<1>5. T = 0 .. LastPage
  <2>1. T \in SUBSET (0 .. LastPage)
    OBVIOUS
  <2> HIDE DEF T
  <2> QED
    BY <1>1, <1>3, <1>4, <2>1, BackwardInduction
<1>6. 0 \in T
  BY <1>1, <1>5
<1>7. Right(memory, from[0], 0 * PageWords, end)
  BY <1>6
<1>8. 0 * PageWords = 0
  BY <1>1
<1> QED
  BY <1>2, <1>7, <1>8
-----------------------------------------------------------------------------
\* scan_for_syscall_table() returns the lowest place with the signature among those it
\* may look at, and 0 only if there is none, whatever memory holds.
THEOREM SearchFinds ==
    ASSUME NEW memory
    PROVE  FindsTable(memory)
<1> DEFINE outcome == Scan(memory)
<1>1. Right(memory, outcome, 0, LastPage * PageWords)
  BY ScanFinds
<1> HIDE DEF outcome
<1>2. Tables(memory) \subseteq 0 .. LastPage * PageWords - 1 /\ Tables(memory) \in SUBSET Nat
  BY DEF Tables
<1>3. CASE outcome.found = NotFound
  <2>1. Tables(memory) = {}
    BY <1>1, <1>2, <1>3 DEF Right
  <2> QED
    BY <1>3, <2>1 DEF FindsTable, outcome
<1>4. CASE outcome.found # NotFound
  <2>1. /\ outcome.found \in Tables(memory)
        /\ \A b \in Tables(memory) : b >= outcome.found
    BY <1>1, <1>2, <1>4 DEF Right
  <2>2. Min(Tables(memory)) \in Tables(memory) /\ \A b \in Tables(memory) : Min(Tables(memory)) <= b
    BY <1>2, <2>1, LeastIndex
  <2>3. outcome.found = Min(Tables(memory))
    BY <1>2, <2>1, <2>2
  <2> QED
    BY <2>1, <2>3 DEF FindsTable, outcome
<1> QED
  BY <1>3, <1>4

\* The words that scan_for_syscall_table() and validate_page() compare with the
\* signature are on pages that are there, whatever the page tables map.
THEOREM SearchReads ==
    ASSUME NEW memory
    PROVE  ReadsOnlyMapped(memory)
BY ScanFinds DEF Right, ReadsOnlyMapped

\* The table that core_init() hands to the hooks is the lowest there is.
THEOREM FoundTable == Spec => []ScanFindsTable
<1>1. ScanFindsTable
  BY SearchFinds DEF ScanFindsTable, Finds
<1> QED
  BY <1>1, PTL

\* core_init() looks at no page that is not there.
THEOREM FoundSafely == Spec => []ScanReadsOnlyMapped
<1>1. ScanReadsOnlyMapped
  BY SearchReads DEF ScanReadsOnlyMapped, Reads
<1> QED
  BY <1>1, PTL
=============================================================================
