----------------------------- MODULE MmuScanner -----------------------------
(***************************************************************************)
(* kmod/mmu_scanner.c: the search of the kernel's memory for the system    *)
(* call table, by the signature of its unimplemented calls. Virtual memory *)
(* is a sequence of words on numbered pages; the page tables say which     *)
(* pages are there, and to read another one would be fatal.                *)
(*                                                                         *)
(* A memory is                                                             *)
(*    [directory |-> what each page directory entry is: "none", "huge"     *)
(*                   (a 2 MB page) or "table",                             *)
(*     table     |-> which pages a page table maps,                        *)
(*     word      |-> the word at each address].                            *)
(* The two levels above have one entry here, which is valid.               *)
(***************************************************************************)
EXTENDS Integers, FiniteSetsExt

CONSTANTS
    PageWords,          \* words on a page (512)
    PagesPerDirectory,  \* pages under one directory entry (512)
    LastPage,           \* the search stops before this page (MAX_ADDR)
    FIRST_NI_SYSCALL,   \* the first of the unimplemented system calls (134)
    OTHER_NI_SYSCALLS,  \* the others (174 to 236)
    START               \* pointers into the kernel are above it

NO_MAP == -1
NotFound == -1

SEVENTH_NI_SYSCALL == Max(OTHER_NI_SYSCALLS)

ASSUME ScannerAssumption ==
    /\ PageWords \in Nat \ {0} /\ PagesPerDirectory \in Nat \ {0} /\ LastPage \in Nat
    /\ FIRST_NI_SYSCALL \in Nat \ {0} /\ START \in Nat
    /\ OTHER_NI_SYSCALLS # {} /\ OTHER_NI_SYSCALLS \subseteq FIRST_NI_SYSCALL + 1 .. PageWords - 1

PageOf(address) == address \div PageWords

\* sys_vtpmo(): the walk down to the page, or to a 2 MB page on the way. Its callers
\* only ask whether there is one, so the frame is the page.
sys_vtpmo(memory, page) ==
    LET entry == memory.directory[page \div PagesPerDirectory]
    IN  IF entry = "huge" \/ (entry = "table" /\ page \in memory.table)
        THEN page
        ELSE NO_MAP

\* good_area(): from entry 1 on, no entry before the first unimplemented call equals it.
EvenEntry0 == 0 .. FIRST_NI_SYSCALL - 1             \* faulty: entry 0 counts, too
Preceding == 1 .. FIRST_NI_SYSCALL - 1

good_area(word, address) ==
    \A i \in Preceding : word[address + i] # word[address + FIRST_NI_SYSCALL]

\* The signature at an address.
Signature(word, address) ==
    LET pointer == word[address + FIRST_NI_SYSCALL]
    IN  /\ pointer % 4 = 0
        /\ pointer > START
        /\ \A n \in OTHER_NI_SYSCALLS : word[address + n] = pointer
        /\ good_area(word, address)

\* The last word of a table at an address: what decides if the next page is needed.
FirstNi(address) == address + FIRST_NI_SYSCALL      \* faulty: the others are forgotten
LastWord(address) == address + SEVENTH_NI_SYSCALL

OutOfMemory(memory, page, address) ==
    /\ PageOf(LastWord(address)) = page + 1
    /\ sys_vtpmo(memory, page + 1) = NO_MAP

\* What a loop returns that goes on after it has read some words.
AfterReading(addresses, rest) == [rest EXCEPT !.read = @ \cup addresses]

\* validate_page(), from the i-th word of the page on: where the loop ends, with the
\* table's address if there is one.
Validation(memory, page) ==
    LET from[i \in 0 .. PageWords] ==
            LET address == page * PageWords + i
            IN  IF i = PageWords \/ OutOfMemory(memory, page, address)
                THEN [found |-> NotFound, read |-> {}]
                ELSE IF Signature(memory.word, address)
                     THEN [found |-> address, read |-> {address}]
                     ELSE AfterReading({address}, from[i + 1])
    IN  from[0]

\* scan_for_syscall_table(), from page k on: the address it returns, and the addresses
\* at which it has compared memory with the signature.
Scan(memory) ==
    LET from[k \in 0 .. LastPage] ==
            IF k = LastPage THEN [found |-> NotFound, read |-> {}]
            ELSE IF sys_vtpmo(memory, k) = NO_MAP THEN from[k + 1]
            ELSE LET here == Validation(memory, k)
                 IN  IF here.found # NotFound THEN here
                     ELSE AfterReading(here.read, from[k + 1])
    IN  from[0]
-----------------------------------------------------------------------------
(* What the search is for.                                                 *)

\* The words of a table that identify it, wherever it begins.
Identifying(address) ==
    {address + i : i \in 1 .. FIRST_NI_SYSCALL} \cup {address + n : n \in OTHER_NI_SYSCALLS}

Readable(memory, address) ==
    \A a \in Identifying(address) : sys_vtpmo(memory, PageOf(a)) # NO_MAP

\* All the unimplemented calls, and none of the others from 1 on, have one handler in
\* the kernel.
Identified(word, address) ==
    \E handler \in {word[a] : a \in Identifying(address)} :
        /\ handler > START /\ handler % 4 = 0
        /\ {a \in Identifying(address) : word[a] = handler} =
                {address + FIRST_NI_SYSCALL} \cup {address + n : n \in OTHER_NI_SYSCALLS}

\* Where there is a table, and the kernel may look at it.
Tables(memory) ==
    {a \in 0 .. LastPage * PageWords - 1 :
        /\ sys_vtpmo(memory, PageOf(a)) # NO_MAP
        /\ Readable(memory, a) /\ Identified(memory.word, a)}

\* The search finds the lowest table there is, on one page or across two.
FindsTable(memory) ==
    Scan(memory).found = IF Tables(memory) = {} THEN NotFound ELSE Min(Tables(memory))

\* It never reads a word on a page that is not there.
ReadsOnlyMapped(memory) == \A a \in Scan(memory).read : Readable(memory, a)
=============================================================================
