----------------------------- MODULE MCHookTable -----------------------------
(***************************************************************************)
(* The interceptor for TLC, with the search that finds the system call     *)
(* table for it: every memory of three pages of four words, of which two   *)
(* are searched and the third can only be run into.                        *)
(***************************************************************************)
EXTENDS MCSysInterceptor, MmuScanner

\* Too low, not aligned, and a handler.
Words == {4, 6, 8}

Directories ==
    {<<"none", {}>>, <<"huge", {}>>} \cup ({"table"} \X SUBSET (0 .. PagesPerDirectory - 1))

\* The last page repeats the first one. Of the pages beside it the kernel has only
\* what the directories say.
Memories ==
    {[directory |-> (0 :> low[1]) @@ (1 :> high),
      table |-> low[2] \cup {2},
      word |-> [a \in 0 .. 3 * PageWords - 1 |-> word[a % (2 * PageWords)]]] :
        low \in Directories, high \in {"none", "huge", "table"},
        word \in [0 .. 2 * PageWords - 1 -> Words]}

Finds == \A memory \in Memories : FindsTable(memory)
Reads == \A memory \in Memories : ReadsOnlyMapped(memory)

\* mmu_scanner.c, scan_for_syscall_table(): the table that hooks are set in is the lowest
\* place with the signature, also where it begins on one page and ends on the next.
ScanFindsTable == table_found => Finds

\* core_init() survives the search: validate_page() reads up to 236 words ahead on a
\* page it has been told is there, and none of them is on a page that is not.
ScanReadsOnlyMapped == core # "device" => Reads
=============================================================================
