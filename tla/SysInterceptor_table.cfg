\* Two administrators and a caller race on the hooks of two system calls; the search of every
\* small memory for the table.
SPECIFICATION Spec
CONSTANTS
    Threads = {t1}
    Admins = {a1, a2}
    Core = Core  NoOne = NoOne
    Syscalls = {39, 257}
    Invalid <- Wildcard
    MaxRules = 2
    Env = {"no_table", "no_dispatcher", "unload"}
    PageWords = 4
    PagesPerDirectory = 2
    LastPage = 2
    FIRST_NI_SYSCALL = 2
    OTHER_NI_SYSCALLS = {3}
    START = 4
SYMMETRY Alike
INVARIANTS TypeOK HookTableSound NoRuleUnhooked ScanFindsTable ScanReadsOnlyMapped
