\* rmmod under a limit of 0.
SPECIFICATION FairSpec
CONSTANTS
    t1 = t1  t2 = t2  t3 = t3
    r1 = r1  r2 = r2  r3 = r3
    Threads = {t1, t2}
    Task <- SameTask
    Syscalls <- Getpid
    Admins = {root}
    Timer = Timer  Rmmod = Rmmod  NoOne = NoOne  NoRule = NoRule
    RuleIds = {r1}
    Rule <- DenyRules
    InitialRules <- One
    MaxCalls <- Once
    Env = {"signal", "reset_stats", "unload"}
INVARIANTS NoReaderAfterZero UnloadIsWoken
PROPERTY UnloadCompletes
