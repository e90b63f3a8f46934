\* The timer grants a waiter that has not gone to sleep yet.
SPECIFICATION Spec
CONSTANTS
    t1 = t1  t2 = t2  t3 = t3
    r1 = r1  r2 = r2  r3 = r3
    Threads = {t1, t2}
    Task <- SameTask
    Syscalls <- Getpid
    Admins = {}
    Timer = Timer  Rmmod = Rmmod  NoOne = NoOne  NoRule = NoRule
    RuleIds = {r1}
    Rule <- LimitRules
    InitialRules <- One
    MaxCalls <- Once
    Env = {}
INVARIANT WalkUsesLiveWaiters
