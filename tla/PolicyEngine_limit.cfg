\* Two programs and two users; rules by program and by user, changed and switched off under load.
SPECIFICATION Spec
CONSTANTS
    t1 = t1  t2 = t2  t3 = t3
    r1 = r1  r2 = r2  r3 = r3
    Threads = {t1, t2, t3}
    Task <- MixedTask
    Syscalls <- Getpid
    Admins = {root}
    Timer = Timer  Rmmod = Rmmod  NoOne = NoOne  NoRule = NoRule
    RuleIds = {r2, r3}
    Rule <- LimitRules
    InitialRules <- OneProgram
    MaxCalls <- Once
    Env = {"toggle", "add", "remove"}
INVARIANTS RateLimit NoLostWakeup
