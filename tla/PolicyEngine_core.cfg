\* Two alike callers, twice each, under a limit of 1, with signals, two administrators who
\* switch the monitor, and rmmod.
SPECIFICATION Spec
CONSTANTS
    t1 = t1  t2 = t2  t3 = t3
    r1 = r1  r2 = r2  r3 = r3
    Threads = {t1, t2}
    Task <- SameTask
    Syscalls <- Getpid
    Admins = {root1, root2}
    Timer = Timer  Rmmod = Rmmod  NoOne = NoOne  NoRule = NoRule
    RuleIds = {r1}
    Rule <- LimitRules
    InitialRules <- One
    MaxCalls <- Twice
    Env = {"signal", "toggle", "unload"}
SYMMETRY Alike
INVARIANTS TypeOK GaugesExact NoLostWaiter
PROPERTIES NoDanglingWaiter ServedInOrder ImplementsThrottle
