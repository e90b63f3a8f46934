\* The control path: a tool and another client of the device, while two callers of one
\* system call block and are let go.
CONSTANTS
    Threads = {1, 2}
    Tools = {tool}
    Raw = {other}
    CommandLines <- Lines
    RawIoctls <- Requests
    Syscalls = {39}
    MAX_RULES_EXPORT = 1
    Delays = {1, 2}
    MaxRules = 2
    MaxCalls = 1
SPECIFICATION Spec
INVARIANTS TypeOK StatsCoherent OneRuleCharged ExitStatusIsTruthful
PROPERTIES WildcardOutOfReach
