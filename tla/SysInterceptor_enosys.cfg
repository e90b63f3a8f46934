\* The rule is removed while a call waits in the wrapper.
SPECIFICATION Spec
CONSTANTS
    Threads = {t1}
    Admins = {a1}
    Core = Core  NoOne = NoOne
    Syscalls = {39}
    Invalid <- Wildcard
    MaxRules = 2
    Env = {}
SYMMETRY Alike
INVARIANTS CallReachesOriginal
