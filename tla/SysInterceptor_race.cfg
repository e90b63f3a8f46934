\* Two administrators add and remove the same rule, then the module is unloaded.
SPECIFICATION Spec
CONSTANTS
    Threads = {t1}
    Admins = {a1, a2}
    Core = Core  NoOne = NoOne
    Syscalls = {39}
    Invalid <- Wildcard
    MaxRules = 2
    Env = {"unload"}
SYMMETRY Alike
INVARIANTS TableRestored
