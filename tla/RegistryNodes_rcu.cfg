\* A caller, the timer and two administrators on a list of two nodes, in both builds.
SPECIFICATION Spec
CONSTANTS
    Threads = {t1}
    Admins = {a1, a2}
    Timer = Timer  NoOne = NoOne  Anchor = Anchor  Every = Every  Free = Free
    Nodes = {n1, n2}
    Keys = {39, 257}  Wanted = {39}
    Builds = {"rcu", "spinlock"}
SYMMETRY Alike
INVARIANTS TypeOK NoUseAfterFree TraversalIsAtomic VisitsOnce NothingMissed
