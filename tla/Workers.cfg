SPECIFICATION Spec
CONSTANTS
    Workers = {w1, w2}
    Clients = {k1, k2}
    Jobs = {j1, j2}
    AtJobs = {}
    Targets = {0, 1, 2}
    MaxTime = 0
    MaxPending = 2
    MaxSchedulers = 1
    NoThread = NoThread
SYMMETRY Sym
INVARIANTS NoStrandedJobUnlessYielding JobsInOrder NoSleepOnPending ShutdownNotLost
