SPECIFICATION Spec
CONSTANTS
    Workers = {w1}
    Clients = {k1, k2}
    Jobs = {j1}
    AtJobs = {}
    Targets = {1}
    MaxTime = 0
    MaxPending = 1
    MaxSchedulers = 1
    NoThread = NoThread
INVARIANT NoStrandedJob
