SPECIFICATION FairSpec
CONSTANTS
    Workers = {w1, w2}
    Clients = {k1}
    Jobs = {}
    AtJobs = {a1, a2}
    Targets = {1, 2}
    MaxTime = 1
    MaxPending = 0
    MaxSchedulers = 0
    NoThread = NoThread
INVARIANTS TimedJobCovered
PROPERTIES NotEarly DropCompletes TimedJobsServed
