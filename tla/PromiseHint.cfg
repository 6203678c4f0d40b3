SPECIFICATION LiveSpec
CONSTANTS
    Threads = {1, 2, 3}
    Want <- AllFulfilled
    Plans <- TwoJobs
    Fulfilled = 3
    QPri = 2
    Helpers = {2, 3}
    Cutoffs = {1}
    Null = Null
    NoThread = NoThread
PROPERTIES AllWaitersReturn
