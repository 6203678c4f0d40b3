SPECIFICATION LiveSpec
CONSTANTS
    Threads = {1, 2, 3}
    Want <- AllTwo
    Plans <- Unfulfilled
    Fulfilled = 3
    QPri = 1
    Helpers = {}
    Cutoffs = {}
    Null = Null
    NoThread = NoThread
PROPERTIES AllWaitersReturn
