SPECIFICATION WaitingSpec
CONSTANTS
    t1 = t1  t2 = t2  t3 = t3  c1 = c1  c2 = c2  s1 = s1  v = v
    Threads = {t1, t2, t3}
    Cdisjs = {c1, c2}
    Stripes = {s1}
    StripeOf <- OneStripe
    CondVals = {FALSE}
    MaxCount = 2
    NoThread = NoThread
    Null = Null
    Want <- TwoOrThree
    Plans <- PassOrCount
    Fulfilled = 3
    QPri = 1
    Helpers = {t3}
    Cutoffs = {0, 1}
    WRITE_MULTIPLIER = 8
INVARIANTS TypeOK WaitingCountExact NoLostWakeup NobodyForgotten Exclusion InitiatedOnce ReturnsReady ValueRight
PROPERTIES EveryoneReturns
