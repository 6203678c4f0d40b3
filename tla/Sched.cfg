SPECIFICATION PartsSpec
CONSTANTS
    Workers = {w1, w2}
    Main = m
    NextTs <- Ring3
    Tasks = {1, 2, 3, 4, 5, 6}
    Root = 1
    Children <- Tree6
    Sub1 = {2}
    At <- BNormal
    Current = Current
    RootPris = {0, 1}
    SIZE = 2
    None = None
    Places = {m, p1, p2, p3}
    Callers = {m, w1, w2}
    Keys = {0}
    Hash <- Identity
    Old <- OldFour
    OldCap = 4
    Gain = 1
    UnsetGain = 0
    byte_cost_per_tick = 1
    TickWords = 2
    Bits = 1
    LongSize = 1
    NodeIds = {1, 2, 3, 4, 5}
INVARIANTS EachOnce JoinComplete PendingExact PriorityRestored WalkReturns ComputedOnce ReturnsComputed
PROPERTIES ComputationEnds
