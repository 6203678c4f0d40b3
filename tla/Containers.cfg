SPECIFICATION SmallSpec
CONSTANTS
    Few = {0, 1, 2, 3, 4, 5}
    Many = {10, 11, 12, 13, 14, 15, 16, 17, 18, 19, 20, 21, 22, 23, 24, 25, 26, 27, 28, 29, 30, 31, 32}
    Objs = {0, 1, 2, 3, 4, 5, 10, 11, 12, 13, 14, 15, 16, 17, 18, 19, 20, 21, 22, 23, 24, 25, 26, 27, 28, 29, 30, 31, 32}
    Hash <- SmallHash
    MIN_CAPACITY = 2
    MAX_FREE = 1
    Threads = {t1, t2}
    Keys = {k1, k2, k3}
    Addrs = {o1, o2, o3}
    Hsets = {h1, h2}
    HsetOf <- OntoHash
    Free = Free
    None = None
SYMMETRY Symm
INVARIANTS HconsTypeOK TabSound RefsInTable WellFormed Answers 
PROPERTIES ImplementsHashSet ResizesLast
