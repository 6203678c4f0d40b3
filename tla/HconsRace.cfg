SPECIFICATION HconsSpec
CONSTANTS
    Threads = {t1, t2}
    Keys = {k1, k2, k3}
    Addrs = {o1, o2, o3}
    Hsets = {h1, h2}
    HsetOf <- OntoHash
    Free = Free
    None = None
SYMMETRY Symm
INVARIANTS FoundKeyIntact
