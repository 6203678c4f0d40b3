SPECIFICATION ValuesSpec
CONSTANTS
    t1 = t1  t2 = t2  q1 = q1  q2 = q2
    Threads = {t1, t2}
    FlexQs = {q1, q2}
    InitPri <- AtZero
    PriMax = 2
    TPris = {0, 2}
    Cutoffs = {0, 1}
    MaxJobs = 2
    Nested = TRUE
    Word = 16
    None = None
SYMMETRY Symm
INVARIANTS FlexLinked CallsOnce HintCovers RequestorsServed WellFormed Answers Derived
