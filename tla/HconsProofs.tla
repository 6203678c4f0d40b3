---------------------------- MODULE HconsProofs ----------------------------
(***************************************************************************)
(* Proofs about Hcons, for any threads, keys, objects and sets.            *)
(***************************************************************************)
EXTENDS Hcons, TLAPS

\* Where a thread holds the mutex of the set it allocates in.
Holding == {"alloc", "gc", "disclaim", "insert"}

\* The mutexes are held by the threads which are where they hold them.
LocksHeld ==
    \A t \in Threads :
        /\ pc[t] \in Holding => lock[MyHset(t)] = t
        /\ pc[t] \in {"gc", "disclaim"} => gclock = t

\* While a thread holds the mutex after a miss, the set has no object of
\* its key.
StillMissing ==
    \A t \in Threads : pc[t] \in Holding =>
        \A o \in tab[MyHset(t)] : heap[o] # key[t]

\* A new object is in no set yet, belongs to one thread only, and is out of
\* the sweep's reach: allocated since the collection, or marked by it.
NewIsPrivate ==
    \A t \in Threads : pc[t] = "insert" =>
        /\ obj[t] \in Addrs
        /\ heap[obj[t]] = key[t]
        /\ \A h \in Hsets : obj[t] \notin tab[h]
        /\ obj[t] \in unswept => obj[t] \in marked
        /\ \A u \in Threads : (u # t /\ pc[u] = "insert") => obj[u] # obj[t]

\* The object being disclaimed has not been reclaimed, and is not new.
DisclaimedIsOld ==
    \A t \in Threads : pc[t] = "disclaim" =>
        /\ obj[t] \in Addrs
        /\ heap[obj[t]] # Free
        /\ \A u \in Threads : pc[u] = "insert" => obj[u] # obj[t]

\* What a search has found is an object.
FoundIsObj == \A t \in Threads : pc[t] = "found" => obj[t] \in Addrs

\* Only objects in use are swept.
UnsweptInUse == \A o \in unswept : heap[o] # Free

IInv ==
    /\ HconsTypeOK
    /\ FoundIsObj
    /\ LocksHeld
    /\ StillMissing
    /\ NewIsPrivate
    /\ DisclaimedIsOld
    /\ UnsweptInUse
    /\ TabSound

-----------------------------------------------------------------------------
(* The invariant holds initially.                                          *)
LEMMA InitInv == HconsInit => IInv
  BY HconsAssumption DEF HconsInit, IInv, HconsTypeOK, PCs, FoundIsObj, LocksHeld, Holding,
     StillMissing, NewIsPrivate, DisclaimedIsOld, UnsweptInUse, TabSound

LEMMA HsetType == HconsTypeOK => \A t \in Threads : MyHset(t) \in Hsets
  BY HconsAssumption DEF HconsTypeOK, MyHset

\* A call only chooses the key.
LEMMA CallStep ==
    ASSUME IInv, NEW t \in Threads, NEW k \in Keys, Call(t, k) PROVE IInv'
  <1> USE HconsAssumption, HsetType DEF IInv, HconsTypeOK, Call, collector, Goto, MyHset
  <1>1. HconsTypeOK'
    BY DEF PCs
  <1>2. (FoundIsObj /\ LocksHeld /\ StillMissing /\ NewIsPrivate /\
        DisclaimedIsOld /\ UnsweptInUse /\ TabSound)'
    BY DEF FoundIsObj, LocksHeld, StillMissing, NewIsPrivate, DisclaimedIsOld,
       UnsweptInUse, TabSound, Holding
  <1> QED
    BY <1>1, <1>2

\* A miss is found with the mutex, which is kept.
LEMMA SearchStep ==
    ASSUME IInv, NEW t \in Threads, Search(t) PROVE IInv'
  <1> USE HconsAssumption, HsetType DEF IInv, HconsTypeOK, Search, Races, collector, Goto, MyHset
  <1>1. HconsTypeOK'
    BY DEF PCs
  <1>2. LocksHeld'
    BY DEF LocksHeld, Holding
  <1>3. StillMissing'
    BY DEF StillMissing, LocksHeld, Holding
  <1>4. (FoundIsObj /\ NewIsPrivate /\ DisclaimedIsOld /\ UnsweptInUse /\
        TabSound)'
    BY DEF FoundIsObj, NewIsPrivate, DisclaimedIsOld, UnsweptInUse, TabSound
  <1> QED
    BY <1>1, <1>2, <1>3, <1>4

\* Marking more objects harms no new object.
LEMMA MarkFoundStep ==
    ASSUME IInv, NEW t \in Threads, MarkFound(t) PROVE IInv'
  <1> USE HconsAssumption, HsetType DEF IInv, HconsTypeOK, MarkFound, Return, Goto, MyHset
  <1>1. HconsTypeOK'
    BY DEF PCs, FoundIsObj
  <1>2. NewIsPrivate'
    BY DEF NewIsPrivate
  <1>3. (FoundIsObj /\ LocksHeld /\ StillMissing /\ DisclaimedIsOld /\
        UnsweptInUse /\ TabSound)'
    BY DEF FoundIsObj, LocksHeld, StillMissing, DisclaimedIsOld, UnsweptInUse,
       TabSound, Holding, NewIsPrivate
  <1> QED
    BY <1>1, <1>2, <1>3

\* The collector's lock was free.
LEMMA EnterAllocatorStep ==
    ASSUME IInv, NEW t \in Threads, EnterAllocator(t) PROVE IInv'
  <1> USE HconsAssumption, HsetType DEF IInv, HconsTypeOK, EnterAllocator, Goto, MyHset
  <1>1. HconsTypeOK'
    BY DEF PCs
  <1>2. LocksHeld'
    BY DEF LocksHeld, Holding
  <1>3. (FoundIsObj /\ StillMissing /\ NewIsPrivate /\ DisclaimedIsOld /\
        UnsweptInUse /\ TabSound)'
    BY DEF FoundIsObj, StillMissing, NewIsPrivate, DisclaimedIsOld, UnsweptInUse,
       TabSound, Holding
  <1> QED
    BY <1>1, <1>2, <1>3

\* A collection marks the new objects, which the threads' variables hold.
LEMMA CollectStep ==
    ASSUME IInv, NEW t \in Threads, Collect(t) PROVE IInv'
  <1> USE HconsAssumption, HsetType DEF IInv, HconsTypeOK, Collect, Goto, MyHset
  <1>1. HconsTypeOK'
    BY DEF PCs
  <1>2. NewIsPrivate'
    BY DEF NewIsPrivate
  <1>3. (FoundIsObj /\ LocksHeld /\ StillMissing /\ DisclaimedIsOld /\
        UnsweptInUse /\ TabSound)'
    BY DEF FoundIsObj, LocksHeld, StillMissing, DisclaimedIsOld, UnsweptInUse,
       TabSound, Holding, NewIsPrivate
  <1> QED
    BY <1>1, <1>2, <1>3

\* The sweep passes objects.
LEMMA SweepMarkedStep ==
    ASSUME IInv, NEW t \in Threads, NEW o \in Addrs, SweepMarked(t, o) PROVE IInv'
  <1> USE HconsAssumption, HsetType DEF IInv, HconsTypeOK, SweepMarked, Goto, MyHset
  <1>1. HconsTypeOK'
    BY DEF PCs
  <1>2. NewIsPrivate'
    BY DEF NewIsPrivate
  <1>3. (FoundIsObj /\ LocksHeld /\ StillMissing /\ DisclaimedIsOld /\
        UnsweptInUse /\ TabSound)'
    BY DEF FoundIsObj, LocksHeld, StillMissing, DisclaimedIsOld, UnsweptInUse,
       TabSound, Holding, NewIsPrivate
  <1> QED
    BY <1>1, <1>2, <1>3

\* An unmarked object is not a new one.
LEMMA SweepUnmarkedStep ==
    ASSUME IInv, NEW t \in Threads, NEW o \in Addrs, SweepUnmarked(t, o) PROVE IInv'
  <1> USE HconsAssumption, HsetType DEF IInv, HconsTypeOK, SweepUnmarked, Races, collector, Goto, MyHset
  <1>1. HconsTypeOK'
    BY DEF PCs
  <1>2. DisclaimedIsOld'
    BY DEF DisclaimedIsOld, NewIsPrivate, UnsweptInUse
  <1>3. (FoundIsObj /\ LocksHeld /\ StillMissing /\ NewIsPrivate /\
        UnsweptInUse /\ TabSound)'
    BY DEF FoundIsObj, LocksHeld, StillMissing, NewIsPrivate, UnsweptInUse,
       TabSound, Holding
  <1> QED
    BY <1>1, <1>2, <1>3

\* Disclaiming takes an object out of its one set, which nobody has locked.
LEMMA DisclaimStep ==
    ASSUME IInv, NEW t \in Threads, DisclaimProc(t) PROVE IInv'
  <1> USE HconsAssumption, HsetType DEF IInv, HconsTypeOK, DisclaimProc, Goto, MyHset
  <1>1. HconsTypeOK'
    BY DEF PCs, DisclaimedIsOld
  <1>2. StillMissing'
    BY DEF StillMissing, LocksHeld, Holding, TabSound, DisclaimedIsOld
  <1>3. NewIsPrivate'
    BY DEF NewIsPrivate, DisclaimedIsOld
  <1>4. UnsweptInUse'
    BY DEF UnsweptInUse, DisclaimedIsOld
  <1>5. TabSound'
    BY DEF TabSound, DisclaimedIsOld
  <1>6. (FoundIsObj /\ LocksHeld /\ DisclaimedIsOld)'
    BY DEF FoundIsObj, LocksHeld, DisclaimedIsOld, Holding, NewIsPrivate
  <1> QED
    BY <1>1, <1>2, <1>3, <1>4, <1>5, <1>6

\* A free object is in no set, new nowhere else, and not swept.
LEMMA AllocatedStep ==
    ASSUME IInv, NEW t \in Threads, NEW o \in Addrs, Allocated(t, o) PROVE IInv'
  <1> USE HconsAssumption, HsetType DEF IInv, HconsTypeOK, Allocated, Goto, MyHset
  <1>1. HconsTypeOK'
    BY DEF PCs
  <1>2. StillMissing'
    BY DEF StillMissing, LocksHeld, Holding, TabSound
  <1>3. NewIsPrivate'
    BY DEF NewIsPrivate, TabSound, UnsweptInUse
  <1>4. TabSound'
    BY DEF TabSound
  <1>5. (FoundIsObj /\ LocksHeld /\ DisclaimedIsOld /\ UnsweptInUse)'
    BY DEF FoundIsObj, LocksHeld, DisclaimedIsOld, UnsweptInUse, Holding,
       NewIsPrivate
  <1> QED
    BY <1>1, <1>2, <1>3, <1>4, <1>5

\* The same without the collector's lock.
LEMMA TakeFreeStep ==
    ASSUME IInv, NEW t \in Threads, NEW o \in Addrs, TakeFree(t, o) PROVE IInv'
  <1> USE HconsAssumption, HsetType DEF IInv, HconsTypeOK, TakeFree, Goto, MyHset
  <1>1. HconsTypeOK'
    BY DEF PCs
  <1>2. StillMissing'
    BY DEF StillMissing, LocksHeld, Holding, TabSound
  <1>3. NewIsPrivate'
    BY DEF NewIsPrivate, TabSound, UnsweptInUse
  <1>4. TabSound'
    BY DEF TabSound
  <1>5. (FoundIsObj /\ LocksHeld /\ DisclaimedIsOld /\ UnsweptInUse)'
    BY DEF FoundIsObj, LocksHeld, DisclaimedIsOld, UnsweptInUse, Holding,
       NewIsPrivate
  <1> QED
    BY <1>1, <1>2, <1>3, <1>4, <1>5

\* The inserted object is the only one of its key.
LEMMA InsertStep ==
    ASSUME IInv, NEW t \in Threads, InsertNew(t) PROVE IInv'
  <1> USE HconsAssumption, HsetType DEF IInv, HconsTypeOK, InsertNew, Return, collector, Goto, MyHset
  <1>1. HconsTypeOK'
    BY DEF PCs, NewIsPrivate
  <1>2. StillMissing'
    BY DEF StillMissing, LocksHeld, Holding
  <1>3. NewIsPrivate'
    BY DEF NewIsPrivate, TabSound
  <1>4. TabSound'
    BY DEF TabSound, StillMissing, NewIsPrivate, Holding
  <1>5. (FoundIsObj /\ LocksHeld /\ DisclaimedIsOld /\ UnsweptInUse)'
    BY DEF FoundIsObj, LocksHeld, DisclaimedIsOld, UnsweptInUse, Holding,
       NewIsPrivate
  <1> QED
    BY <1>1, <1>2, <1>3, <1>4, <1>5

\* After an abort no thread is anywhere.
LEMMA OutOfMemoryStep ==
    ASSUME IInv, NEW t \in Threads, OutOfMemory(t) PROVE IInv'
  <1> USE HconsAssumption, HsetType DEF IInv, HconsTypeOK, OutOfMemory, collector, Goto, MyHset
  <1>1. HconsTypeOK'
    BY DEF PCs
  <1>2. (FoundIsObj /\ LocksHeld /\ StillMissing /\ NewIsPrivate /\
        DisclaimedIsOld /\ UnsweptInUse /\ TabSound)'
    BY DEF FoundIsObj, LocksHeld, StillMissing, NewIsPrivate, DisclaimedIsOld,
       UnsweptInUse, TabSound, Holding
  <1> QED
    BY <1>1, <1>2

\* References are the client's.
LEMMA DropStep ==
    ASSUME IInv, NEW t \in Threads, NEW o \in Addrs, Drop(t, o) PROVE IInv'
  <1> USE HconsAssumption, HsetType DEF IInv, HconsTypeOK, Drop, collector, Goto, MyHset
  <1>1. HconsTypeOK'
    BY DEF PCs
  <1>2. (FoundIsObj /\ LocksHeld /\ StillMissing /\ NewIsPrivate /\
        DisclaimedIsOld /\ UnsweptInUse /\ TabSound)'
    BY DEF FoundIsObj, LocksHeld, StillMissing, NewIsPrivate, DisclaimedIsOld,
       UnsweptInUse, TabSound, Holding
  <1> QED
    BY <1>1, <1>2

(* Every step preserves the invariant.                                     *)
LEMMA Inductive == IInv /\ [HconsNext]_hcons_vars => IInv'
  <1> SUFFICES ASSUME IInv, [HconsNext]_hcons_vars PROVE IInv'
    OBVIOUS
  <1>1. CASE UNCHANGED hcons_vars
    BY <1>1 DEF hcons_vars, IInv, HconsTypeOK, FoundIsObj, LocksHeld, Holding, MyHset, StillMissing,
       NewIsPrivate, DisclaimedIsOld, UnsweptInUse, TabSound
  <1>2. CASE Aborted
    BY <1>1, <1>2 DEF Aborted
  <1>3. ASSUME NEW t \in Threads, NEW k \in Keys, Call(t, k) PROVE IInv'
    BY <1>3, CallStep
  <1>4. ASSUME NEW t \in Threads,
               Search(t) \/ MarkFound(t) \/ EnterAllocator(t) \/ InsertNew(t)
               \/ Collect(t) \/ DisclaimProc(t) \/ OutOfMemory(t)
        PROVE  IInv'
    BY <1>4, SearchStep, MarkFoundStep, EnterAllocatorStep, InsertStep, CollectStep,
       DisclaimStep, OutOfMemoryStep
  <1>5. ASSUME NEW t \in Threads, NEW o \in Addrs,
               \/ SweepMarked(t, o) \/ SweepUnmarked(t, o)
               \/ Allocated(t, o) \/ TakeFree(t, o) \/ Drop(t, o)
        PROVE  IInv'
    BY <1>5, SweepMarkedStep, SweepUnmarkedStep, AllocatedStep, TakeFreeStep, DropStep
  <1> QED
    BY <1>1, <1>2, <1>3, <1>4, <1>5 DEF HconsNext

(* The type invariant of Hcons, for any threads, keys, objects and sets.   *)
THEOREM TypeCorrect == HconsSpec => []HconsTypeOK
  <1>1. IInv => HconsTypeOK
    BY DEF IInv
  <1> QED
    BY InitInv, Inductive, <1>1, PTL DEF HconsSpec

(* No interleaving of searches, insertions and disclaims puts two objects  *)
(* of one key in a set, or leaves a reclaimed object in one.               *)
THEOREM TablesSound == HconsSpec => []TabSound
  <1>1. IInv => TabSound
    BY DEF IInv
  <1> QED
    BY InitInv, Inductive, <1>1, PTL DEF HconsSpec

-----------------------------------------------------------------------------
(***************************************************************************)
(* What the clients refer to.                                              *)
(***************************************************************************)

\* But for the objects of races, what a client refers to is in its set and out
\* of the sweep's reach, what was found is in its set, and nobody refers to or
\* has found what is being disclaimed.
RefsKept ==
    \A t \in Threads :
        /\ \A o \in refs[t] \ raced : InTable(o) /\ (o \in unswept => o \in marked)
        /\ pc[t] = "found" /\ obj[t] \notin raced => InTable(obj[t]) /\ heap[obj[t]] = key[t]
        /\ pc[t] = "disclaim" =>
               /\ \A u \in Threads : obj[t] \notin refs[u] \ raced
               /\ \A u \in Threads : pc[u] = "found" /\ obj[u] = obj[t] => obj[t] \in raced

LEMMA InitRefsKept == HconsInit => RefsKept
  BY DEF HconsInit, RefsKept

LEMMA RefsKeptStep ==
    ASSUME IInv, RefsKept, [HconsNext]_hcons_vars PROVE RefsKept'
  <1> USE HconsAssumption, HsetType
       DEF IInv, HconsTypeOK, RefsKept, InTable, collector, Goto, MyHset
  <1>1. CASE UNCHANGED hcons_vars
    BY <1>1 DEF hcons_vars
  <1>2. CASE Aborted
    BY <1>1, <1>2 DEF Aborted
  <1>3. ASSUME NEW t \in Threads, NEW k \in Keys, Call(t, k) PROVE RefsKept'
    BY <1>3 DEF Call
  <1>4. ASSUME NEW t \in Threads, Search(t) PROVE RefsKept'
    BY <1>4 DEF Search, TabSound, Races, GivenUp
  <1>5. ASSUME NEW t \in Threads, MarkFound(t) PROVE RefsKept'
    BY <1>5 DEF MarkFound, Return, FoundIsObj
  <1>6. ASSUME NEW t \in Threads, EnterAllocator(t) PROVE RefsKept'
    BY <1>6 DEF EnterAllocator
  <1>7. ASSUME NEW t \in Threads, InsertNew(t) PROVE RefsKept'
    BY <1>7 DEF InsertNew, Return, NewIsPrivate, DisclaimedIsOld
  \* The collector's lock keeps other threads from disclaiming.
  <1>8. ASSUME NEW t \in Threads, Collect(t) PROVE RefsKept'
    BY <1>8 DEF Collect, LocksHeld, FoundIsObj
  <1>9. ASSUME NEW t \in Threads, DisclaimProc(t) PROVE RefsKept'
    BY <1>9 DEF DisclaimProc, DisclaimedIsOld, FoundIsObj
  <1>10. ASSUME NEW t \in Threads, OutOfMemory(t) PROVE RefsKept'
    BY <1>10 DEF OutOfMemory
  <1>11. ASSUME NEW t \in Threads, NEW o \in Addrs, SweepMarked(t, o) PROVE RefsKept'
    BY <1>11 DEF SweepMarked
  <1>12. ASSUME NEW t \in Threads, NEW o \in Addrs, SweepUnmarked(t, o) PROVE RefsKept'
    BY <1>12 DEF SweepUnmarked, Races, JustFound
  <1>13. ASSUME NEW t \in Threads, NEW o \in Addrs, Allocated(t, o) \/ TakeFree(t, o)
         PROVE  RefsKept'
    BY <1>13 DEF Allocated, TakeFree
  <1>14. ASSUME NEW t \in Threads, NEW o \in Addrs, Drop(t, o) PROVE RefsKept'
    BY <1>14 DEF Drop
  <1> QED
    BY <1>1, <1>2, <1>3, <1>4, <1>5, <1>6, <1>7, <1>8, <1>9, <1>10, <1>11, <1>12, <1>13,
       <1>14 DEF HconsNext

(* Whatever the threads, the collector and the lazy sweep do, what a       *)
(* client refers to stays in its set and what is found is the object of    *)
(* the key, unless a sweep had found the object unmarked, and not dropped  *)
(* it yet, when it was found, or found it unmarked before it was marked.   *)
THEOREM RefsStay == HconsSpec => []RefsInTable
  <1>1. RefsKept => RefsInTable
    BY DEF RefsKept, RefsInTable
  <1>2. IInv /\ RefsKept /\ [HconsNext]_hcons_vars => RefsKept'
    BY RefsKeptStep
  <1> QED
    BY InitInv, Inductive, InitRefsKept, <1>1, <1>2, PTL DEF HconsSpec
=============================================================================
