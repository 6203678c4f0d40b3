------------------------------- MODULE Hcons -------------------------------
(***************************************************************************)
(* Hash-consed allocation (cuoo/halloc_disclaim.c, cuoo/oalloc.c) by       *)
(* several threads, with the garbage collector that reclaims the objects.  *)
(*                                                                         *)
(* The hash-consing sets do not keep their objects alive.  The collector   *)
(* marks what the threads can reach with the world stopped, and sweeps     *)
(* lazily: whichever thread allocates next holds the collector's lock and  *)
(* goes through unswept objects, while the other threads run.  It offers   *)
(* an unmarked object to cuooP_hcons_disclaim_proc, which takes it out of  *)
(* its set, or keeps it if the set is locked.                              *)
(*                                                                         *)
(* A set is the set of its objects: Hset has its tables.                   *)
(*                                                                         *)
(* The variable raced is not of the program: it records which objects were *)
(* found by one thread while the sweep of another one gave them up.        *)
(***************************************************************************)
EXTENDS Naturals, FiniteSets, TLC

CONSTANTS
    Threads,
    Keys,       \* what is hash-consed: a meta and the words of a key
    Addrs,      \* the addresses the collector can hand out
    Hsets,      \* _hset_arr
    HsetOf,     \* _hset_for_hash of a key's hash
    Free,       \* the contents of an object on a free list of the collector
    None        \* no thread or no object

ASSUME HconsAssumption ==
    /\ IsFiniteSet(Threads)
    /\ HsetOf \in [Keys -> Hsets]
    /\ Free \notin Keys
    /\ None \notin Threads \cup Addrs

VARIABLES
    heap,       \* the key each object was made for, or Free
    tab,        \* the objects in each set
    lock,       \* hset->mutex
    gclock,     \* the collector's allocation lock
    marked,     \* the mark bits
    unswept,    \* objects not yet swept since the last collection
    refs,       \* the objects the client of each thread refers to
    pc, key, obj, \* where each thread is, its argument, its object at hand
    raced       \* objects found between the two steps of a sweep that drop them,
                \* or dropped between a find and its marking

hcons_vars == <<heap, tab, lock, gclock, marked, unswept, refs, pc, key, obj, raced>>
collector == <<heap, gclock, marked, unswept>>

(* cuooP_hcons_init                                                        *)
HconsInit ==
    /\ heap = [o \in Addrs |-> Free]
    /\ tab = [h \in Hsets |-> {}]
    /\ lock = [h \in Hsets |-> None]
    /\ gclock = None
    /\ marked = {}
    /\ unswept = {}
    /\ refs = [t \in Threads |-> {}]
    /\ pc = [t \in Threads |-> "idle"]
    /\ key \in [Threads -> Keys]
    /\ obj = [t \in Threads |-> None]
    /\ raced = {}

Goto(t, l) == pc' = [pc EXCEPT ![t] = l]
MyHset(t) == HsetOf[key[t]]
Return(t) ==
    /\ refs' = [refs EXCEPT ![t] = @ \cup {obj[t]}]
    /\ obj' = [obj EXCEPT ![t] = None]
    /\ Goto(t, "idle")

-----------------------------------------------------------------------------
(* Thread t has found o when another one is about to drop it, or the other *)
(* way around.                                                             *)
GivenUp(o) == \E u \in Threads : pc[u] = "disclaim" /\ obj[u] = o
JustFound(o) == \E u \in Threads : pc[u] = "found" /\ obj[u] = o
Races(o, race) == raced' = IF race THEN raced \cup {o} ELSE raced

(* The client of t calls cuexP_halloc_raw or cuexP_hxalloc_raw.            *)
Call(t, k) ==
    /\ pc[t] = "idle"
    /\ key' = [key EXCEPT ![t] = k]
    /\ Goto(t, "search")
    /\ UNCHANGED <<collector, tab, lock, refs, obj, raced>>

(* Fault: the mutex is taken only to insert.                               *)
Search_Unlocked(t) ==
    LET h == MyHset(t)
        same == {o \in tab[h] : heap[o] = key[t]}
    IN  /\ pc[t] = "search"
        /\ \/ \E o \in same :
                obj' = [obj EXCEPT ![t] = o] /\ Goto(t, "found") /\ Races(o, GivenUp(o))
           \/ same = {} /\ obj' = obj /\ Goto(t, "alloc") /\ UNCHANGED raced
        /\ UNCHANGED <<collector, tab, lock, refs, key>>

(* Fault: the null link at the end of a chain is taken for a match.        *)
Search_Null(t) ==
    LET same == {o \in tab[MyHset(t)] : heap[o] = key[t]}
    IN  /\ pc[t] = "search"
        /\ lock[MyHset(t)] = None
        /\ obj' = [obj EXCEPT ![t] = IF same = {} THEN None ELSE CHOOSE o \in same : TRUE]
        /\ Goto(t, "found")
        /\ UNCHANGED <<collector, tab, lock, refs, key, raced>>

(* _hset_lock and the search.  If the object is found the mutex is         *)
(* released again; else it is kept until the insertion.                    *)
Search(t) ==
    LET h == MyHset(t)
        same == {o \in tab[h] : heap[o] = key[t]}
    IN  /\ pc[t] = "search"
        /\ lock[h] = None
        /\ \/ /\ \E o \in same : obj' = [obj EXCEPT ![t] = o] /\ Races(o, GivenUp(o))
              /\ Goto(t, "found")
              /\ UNCHANGED lock
           \/ /\ same = {}
              /\ lock' = [lock EXCEPT ![h] = t]
              /\ Goto(t, "alloc")
              /\ UNCHANGED <<obj, raced>>
        /\ UNCHANGED <<collector, tab, refs, key>>

(* Fault: the object found is not marked.                                  *)
MarkFound_Not(t) ==
    /\ pc[t] = "found"
    /\ Return(t)
    /\ UNCHANGED <<collector, tab, lock, key, raced>>

(* found: _obj_mark, after the mutex has been released.                    *)
MarkFound(t) ==
    /\ pc[t] = "found"
    /\ marked' = marked \cup {obj[t]}
    /\ Return(t)
    /\ UNCHANGED <<heap, gclock, unswept, tab, lock, key, raced>>

(* _obj_new enters the allocator of the collector, with hset->mutex held,  *)
(* as the free list of the thread is empty.                                *)
EnterAllocator(t) ==
    /\ pc[t] = "alloc"
    /\ gclock = None
    /\ gclock' = t
    /\ Goto(t, "gc")
    /\ UNCHANGED <<heap, marked, unswept, tab, lock, refs, key, obj, raced>>

(* A collection: the world is stopped, what the clients and the local      *)
(* variables of the threads refer to is marked, everything is unswept.     *)
Collect(t) ==
    /\ pc[t] = "gc"
    /\ unswept = {}
    /\ \E o \in Addrs : heap[o] # Free
    /\ marked' = UNION {refs[u] \cup ({obj[u]} \ {None}) : u \in Threads}
    /\ unswept' = {o \in Addrs : heap[o] # Free}
    /\ raced' = raced \cap marked'
    /\ UNCHANGED <<heap, gclock, tab, lock, refs, pc, key, obj>>

(* The sweep passes a marked object.                                       *)
SweepMarked(t, o) ==
    /\ pc[t] = "gc"
    /\ o \in unswept \cap marked
    /\ unswept' = unswept \ {o}
    /\ UNCHANGED <<heap, gclock, marked, tab, lock, refs, pc, key, obj, raced>>

(* The sweep finds an object unmarked and calls the disclaim procedure.    *)
SweepUnmarked(t, o) ==
    /\ pc[t] = "gc"
    /\ o \in unswept \ marked
    /\ obj' = [obj EXCEPT ![t] = o]
    /\ Goto(t, "disclaim")
    /\ Races(o, JustFound(o))
    /\ UNCHANGED <<collector, tab, lock, refs, key>>

(* cuooP_hcons_disclaim_proc: if the mutex cannot be had at once, the      *)
(* object is kept till the next collection; else it is erased, and the     *)
(* collector reclaims it.                                                  *)
DisclaimProc(t) ==
    LET o == obj[t]
        h == HsetOf[heap[o]]
    IN  /\ pc[t] = "disclaim"
        /\ IF lock[h] # None
           THEN marked' = marked \cup {o} /\ UNCHANGED <<heap, tab>>
           ELSE /\ tab' = [tab EXCEPT ![h] = @ \ {o}]
                /\ heap' = [heap EXCEPT ![o] = Free]
                /\ UNCHANGED marked
        /\ unswept' = unswept \ {o}
        /\ obj' = [obj EXCEPT ![t] = None]
        /\ Goto(t, "gc")
        /\ UNCHANGED <<gclock, lock, refs, key, raced>>

(* The allocator returns an object from a free list, with the key copied   *)
(* into it.                                                                *)
Allocated(t, o) ==
    /\ pc[t] = "gc"
    /\ heap[o] = Free
    /\ heap' = [heap EXCEPT ![o] = key[t]]
    /\ obj' = [obj EXCEPT ![t] = o]
    /\ gclock' = None
    /\ Goto(t, "insert")
    /\ UNCHANGED <<marked, unswept, tab, lock, refs, key, raced>>

(* An object from the free list of the thread, for which the collector's   *)
(* lock is not needed.                                                     *)
TakeFree(t, o) ==
    /\ pc[t] = "alloc"
    /\ heap[o] = Free
    /\ heap' = [heap EXCEPT ![o] = key[t]]
    /\ obj' = [obj EXCEPT ![t] = o]
    /\ Goto(t, "insert")
    /\ UNCHANGED <<gclock, marked, unswept, tab, lock, refs, key, raced>>

(* inserted: the object is in its set before the mutex is released.        *)
InsertNew(t) ==
    /\ pc[t] = "insert"
    /\ tab' = [tab EXCEPT ![MyHset(t)] = @ \cup {obj[t]}]
    /\ lock' = [lock EXCEPT ![MyHset(t)] = None]
    /\ Return(t)
    /\ UNCHANGED <<collector, key, raced>>

(* cu_raise_out_of_memory, which aborts the program.                       *)
OutOfMemory(t) ==
    /\ pc[t] = "gc"
    /\ unswept = {}
    /\ \A o \in Addrs : heap[o] # Free
    /\ pc' = [u \in Threads |-> "aborted"]
    /\ UNCHANGED <<collector, tab, lock, refs, key, obj, raced>>

Aborted == (\A t \in Threads : pc[t] = "aborted") /\ UNCHANGED hcons_vars

(* The client drops a reference.                                           *)
Drop(t, o) ==
    /\ pc[t] = "idle"
    /\ o \in refs[t]
    /\ refs' = [refs EXCEPT ![t] = @ \ {o}]
    /\ UNCHANGED <<collector, tab, lock, pc, key, obj, raced>>

HconsNext ==
    \/ Aborted
    \/ \E t \in Threads :
        \/ \E k \in Keys : Call(t, k)
        \/ Search(t) \/ MarkFound(t) \/ EnterAllocator(t) \/ InsertNew(t)
        \/ Collect(t) \/ DisclaimProc(t) \/ OutOfMemory(t)
        \/ \E o \in Addrs :
            \/ SweepMarked(t, o) \/ SweepUnmarked(t, o)
            \/ Allocated(t, o) \/ TakeFree(t, o) \/ Drop(t, o)

HconsSpec == HconsInit /\ [][HconsNext]_hcons_vars

\* For small instances: every set has keys, and the keys of a set, the
\* addresses and the threads can be exchanged.
OntoHash == CHOOSE f \in [Keys -> Hsets] : \A h \in Hsets : \E k \in Keys : f[k] = h
Symm == Permutations(Addrs) \cup Permutations(Threads)
            \cup {f \in Permutations(Keys) : \A k \in Keys : HsetOf[f[k]] = HsetOf[k]}

-----------------------------------------------------------------------------
PCs == {"idle", "search", "found", "alloc", "gc", "disclaim", "insert", "aborted"}

HconsTypeOK ==
    /\ heap \in [Addrs -> Keys \cup {Free}]
    /\ tab \in [Hsets -> SUBSET Addrs]
    /\ lock \in [Hsets -> Threads \cup {None}]
    /\ gclock \in Threads \cup {None}
    /\ marked \subseteq Addrs
    /\ unswept \subseteq Addrs
    /\ refs \in [Threads -> SUBSET Addrs]
    /\ pc \in [Threads -> PCs]
    /\ key \in [Threads -> Keys]
    /\ obj \in [Threads -> Addrs \cup {None}]
    /\ raced \subseteq Addrs

(* Every set holds only objects that have not been reclaimed, under the    *)
(* hash of their own key, and at most one object per key: the search and   *)
(* the insertion cannot be split by another thread or by the collector.    *)
TabSound ==
    \A h \in Hsets :
        /\ \A o \in tab[h] : heap[o] # Free /\ HsetOf[heap[o]] = h
        /\ \A o, p \in tab[h] : heap[o] = heap[p] => o = p

(* Equal keys have equal addresses, for as long as a client refers to the  *)
(* object: whatever the threads, the sweep and the tables do, what has     *)
(* been found is the object of the key, and stays in its set while it is   *)
(* referred to.  The exception is an object that was found by one thread   *)
(* while another one's sweep had found it unmarked and not dropped it yet, *)
(* or which a sweep found unmarked before the finder could mark it.        *)
InTable(o) == heap[o] # Free /\ o \in tab[HsetOf[heap[o]]]
RefsInTable ==
    \A t \in Threads :
        /\ \A o \in refs[t] \ raced : InTable(o)
        /\ pc[t] = "found" /\ obj[t] \notin raced => InTable(obj[t]) /\ heap[obj[t]] = key[t]

(* The assertion at the end of the found path of cuexP_halloc_raw and of   *)
(* cuexP_hxalloc_raw: what was found is still the object of the key.       *)
FoundKeyIntact ==
    \A t \in Threads : pc[t] = "found" => heap[obj[t]] = key[t]
=============================================================================
