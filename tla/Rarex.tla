------------------------------- MODULE Rarex -------------------------------
(***************************************************************************)
(* cu/rarex.[ch]: read-write locks of one word, and the chain of thread    *)
(* states of cu/tstate.c on which the waiting threads are found.           *)
(*                                                                         *)
(* The word is the number of readers plus WRITE_MULTIPLIER times the       *)
(* number of writers, those who wait included.  Who finds it free goes on  *)
(* with one atomic operation; the others take the global mutex, count the  *)
(* threads which are not accounted for as jammed, and jam themselves or    *)
(* release others.  The word is read once there, and the rest is about     *)
(* state that the mutex protects: it is one step here, up to the wait.     *)
(***************************************************************************)
EXTENDS Integers, Sequences, FiniteSets, SequencesExt

CONSTANTS
    Threads,
    WRITE_MULTIPLIER,
    MaxDepth    \* bound: the read locks a thread holds at a time

VARIABLES
    word,   \* the lock
    chain,  \* cuP_tstate_chain, the states of the running threads
    jam,    \* "read" or "write" if the thread's jammed_on_rarex is the lock
            \* (the latter if jammed_on_write), "no" otherwise
    pc,     \* where each thread is
    depth,  \* the number of read locks a thread holds
    asserts \* whether the assertions held, or a state was found to release

vars == <<word, chain, jam, pc, depth, asserts>>

Running == {chain[i] : i \in DOMAIN chain}

(* cu_rarex_init *)
Init ==
    /\ word = 0
    /\ chain = << >>
    /\ jam = [t \in Threads |-> "no"]
    /\ pc = [t \in Threads |-> "idle"]
    /\ depth = [t \in Threads |-> 0]
    /\ asserts = TRUE

Goto(t, l) == pc' = [pc EXCEPT ![t] = l]
Gets(t) == depth' = [depth EXCEPT ![t] = @ + 1]
mutexed == <<chain, jam, asserts>>

-----------------------------------------------------------------------------
(* _tstate_init and _tstate_destruct of cu/tstate.c. *)
tstate_init(t) ==
    /\ t \notin Running
    /\ chain' = <<t>> \o chain
    /\ UNCHANGED <<word, jam, pc, depth, asserts>>

tstate_destruct(t) ==
    /\ pc[t] = "idle" /\ depth[t] = 0
    /\ \E i \in DOMAIN chain : chain[i] = t /\ chain' = RemoveAt(chain, i)
    /\ UNCHANGED <<word, jam, pc, depth, asserts>>

-----------------------------------------------------------------------------
Jammed == {t \in Running : jam[t] # "no"}

\* The number of threads that have access or are about to jam.
TotalCount == (word \div WRITE_MULTIPLIER) + (word % WRITE_MULTIPLIER)
unaccounted_count == TotalCount - Cardinality(Jammed)
CountSane == Cardinality(Jammed) <= TotalCount

Asserted(p) == asserts' = (asserts /\ p)

(* pthread_cond_broadcast: those asleep on dorm go on to the test.         *)
Woken(p, dorm, test) == [u \in Threads |-> IF p[u] = dorm THEN test ELSE p[u]]

\* The first writer of the chain which is jammed.
FirstWriter ==
    chain[CHOOSE i \in DOMAIN chain :
            /\ jam[chain[i]] = "write"
            /\ \A j \in 1 .. (i - 1) : jam[chain[j]] # "write"]

(* One writer is released, but all are woken up.  j and p are what the     *)
(* thread has done to its own state before the mutex is given up.          *)
release_a_writer(j, p) ==
    /\ Asserted(\E u \in Running : jam[u] = "write")
    /\ jam' = IF \E u \in Running : jam[u] = "write" THEN [j EXCEPT ![FirstWriter] = "no"] ELSE j
    /\ pc' = Woken(p, "writer_dorm", "writer_test")

release_all_readers(p) ==
    /\ Asserted(\A u \in Jammed : jam[u] # "write")
    /\ jam' = [u \in Threads |-> IF u \in Running THEN "no" ELSE jam[u]]
    /\ pc' = Woken(p, "reader_dorm", "reader_test")

-----------------------------------------------------------------------------
(* cu_rarex_lock_read *)
lock_read(t) ==
    /\ t \in Running /\ pc[t] = "idle"
    /\ depth[t] < MaxDepth
    /\ word' = word + 1
    /\ IF word >= WRITE_MULTIPLIER
       THEN Goto(t, "read_slow") /\ UNCHANGED depth
       ELSE Gets(t) /\ UNCHANGED pc
    /\ UNCHANGED mutexed

(* cuP_rarex_lock_read: the writer has left, or the reader jams, and       *)
(* releases a writer first if it is the last one to do so.                 *)
cuP_rarex_lock_read(t) ==
    /\ pc[t] = "read_slow"
    /\ IF word < WRITE_MULTIPLIER
       THEN /\ Gets(t)
            /\ IF word > 1
               THEN release_all_readers([pc EXCEPT ![t] = "idle"])
               ELSE Goto(t, "idle") /\ UNCHANGED <<jam, asserts>>
       ELSE /\ UNCHANGED depth
            /\ IF unaccounted_count = 1
               THEN release_a_writer([jam EXCEPT ![t] = "read"], [pc EXCEPT ![t] = "reader_dorm"])
               ELSE /\ jam' = [jam EXCEPT ![t] = "read"]
                    /\ Asserted(CountSane)
                    /\ Goto(t, "reader_dorm")
    /\ UNCHANGED <<word, chain>>

(* Fault: the writer which the last reader has been holding up is left.    *)
unlock_read_Quiet(t) ==
    /\ pc[t] = "idle" /\ depth[t] > 0
    /\ word' = word - 1
    /\ depth' = [depth EXCEPT ![t] = @ - 1]
    /\ UNCHANGED <<pc, mutexed>>

(* cu_rarex_unlock_read *)
unlock_read(t) ==
    /\ pc[t] = "idle" /\ depth[t] > 0
    /\ word' = word - 1
    /\ depth' = [depth EXCEPT ![t] = @ - 1]
    /\ Goto(t, IF word > WRITE_MULTIPLIER THEN "wake_up" ELSE "idle")
    /\ UNCHANGED mutexed

(* cu_rarex_trylock_read counts the thread as a reader before it knows.    *)
trylock_read(t) ==
    /\ t \in Running /\ pc[t] = "idle"
    /\ depth[t] < MaxDepth
    /\ word' = word + 1
    /\ IF word >= WRITE_MULTIPLIER
       THEN Goto(t, "undo") /\ UNCHANGED depth
       ELSE Gets(t) /\ UNCHANGED pc
    /\ UNCHANGED mutexed

trylock_read_Undo(t) ==
    /\ pc[t] = "undo"
    /\ word' = word - 1
    /\ Goto(t, IF word > WRITE_MULTIPLIER THEN "wake_up" ELSE "idle")
    /\ UNCHANGED <<depth, mutexed>>

(* cu_rarex_lock_write: the caller has no access to the lock.              *)
lock_write(t) ==
    /\ t \in Running /\ pc[t] = "idle" /\ depth[t] = 0
    /\ word' = word + WRITE_MULTIPLIER
    /\ Goto(t, IF word > 0 THEN "write_slow" ELSE "write")
    /\ UNCHANGED <<depth, mutexed>>

(* Fault: the count of those who are not jammed is not looked at.          *)
cuP_rarex_lock_write_Bold(t) ==
    /\ pc[t] = "write_slow"
    /\ IF word > 2 * WRITE_MULTIPLIER
       THEN jam' = [jam EXCEPT ![t] = "write"] /\ Goto(t, "writer_dorm")
       ELSE UNCHANGED jam /\ Goto(t, "write")
    /\ UNCHANGED <<word, chain, depth, asserts>>

cuP_rarex_lock_write(t) ==
    /\ pc[t] = "write_slow"
    /\ Asserted(CountSane)
    /\ IF unaccounted_count > 1
       THEN jam' = [jam EXCEPT ![t] = "write"] /\ Goto(t, "writer_dorm")
       ELSE UNCHANGED jam /\ Goto(t, "write")
    /\ UNCHANGED <<word, chain, depth>>

(* cu_rarex_trylock_write *)
trylock_write(t) ==
    /\ t \in Running /\ pc[t] = "idle" /\ depth[t] = 0
    /\ word = 0
    /\ word' = WRITE_MULTIPLIER
    /\ Goto(t, "write")
    /\ UNCHANGED <<depth, mutexed>>

(* cu_rarex_unlock_write *)
unlock_write(t) ==
    /\ pc[t] = "write"
    /\ word' = word - WRITE_MULTIPLIER
    /\ Goto(t, IF word > WRITE_MULTIPLIER THEN "wake_up" ELSE "idle")
    /\ UNCHANGED <<depth, mutexed>>

(* cu_rarex_try_promote: the caller's read lock is the only one.           *)
try_promote(t) ==
    /\ pc[t] = "idle" /\ depth[t] = 1
    /\ word = 1
    /\ word' = WRITE_MULTIPLIER
    /\ depth' = [depth EXCEPT ![t] = 0]
    /\ Goto(t, "write")
    /\ UNCHANGED mutexed

(* cuP_rarex_wake_up *)
wake_up(t) ==
    /\ pc[t] = "wake_up"
    /\ \/ /\ 0 < word /\ word < WRITE_MULTIPLIER
          /\ release_all_readers([pc EXCEPT ![t] = "idle"])
       \/ /\ word >= WRITE_MULTIPLIER /\ unaccounted_count = 0
          /\ release_a_writer(jam, [pc EXCEPT ![t] = "idle"])
       \/ /\ word = 0 \/ (word >= WRITE_MULTIPLIER /\ unaccounted_count # 0)
          /\ Asserted(word = 0 \/ CountSane)
          /\ Goto(t, "idle") /\ UNCHANGED jam
    /\ UNCHANGED <<word, chain, depth>>

(* The loops around pthread_cond_wait: a thread that has been released has *)
(* access, another one goes back to sleep.                                 *)
reader_test(t) ==
    /\ pc[t] = "reader_test"
    /\ IF jam[t] = "no" THEN Gets(t) /\ Goto(t, "idle")
       ELSE UNCHANGED depth /\ Goto(t, "reader_dorm")
    /\ UNCHANGED <<word, mutexed>>

writer_test(t) ==
    /\ pc[t] = "writer_test"
    /\ Goto(t, IF jam[t] = "no" THEN "write" ELSE "writer_dorm")
    /\ UNCHANGED <<word, depth, mutexed>>

(* pthread_cond_wait may return for no reason.                             *)
SpuriousWakeup(t) ==
    /\ \/ pc[t] = "reader_dorm" /\ Goto(t, "reader_test")
       \/ pc[t] = "writer_dorm" /\ Goto(t, "writer_test")
    /\ UNCHANGED <<word, depth, mutexed>>

Read(t) == lock_read(t) \/ cuP_rarex_lock_read(t) \/ unlock_read(t) \/ reader_test(t)
             \/ trylock_read(t) \/ trylock_read_Undo(t) \/ try_promote(t)
Write(t) == lock_write(t) \/ cuP_rarex_lock_write(t) \/ unlock_write(t) \/ writer_test(t)
              \/ trylock_write(t)

Next ==
    \E t \in Threads :
        tstate_init(t) \/ tstate_destruct(t) \/ Read(t) \/ Write(t)
            \/ wake_up(t) \/ SpuriousWakeup(t)

Spec == Init /\ [][Next]_vars

-----------------------------------------------------------------------------
Writers == {t \in Threads : pc[t] = "write"}
Readers == {t \in Threads : depth[t] > 0}

(* A writer has the lock for itself, though the threads which jam, try and *)
(* give up are counted in the same word as those who have access; and the  *)
(* assertions of rarex.c hold.                                             *)
Exclusion ==
    /\ Cardinality(Writers) <= 1
    /\ Writers # {} => Readers = {}
    /\ asserts

\* Threads that will do something about the lock before they wait for it.
Active ==
    {t \in Threads :
        \/ jam[t] = "no" /\ pc[t] \in {"write", "read_slow", "write_slow", "undo", "wake_up",
                                      "reader_test", "writer_test"}
        \/ pc[t] = "idle" /\ depth[t] > 0}

(* No thread is forgotten: as long as one is jammed, another one has       *)
(* access, or is on its way to have it or to wake up others.  A jammed     *)
(* thread which has been released is not left asleep.                      *)
NoneForgotten ==
    /\ Jammed # {} => Active # {}
    /\ \A t \in Threads :
        /\ pc[t] = "reader_dorm" => jam[t] = "read"
        /\ pc[t] = "writer_dorm" => jam[t] = "write"
=============================================================================
