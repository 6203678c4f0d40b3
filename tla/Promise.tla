------------------------------ MODULE Promise ------------------------------
(***************************************************************************)
(* cuflow/promise.[ch]: a computation which is started by the first thread *)
(* that asks for its result, and helped or waited for by the others.       *)
(*                                                                         *)
(* The promise has a state, a word which only grows, and a union of the    *)
(* initiator, the work queue and the value.  The initiator puts a first    *)
(* job on the work queue; each job makes one transition of the state and   *)
(* schedules the next job, so that the transitions are in order, as the    *)
(* code asks of its client.                                                *)
(*                                                                         *)
(* Of the global work queue this has whether a job is on the queue of the  *)
(* promise, whether that queue is linked, and gworkq_priority, the hint by *)
(* which searches decide whether there is a job at all.  A thread that     *)
(* waits reads the hint with the mutex; one that only helps reads it       *)
(* without, and writes it back.  GWorkq has queues of several priorities.  *)
(***************************************************************************)
EXTENDS Integers, Sequences, FiniteSets

CONSTANTS
    Threads,
    Want,       \* the state each thread asks for
    Plans,      \* the computations: the transitions of the jobs of each,
                \* <<"set", s>>, <<"fulfil", v>> or <<"inc">>
    Fulfilled,  \* cuflow_promise_state_fulfilled
    QPri,       \* the priority of the threads that ask for the promise, and
                \* hence of its queue
    Helpers,    \* bound: the threads that look for work before they ask
    Cutoffs,    \* the arguments of cuflow_gworkq_yield_at by these
    Null,       \* the union after the queue has been unlinked
    NoThread    \* an unlocked mutex

latent == 0
initiated == 1

VARIABLES
    plan,       \* the computation, which does not change
    state,      \* promise->state
    u0,         \* promise->u0
    done,       \* transitions of the plan that have been started
    queued,     \* whether a job is on the work queue
    linked,     \* whether gflexq->next is set
    hint,       \* gworkq_priority, read as an int
    slip,       \* history: whether a raise of the hint was undone by a copy
                \* made before it, or had no effect on the word -1
    mutex,      \* cuflowP_gworkq_mutex
    pc,         \* where each thread is
    old,        \* what a thread's increment made of the state
    cutoff, gp, \* the lowest priority a helper looks at, and its copy of
                \* the hint
    resume,     \* where a thread continues after a job
    value       \* what cuflow_promise_fulfill returned to each thread

vars == <<plan, state, u0, done, queued, linked, hint, slip, mutex, pc, old, cutoff, gp, resume, value>>
queue == <<queued, linked, hint, slip>>
promise == <<state, u0, done, queue>>
local == <<plan, old, cutoff, gp, resume, value>>

(* cuflow_promise_init *)
Init ==
    /\ plan \in Plans
    /\ state = latent
    /\ u0 = "initiator"
    /\ done = 0
    /\ queued = FALSE
    /\ linked = FALSE
    /\ hint = 0
    /\ slip = FALSE
    /\ mutex = NoThread
    /\ pc = [t \in Threads |-> "idle"]
    /\ old = [t \in Threads |-> latent]
    /\ cutoff = [t \in Threads |-> 0]
    /\ gp = [t \in Threads |-> 0]
    /\ resume = [t \in Threads |-> "idle"]
    /\ value = [t \in Threads |-> "none"]

Goto(t, l) == pc' = [pc EXCEPT ![t] = l]
Broadcast(t, l) ==
    pc' = [u \in Threads |-> IF u = t THEN l
                             ELSE IF pc[u] = "sleep" THEN "woken" ELSE pc[u]]

(* cuflow_gworkq_sched in the queue of the promise: only the call that     *)
(* links the queue broadcasts.  The hint is raised either way, unless it   *)
(* is -1: the comparison is between unsigned words.                        *)
Schedule(t, l) ==
    /\ queued' = TRUE
    /\ linked' = TRUE
    /\ hint' = IF hint = -1 \/ hint > QPri THEN hint ELSE QPri
    /\ slip' = (slip \/ hint = -1)
    /\ IF linked THEN Goto(t, l) ELSE Broadcast(t, l)

Lock(t, from, to) ==
    /\ pc[t] = from
    /\ mutex = NoThread
    /\ mutex' = t
    /\ Goto(t, to)
    /\ UNCHANGED <<promise, local>>

-----------------------------------------------------------------------------
(* cuflow_promise_process: the test without the mutex.                     *)
Process(t) ==
    /\ pc[t] = "idle"
    /\ Goto(t, IF state < Want[t] THEN "lock" ELSE "return")
    /\ UNCHANGED <<promise, mutex, local>>

ProcessLock(t) == Lock(t, "lock", "enter")

(* Fault: the initiator is run before the state says so.                   *)
Enter_Late(t) ==
    /\ pc[t] = "enter"
    /\ IF state = latent
       THEN /\ u0' = "gflexq"
            /\ mutex' = NoThread
            /\ Goto(t, "initiator")
            /\ UNCHANGED state
       ELSE UNCHANGED <<u0, state, mutex>> /\ Goto(t, "test")
    /\ UNCHANGED <<done, queue, local>>

(* cuflowP_promise_process: the first thread replaces the initiator by a   *)
(* work queue and runs it, without the mutex.                              *)
Enter(t) ==
    /\ pc[t] = "enter"
    /\ IF state = latent
       THEN /\ u0' = "gflexq"
            /\ state' = initiated
            /\ mutex' = NoThread
            /\ Goto(t, "initiator")
       ELSE UNCHANGED <<u0, state, mutex>> /\ Goto(t, "test")
    /\ UNCHANGED <<done, queue, local>>

(* The initiator schedules the first job.                                  *)
Initiator(t) ==
    /\ pc[t] = "initiator"
    /\ mutex = NoThread
    /\ Schedule(t, "relock")
    /\ UNCHANGED <<state, u0, done, mutex, local>>

Relock(t) == Lock(t, "relock", "test")

(* The loop of cuflowP_promise_process.                                    *)
Test(t) ==
    /\ pc[t] = "test"
    /\ IF state < Want[t]
       THEN Goto(t, "yield") /\ UNCHANGED mutex
       ELSE Goto(t, "return") /\ mutex' = NoThread
    /\ UNCHANGED <<promise, local>>

\* The locals of a search are gone when it ends.
Forget(t) == cutoff' = [cutoff EXCEPT ![t] = 0] /\ gp' = [gp EXCEPT ![t] = 0]

\* gworkq_yield_at finds a job, searching down from the priority given, and
\* takes it, to run it without the mutex; afterwards the thread is at l.
TakeJob(t, from, l) ==
    /\ QPri <= from
    /\ queued
    /\ queued' = FALSE
    /\ hint' = QPri
    /\ done' = done + 1
    /\ resume' = [resume EXCEPT ![t] = l]
    /\ Goto(t, "job")
    /\ Forget(t)
    /\ UNCHANGED <<state, u0, linked, slip, plan, old, value>>

\* It finds none from there down to the cutoff.  The empty queue is unlinked
\* if it was looked at, and the hint set below what was.
NoJob(from, down_to) ==
    /\ QPri <= from => ~queued
    /\ linked' = (linked /\ from < QPri)
    /\ hint' = IF down_to <= from THEN down_to - 1 ELSE from
    /\ UNCHANGED <<state, u0, done, queued>>

(* cuflow_gworkq_yield_gcond_glck: a job is run, or the hint or an empty   *)
(* queue say that there is none, and the thread waits.                     *)
YieldJob(t) ==
    /\ pc[t] = "yield"
    /\ TakeJob(t, hint, "relock")
    /\ mutex' = NoThread

CondWait(t) ==
    /\ pc[t] = "yield"
    /\ NoJob(hint, QPri)
    /\ mutex' = NoThread
    /\ Goto(t, "sleep")
    /\ UNCHANGED <<slip, local>>

(* Fault: the state is not tested again after the wait.                    *)
Woken_NoTest(t) == Lock(t, "woken", "return")

Woken(t) == Lock(t, "woken", "test")

(* pthread_cond_wait may return for no reason.                             *)
SpuriousWakeup(t) ==
    /\ pc[t] = "sleep"
    /\ Goto(t, "woken")
    /\ UNCHANGED <<promise, mutex, local>>

(* The call returns; the value is what the union holds.                    *)
Return(t) ==
    /\ pc[t] = "return"
    /\ value' = [value EXCEPT ![t] = IF Want[t] = Fulfilled THEN u0 ELSE "none"]
    /\ Goto(t, "done")
    /\ UNCHANGED <<promise, mutex, plan, old, cutoff, gp, resume>>

(* A thread which does not wait for the promise looks for work with        *)
(* cuflow_gworkq_yield_at.  It tests the hint without the mutex ...        *)
Help(t) ==
    /\ pc[t] = "idle" /\ t \in Helpers
    /\ \E c \in Cutoffs :
        /\ c <= hint
        /\ cutoff' = [cutoff EXCEPT ![t] = c]
    /\ Goto(t, "read")
    /\ UNCHANGED <<promise, mutex, plan, old, gp, resume, value>>

(* ... reads it again, still without the mutex ...                         *)
ReadHint(t) ==
    /\ pc[t] = "read"
    /\ gp' = [gp EXCEPT ![t] = hint]
    /\ Goto(t, "scan")
    /\ UNCHANGED <<promise, mutex, plan, old, cutoff, resume, value>>

(* ... and searches down from this copy with the mutex held.               *)
HelpJob(t) ==
    /\ pc[t] = "scan"
    /\ mutex = NoThread
    /\ TakeJob(t, gp[t], "idle")
    /\ UNCHANGED mutex

HelpNone(t) ==
    /\ pc[t] = "scan"
    /\ mutex = NoThread
    /\ NoJob(gp[t], cutoff[t])
    /\ slip' = (slip \/ gp[t] < hint)
    /\ Forget(t)
    /\ Goto(t, "idle")
    /\ UNCHANGED <<mutex, plan, old, resume, value>>

-----------------------------------------------------------------------------
\* The transition of the job at hand.
Step == plan[done]
Target == IF Step[1] = "fulfil" THEN Fulfilled ELSE Step[2]

(* cuflow_promise_set_state and cuflow_promise_set_fulfilled read the      *)
(* state and, if it passes to fulfilled, take the mutex.                   *)
LoadState(t) ==
    /\ pc[t] = "job"
    /\ Step[1] \in {"set", "fulfil"}
    /\ Goto(t, IF Target >= Fulfilled /\ state < Fulfilled THEN "setlock"
               ELSE IF state < Target THEN "store" ELSE "next")
    /\ UNCHANGED <<promise, mutex, local>>

(* Fault: the state is stored before the value, without the mutex.         *)
StoreFulfilled_StateFirst(t) ==
    /\ pc[t] = "setlock"
    /\ IF state < Target
       THEN state' = Target /\ UNCHANGED <<u0, pc>>
       ELSE /\ u0' = IF Step[1] = "fulfil" THEN Step[2] ELSE Null
            /\ Goto(t, "broadcast")
            /\ UNCHANGED state
    /\ UNCHANGED <<done, queue, mutex, local>>

(* The value and the state are stored with the mutex held.                 *)
StoreFulfilled(t) ==
    /\ pc[t] = "setlock"
    /\ mutex = NoThread
    /\ u0' = IF Step[1] = "fulfil" THEN Step[2] ELSE Null
    /\ state' = Target
    /\ Goto(t, "broadcast")
    /\ UNCHANGED <<done, queue, mutex, local>>

(* set_state to a state before fulfilled stores it without the mutex.      *)
StoreState(t) ==
    /\ pc[t] = "store"
    /\ state' = Target
    /\ Goto(t, "broadcast")
    /\ UNCHANGED <<u0, done, queue, mutex, local>>

Announce(t) ==
    /\ pc[t] = "broadcast"
    /\ Broadcast(t, "next")
    /\ UNCHANGED <<promise, mutex, local>>

(* cuflow_promise_increment_state: the addition, without the mutex.        *)
Increment(t) ==
    /\ pc[t] = "job"
    /\ Step[1] = "inc"
    /\ state' = state + 1
    /\ old' = [old EXCEPT ![t] = state + 1]
    /\ Goto(t, "incbroadcast")
    /\ UNCHANGED <<u0, done, queue, mutex, plan, cutoff, gp, resume, value>>

IncrementAnnounce(t) ==
    /\ pc[t] = "incbroadcast"
    /\ Broadcast(t, IF old[t] = Fulfilled THEN "unlink" ELSE "next")
    /\ UNCHANGED <<promise, mutex, local>>

(* The queue is unlinked after the state has become fulfilled.             *)
IncrementUnlink(t) ==
    /\ pc[t] = "unlink"
    /\ mutex = NoThread
    /\ u0' = Null
    /\ Goto(t, "next")
    /\ UNCHANGED <<state, done, queue, mutex, local>>

(* The job schedules the next one, if any, and returns.                    *)
JobEnd(t) ==
    /\ pc[t] = "next"
    /\ mutex = NoThread
    /\ IF done < Len(plan)
       THEN Schedule(t, resume[t])
       ELSE UNCHANGED queue /\ Goto(t, resume[t])
    /\ resume' = [resume EXCEPT ![t] = "idle"]
    /\ UNCHANGED <<state, u0, done, mutex, plan, old, cutoff, gp, value>>

Finished == (\A t \in Threads : pc[t] = "done") /\ UNCHANGED vars

Wait(t) == ProcessLock(t) \/ Enter(t) \/ Initiator(t) \/ Relock(t) \/ Test(t)
             \/ YieldJob(t) \/ CondWait(t) \/ Woken(t) \/ Return(t)
Helping(t) == ReadHint(t) \/ HelpJob(t) \/ HelpNone(t)
Job(t) == LoadState(t) \/ StoreFulfilled(t) \/ StoreState(t) \/ Announce(t)
            \/ Increment(t) \/ IncrementAnnounce(t) \/ IncrementUnlink(t) \/ JobEnd(t)

Next ==
    \/ Finished
    \/ \E t \in Threads :
        Process(t) \/ Wait(t) \/ Help(t) \/ Helping(t) \/ Job(t)
            \/ SpuriousWakeup(t)

Spec == Init /\ [][Next]_vars

(* Threads which are not blocked run, and mutexes do not starve them.      *)
Fairness == \A t \in Threads : SF_vars(Wait(t) \/ Helping(t) \/ Job(t))

LiveSpec == Spec /\ Fairness

-----------------------------------------------------------------------------
WaitPCs == {"lock", "enter", "initiator", "relock", "test", "yield", "sleep",
            "woken", "return"}
JobPCs == {"job", "setlock", "store", "broadcast", "incbroadcast", "unlink", "next"}

TypeOK ==
    /\ state \in 0 .. Fulfilled
    /\ done \in 0 .. Len(plan)
    /\ queued \in BOOLEAN /\ linked \in BOOLEAN
    /\ hint \in -1 .. QPri
    /\ slip \in BOOLEAN
    /\ mutex \in Threads \cup {NoThread}
    /\ pc \in [Threads -> {"idle", "read", "scan", "done"} \cup WaitPCs \cup JobPCs]
    /\ resume \in [Threads -> {"idle", "relock"}]

\* The threads that are, or will be, waking up the others.
WillBroadcast == {t \in Threads : pc[t] \in {"broadcast", "incbroadcast"}}

\* Computations that end with a value, set by cuflow_promise_set_fulfilled.
HasValue == plan[Len(plan)][1] = "fulfil"

(* A thread asleep while the promise it wants fulfilled is, is about to be *)
(* woken, and no thread sleeps while a job is queued: the one broadcast of *)
(* a queue that is linked again comes after its sleep.  The second needs   *)
(* the hint to be right: it may be wrong from when a helper writes a copy  *)
(* back over a raise, or a raise finds -1.                                 *)
NoLostWakeup ==
    \A t \in Threads : pc[t] = "sleep" =>
        /\ HasValue /\ Want[t] = Fulfilled /\ state = Fulfilled => WillBroadcast # {}
        /\ queued => slip

(* The initiator runs once, though the state is tested without the mutex.  *)
InitiatedOnce ==
    Cardinality({t \in Threads : pc[t] = "initiator"})
        <= IF queued \/ done > 0 THEN 0 ELSE 1

(* cuflow_promise_process returns when the state it was asked for has been *)
(* reached, however many transitions and wakeups happened in between.      *)
ReturnsReady ==
    \A t \in Threads : pc[t] \in {"return", "done"} => state >= Want[t]

(* cuflow_promise_fulfill returns the value that was set: no thread can    *)
(* see the state fulfilled and another member of the union.                *)
ValueRight ==
    \A t \in Threads :
        pc[t] = "done" /\ HasValue /\ Want[t] = Fulfilled
            => value[t] = plan[Len(plan)][2]

(* A thread that asks for a state of a promise which is fulfilled in the   *)
(* end, with a value, returns, if the hint is not spoilt.                  *)
WaiterReturns(t) == pc[t] = "lock" /\ HasValue ~> pc[t] = "done" \/ slip

(* cuflow_promise_process waits until the state is reached, and no longer: *)
(* the race which cuflow_promise_set_state admits only means an extra      *)
(* broadcast, and a yield is told of the work there is.                    *)
AllWaitersReturn == \A t \in Threads : pc[t] = "lock" ~> pc[t] = "done"

-----------------------------------------------------------------------------
(* A small instance whose computation passes a state before fulfilled,     *)
(* which is 3, and ends there; all threads wait for that state.            *)
AllTwo == [t \in Threads |-> 2]
Unfulfilled == {<<<<"set", 2>>>>}

(* One whose computation makes two transitions, the second to fulfilled.   *)
AllFulfilled == [t \in Threads |-> Fulfilled]
TwoJobs == {<<<<"inc">>, <<"fulfil", Null>>>>}
=============================================================================
