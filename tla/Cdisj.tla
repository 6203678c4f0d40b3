------------------------------- MODULE Cdisj -------------------------------
(***************************************************************************)
(* cuflow/cdisj.[ch]: atomic counters on which threads wait for zero.      *)
(*                                                                         *)
(* A counter ("cdisj") is a bare atomic word.  The mutex, the condition    *)
(* variable and the count of waiters a waiting thread needs live in a      *)
(* fixed array of stripes shared by every counter that hashes there.  The  *)
(* thread that decrements a counter to zero reads the stripe's count of    *)
(* waiters without the mutex, and skips the broadcast if it is zero.       *)
(*                                                                         *)
(* Every atomic operation, every lock and every wait is a step of its own. *)
(* Memory is sequentially consistent between atomic operations, which is   *)
(* what the locked instructions of libatomic_ops give on x86.              *)
(***************************************************************************)
EXTENDS Naturals, FiniteSets

CONSTANTS
    Threads,    \* threads which use the counters
    Cdisjs,     \* the counters (addresses of cuflow_cdisj_t)
    Stripes,    \* indices of cdisj_stripe_arr
    StripeOf,   \* cdisj_stripe: the stripe a counter hashes to
    CondVals,   \* the cond_val arguments in use: FALSE for wait_while,
                \* TRUE for wait_until
    MaxCount,   \* bound: the largest value of a counter
    NoThread    \* an unlocked mutex

ASSUME CdisjAssumption ==
    /\ StripeOf \in [Cdisjs -> Stripes]
    /\ CondVals \subseteq BOOLEAN
    /\ NoThread \notin Threads
    /\ MaxCount \in Nat

ASSUME ThreadsFinite == IsFiniteSet(Threads)

VARIABLES
    cdisj,          \* the counters
    waiting_count,  \* stripe->waiting_count
    mutex,          \* the thread holding stripe->mutex, or NoThread
    pc,             \* where each thread is
    arg,            \* the counter each thread's current call is about
    cond            \* cond_val of each thread's current wait

vars == <<cdisj, waiting_count, mutex, pc, arg, cond>>

\* The stripe of the counter that t's current call is about.
Stripe(t) == StripeOf[arg[t]]

\* The program counters: of a wait, then of a decrement.
WaitPCs == {"yield", "lock", "count", "test", "wait", "sleep", "woken",
            "uncount", "unlock", "ret"}
BcastPCs == {"load", "block", "bcast", "release"}
PCs == {"idle"} \cup WaitPCs \cup BcastPCs

\* cuflowP_cdisj_init; the counters start at zero.
Init ==
    /\ cdisj = [c \in Cdisjs |-> 0]
    /\ waiting_count = [s \in Stripes |-> 0]
    /\ mutex = [s \in Stripes |-> NoThread]
    /\ pc = [t \in Threads |-> "idle"]
    /\ arg \in [Threads -> Cdisjs]
    /\ cond = [t \in Threads |-> FALSE]

Goto(t, l) == pc' = [pc EXCEPT ![t] = l]

-----------------------------------------------------------------------------
(* The owner of a counter adds one per unit of work it hands out.          *)
Add1(t, c) ==
    /\ pc[t] = "idle"
    /\ cdisj[c] < MaxCount
    /\ cdisj' = [cdisj EXCEPT ![c] = @ + 1]
    /\ UNCHANGED <<waiting_count, mutex, pc, arg, cond>>

(* Fault: the value before the decrement is taken for the one after it.    *)
Sub1_OldIsZero(t, c) ==
    /\ pc[t] = "idle"
    /\ cdisj[c] > 0
    /\ cdisj' = [cdisj EXCEPT ![c] = @ - 1]
    /\ IF cdisj[c] = 0
       THEN Goto(t, "load") /\ arg' = [arg EXCEPT ![t] = c]
       ELSE UNCHANGED <<pc, arg>>
    /\ UNCHANGED <<waiting_count, mutex, cond>>

(* cuflow_cdisj_sub1: only the decrement which reaches zero broadcasts.    *)
(* A thread decrements only for a unit of work which was added.            *)
Sub1(t, c) ==
    /\ pc[t] = "idle"
    /\ cdisj[c] > 0
    /\ cdisj' = [cdisj EXCEPT ![c] = @ - 1]
    /\ IF cdisj[c] = 1
       THEN Goto(t, "load") /\ arg' = [arg EXCEPT ![t] = c]
       ELSE UNCHANGED <<pc, arg>>
    /\ UNCHANGED <<waiting_count, mutex, cond>>

(* Fault: the thread waits for the waiters to leave.                       *)
LoadWaiting_Spin(t) ==
    /\ pc[t] = "load"
    /\ Goto(t, IF waiting_count[Stripe(t)] # 0 THEN "load" ELSE "idle")
    /\ UNCHANGED <<cdisj, waiting_count, mutex, arg, cond>>

(* cuflowP_cdisj_broadcast: the unlocked test of waiting_count.            *)
LoadWaiting(t) ==
    /\ pc[t] = "load"
    /\ Goto(t, IF waiting_count[Stripe(t)] # 0 THEN "block" ELSE "idle")
    /\ UNCHANGED <<cdisj, waiting_count, mutex, arg, cond>>

(* cu_mutex_lock, on either path.                                          *)
Lock(t, from, to) ==
    /\ pc[t] = from
    /\ mutex[Stripe(t)] = NoThread
    /\ mutex' = [mutex EXCEPT ![Stripe(t)] = t]
    /\ Goto(t, to)
    /\ UNCHANGED <<cdisj, waiting_count, arg, cond>>

(* cu_mutex_unlock, on either path.                                        *)
Unlock(t, from, to) ==
    /\ pc[t] = from
    /\ mutex' = [mutex EXCEPT ![Stripe(t)] = NoThread]
    /\ Goto(t, to)
    /\ UNCHANGED <<cdisj, waiting_count, arg, cond>>

BcastLock(t) == Lock(t, "block", "bcast")

(* pthread_cond_broadcast wakes every sleeper of the stripe, whichever     *)
(* counter it sleeps on; each has the mutex to reacquire.                  *)
Broadcast(t) ==
    /\ pc[t] = "bcast"
    /\ pc' = [u \in Threads |->
                 IF u = t THEN "release"
                 ELSE IF pc[u] = "sleep" /\ Stripe(u) = Stripe(t) THEN "woken"
                 ELSE pc[u]]
    /\ UNCHANGED <<cdisj, waiting_count, mutex, arg, cond>>

BcastUnlock(t) == Unlock(t, "release", "idle")

-----------------------------------------------------------------------------
(* cuflow_cdisj_wait_while (v = FALSE) and cuflow_cdisj_wait_until         *)
(* (v = TRUE): both return at once when the counter reads zero.            *)
WaitCall(t, c, v) ==
    /\ pc[t] = "idle"
    /\ arg' = [arg EXCEPT ![t] = c]
    /\ cond' = [cond EXCEPT ![t] = v]
    /\ Goto(t, IF cdisj[c] # 0 THEN "yield" ELSE "ret")
    /\ UNCHANGED <<cdisj, waiting_count, mutex>>

(* cuflow_yield: the thread tends to scheduled work, holding no stripe.    *)
Yield(t) ==
    /\ pc[t] = "yield"
    /\ Goto(t, "lock")
    /\ UNCHANGED <<cdisj, waiting_count, mutex, arg, cond>>

WaitLock(t) == Lock(t, "lock", "count")

(* AO_fetch_and_add1(&stripe->waiting_count)                               *)
Count(t) ==
    /\ pc[t] = "count"
    /\ waiting_count' = [waiting_count EXCEPT ![Stripe(t)] = @ + 1]
    /\ Goto(t, "test")
    /\ UNCHANGED <<cdisj, mutex, arg, cond>>

(* while (!!AO_load(cdisj) != cond_val)                                    *)
Test(t) ==
    /\ pc[t] = "test"
    /\ Goto(t, IF (cdisj[arg[t]] # 0) # cond[t] THEN "wait" ELSE "uncount")
    /\ UNCHANGED <<cdisj, waiting_count, mutex, arg, cond>>

(* pthread_cond_wait: release the mutex and sleep, in one step.            *)
CondWait(t) ==
    /\ pc[t] = "wait"
    /\ mutex' = [mutex EXCEPT ![Stripe(t)] = NoThread]
    /\ Goto(t, "sleep")
    /\ UNCHANGED <<cdisj, waiting_count, arg, cond>>

(* POSIX lets a condition wait return with nobody having signalled.        *)
SpuriousWakeup(t) ==
    /\ pc[t] = "sleep"
    /\ Goto(t, "woken")
    /\ UNCHANGED <<cdisj, waiting_count, mutex, arg, cond>>

(* pthread_cond_wait reacquires the mutex before it returns.               *)
Relock(t) == Lock(t, "woken", "test")

(* Fault: the departing waiter is subtracted twice.                        *)
Uncount_Twice(t) ==
    /\ pc[t] = "uncount"
    /\ waiting_count' = [waiting_count EXCEPT ![Stripe(t)] = @ - 2]
    /\ Goto(t, "unlock")
    /\ UNCHANGED <<cdisj, mutex, arg, cond>>

(* Fault: the departing waiter is not subtracted.                          *)
Uncount_Never(t) ==
    /\ pc[t] = "uncount"
    /\ Goto(t, "unlock")
    /\ UNCHANGED <<cdisj, waiting_count, mutex, arg, cond>>

(* AO_fetch_and_sub1(&stripe->waiting_count)                               *)
Uncount(t) ==
    /\ pc[t] = "uncount"
    /\ waiting_count' = [waiting_count EXCEPT ![Stripe(t)] = @ - 1]
    /\ Goto(t, "unlock")
    /\ UNCHANGED <<cdisj, mutex, arg, cond>>

WaitUnlock(t) == Unlock(t, "unlock", "ret")

(* The call returns to its caller.                                         *)
Return(t) ==
    /\ pc[t] = "ret"
    /\ Goto(t, "idle")
    /\ UNCHANGED <<cdisj, waiting_count, mutex, arg, cond>>

-----------------------------------------------------------------------------
\* The steps of a thread inside a call: it takes them as it is scheduled.
Step(t) ==
    \/ LoadWaiting(t) \/ BcastLock(t) \/ Broadcast(t) \/ BcastUnlock(t)
    \/ Yield(t) \/ WaitLock(t) \/ Count(t) \/ Test(t) \/ CondWait(t)
    \/ Relock(t) \/ Uncount(t) \/ WaitUnlock(t) \/ Return(t)

\* A new call, at the caller's pleasure.
Call(t) ==
    \E c \in Cdisjs :
        \/ Add1(t, c)
        \/ Sub1(t, c)
        \/ \E v \in CondVals : WaitCall(t, c, v)

Next == \E t \in Threads : Call(t) \/ Step(t) \/ SpuriousWakeup(t)

Spec == Init /\ [][Next]_vars

\* The scheduler runs every thread that can run; calls are optional.
Fairness == \A t \in Threads : WF_vars(Step(t))

FairSpec == Spec /\ Fairness

-----------------------------------------------------------------------------
TypeOK ==
    /\ cdisj \in [Cdisjs -> Nat]
    /\ waiting_count \in [Stripes -> Nat]
    /\ mutex \in [Stripes -> Threads \cup {NoThread}]
    /\ pc \in [Threads -> PCs]
    /\ arg \in [Threads -> Cdisjs]
    /\ cond \in [Threads -> BOOLEAN]

\* The threads counted in waiting_count of stripe s: from the increment to
\* the decrement, asleep or awake, whichever of the stripe's counters.
Counted(s) ==
    {t \in Threads :
        /\ pc[t] \in {"test", "wait", "sleep", "woken", "uncount"}
        /\ Stripe(t) = s}

(* waiting_count is exactly the number of threads between the increment    *)
(* and the decrement of cuflowP_cdisj_wait_while, so it returns to zero    *)
(* and a broadcaster is never misled by another counter of the stripe.     *)
WaitingCountExact ==
    \A s \in Stripes : waiting_count[s] = Cardinality(Counted(s))

\* u has brought a counter of stripe s to zero and has its broadcast ahead.
WillBroadcast(u, s) == pc[u] \in {"load", "block", "bcast"} /\ Stripe(u) = s

(* No lost wakeup: a thread asleep in wait_while on a counter which is now *)
(* zero has some thread on its way to broadcast on its stripe, although    *)
(* sub1 and the test of waiting_count are made without the mutex.          *)
NoLostWakeup ==
    \A t \in Threads :
        pc[t] = "sleep" /\ ~cond[t] /\ cdisj[arg[t]] = 0
            => \E u \in Threads : WillBroadcast(u, Stripe(t))

(* Once all work is done for good every call of wait_while returns.        *)
WaiterReturns(t) ==
    <>[](\A c \in Cdisjs : cdisj[c] = 0)
        => (pc[t] \in WaitPCs /\ ~cond[t] ~> pc[t] = "idle")
=============================================================================
