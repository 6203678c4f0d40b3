----------------------------- MODULE MCWaiting -----------------------------
(***************************************************************************)
(* The three things a thread waits for: a counter that falls to zero       *)
(* (Cdisj), a computation (Promise) and a read-write lock (Rarex), and     *)
(* small instances of them.  what says which of them a behaviour is about. *)
(***************************************************************************)
EXTENDS Cdisj, Sequences, TLC

CONSTANTS
    Want, Plans, Fulfilled, QPri, Helpers, Cutoffs, Null,   \* of Promise
    WRITE_MULTIPLIER,                                       \* of Rarex
    t1, t2, t3, c1, c2, s1, v

\* A value is set by the last job of a promise, and the transitions before it
\* stay below the state fulfilled.
ASSUME PromiseAssumption ==
    /\ Fulfilled \in Nat /\ Want \in [Threads -> Nat]
    /\ QPri \in Nat /\ Cutoffs \subseteq Nat
    /\ \A p \in Plans :
        /\ Len(p) \in Nat \ {0}
        /\ \A i \in 1 .. Len(p) :
            /\ p[i][1] \in {"set", "inc", "fulfil"}
            /\ p[i][1] = "set" => p[i][2] \in Nat
            /\ p[Len(p)][1] = "fulfil" /\ i < Len(p) =>
                  /\ p[i][1] # "fulfil"
                  /\ p[i][1] = "set" => p[i][2] + (Len(p) - i) <= Fulfilled
        /\ p[Len(p)][1] = "fulfil" => Len(p) < Fulfilled

\* A lock has room for all threads as readers.
ASSUME RarexAssumption ==
    WRITE_MULTIPLIER \in Nat /\ WRITE_MULTIPLIER > Cardinality(Threads)

VARIABLES
    what,
    plan, state, u0, done, queued, linked, hint, slip,  \* of Promise
    pmutex, ppc, old, cutoff, gp, resume, value,
    word, chain, jam, rpc, depth, asserts               \* of Rarex

-----------------------------------------------------------------------------
\* Both counters share one stripe, which is the case a sub1 of one counter
\* can mislead a waiter of the other.
OneStripe == c1 :> s1 @@ c2 :> s1

\* A promise with a state that is passed on the way to the value, and one
\* that counts.  One thread waits for the state before the last.
TwoOrThree == [t \in Threads |-> IF t = t1 THEN 2 ELSE 3]
PassOrCount == {<<<<"set", 2>>, <<"fulfil", v>>>>, <<<<"inc">>, <<"inc">>>>}

PR == INSTANCE Promise WITH mutex <- pmutex, pc <- ppc

\* A thread has a read lock once at a time.
RX == INSTANCE Rarex WITH MaxDepth <- 1, pc <- rpc

promisevars ==
    <<plan, state, u0, done, queued, linked, hint, slip, pmutex, ppc, old, cutoff, gp, resume, value>>
rarexvars == <<word, chain, jam, rpc, depth, asserts>>
allvars == <<what, vars, promisevars, rarexvars>>

-----------------------------------------------------------------------------
WaitingInit ==
    /\ Init /\ PR!Init /\ RX!Init
    /\ what \in {"cdisj", "promise", "rarex"}
    /\ arg = [t \in Threads |-> c1]     \* which no thread has used yet
    /\ what # "promise" => Len(plan[1]) = 1

WaitingNext ==
    /\ UNCHANGED what
    /\ \/ what = "cdisj" /\ Next /\ UNCHANGED <<promisevars, rarexvars>>
       \/ what = "promise" /\ PR!Next /\ UNCHANGED <<vars, rarexvars>>
       \/ what = "rarex" /\ RX!Next /\ UNCHANGED <<vars, promisevars>>

(* Fairness asks nothing of the threads which have not made a call.        *)
WaitingSpec ==
    WaitingInit /\ [][WaitingNext]_allvars /\ Fairness /\ PR!Fairness

-----------------------------------------------------------------------------
(* A thread asleep on a promise which is fulfilled is about to be woken,   *)
(* and none sleeps while there is a job for it, unless the hint of the     *)
(* work queue is spoilt; a thread that is jammed on a lock has another one *)
(* to release it.                                                          *)
NobodyForgotten == PR!NoLostWakeup /\ RX!NoneForgotten

(* A writer has the lock for itself, and the assertions of rarex.c hold.   *)
Exclusion == RX!Exclusion

(* The initiator runs once, though the state is tested without the mutex.  *)
InitiatedOnce == PR!InitiatedOnce

(* cuflow_promise_process returns when the state it was asked for has been *)
(* reached.                                                                *)
ReturnsReady == PR!ReturnsReady

(* cuflow_promise_fulfill returns the value that was set.                  *)
ValueRight == PR!ValueRight

(* A wait for a counter which is, and from then on stays, zero returns; so *)
(* does a wait for a promise which is fulfilled with a value, unless the   *)
(* hint of the work queue is spoilt.  The threads are alike, but for what  *)
(* t1 and the others want of the promise.                                  *)
EveryoneReturns ==
    WaiterReturns(t1) /\ PR!WaiterReturns(t1) /\ PR!WaiterReturns(t2)
=============================================================================
