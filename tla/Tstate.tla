------------------------------- MODULE Tstate -------------------------------
(***************************************************************************)
(* cuflow/tstate.c: the cyclic chain of the states of all threads, which   *)
(* cuflowP_schedule (cuflow/sched.c) walks without a lock to look into all *)
(* queues, while threads enter and leave the chain.  A thread state is     *)
(* thread-local storage: the next thread to start may get the place of one *)
(* that has left, and until then the place is as it was left.              *)
(*                                                                         *)
(* The chain is changed under a mutex, and in each operation one           *)
(* assignment makes the change for those who follow next, so an operation  *)
(* is one step.                                                            *)
(***************************************************************************)
EXTENDS Naturals

CONSTANTS
    Places,         \* storage of thread states
    Main,           \* the place of the thread that initialises the library
    Null

VARIABLES
    next, prev,     \* the links of each place, Null before its first use
    chain,          \* _tstate_chain
    live,           \* the places of running threads
    at              \* where the walk of each thread is

vars == <<next, prev, chain, live, at>>

\* cu_dlink_init_singleton and cu_dlink_insert_before
tstate_init(t) ==
    IF chain = Null
    THEN /\ next' = [next EXCEPT ![t] = t] /\ prev' = [prev EXCEPT ![t] = t]
         /\ chain' = t
    ELSE /\ next' = [next EXCEPT ![t] = chain, ![prev[chain]] = t]
         /\ prev' = [prev EXCEPT ![t] = prev[chain], ![chain] = t]
         /\ UNCHANGED chain

\* Fault: the state that leaves is closed into a cycle of its own.
tstate_destruct_Extract(t) ==
    IF next[t] = t THEN chain' = Null /\ UNCHANGED <<next, prev>>
    ELSE /\ next' = [next EXCEPT ![prev[t]] = next[t], ![t] = t]
         /\ prev' = [prev EXCEPT ![next[t]] = prev[t], ![t] = t]
         /\ UNCHANGED chain

\* cu_dlink_is_singleton and cu_dlink_erase: the links of t itself remain.
tstate_destruct(t) ==
    IF next[t] = t THEN chain' = Null /\ UNCHANGED <<next, prev>>
    ELSE /\ next' = [next EXCEPT ![prev[t]] = next[t]]
         /\ prev' = [prev EXCEPT ![next[t]] = prev[t]]
         /\ UNCHANGED chain

cuflow_tstate_next(ts) == next[ts]

Init ==
    /\ next = [p \in Places |-> IF p = Main THEN Main ELSE Null] /\ prev = next
    /\ chain = Main /\ live = {Main}
    /\ at = [p \in Places |-> Null]

Enter(t) ==
    /\ t \notin live /\ tstate_init(t)
    /\ live' = live \cup {t} /\ UNCHANGED at

\* The thread that initialises the library is the main thread, which does not
\* leave before the process ends.
Leave(t) ==
    /\ t \in live \ {Main} /\ at[t] = Null /\ tstate_destruct(t)
    /\ live' = live \ {t} /\ UNCHANGED at

\* cuflowP_schedule begins with the queue of its own thread.
WalkBegin(t) ==
    /\ t \in live /\ at[t] = Null
    /\ at' = [at EXCEPT ![t] = t] /\ UNCHANGED <<next, prev, chain, live>>

\* ts = cuflow_tstate_next(ts), until ts is the own one
WalkNext(t) ==
    /\ at[t] # Null
    /\ LET ts == cuflow_tstate_next(at[t])
       IN  at' = [at EXCEPT ![t] = IF ts = t THEN Null ELSE ts]
    /\ UNCHANGED <<next, prev, chain, live>>

Next == \E t \in Places : Enter(t) \/ Leave(t) \/ WalkBegin(t) \/ WalkNext(t)

Spec == Init /\ [][Next]_vars

-----------------------------------------------------------------------------
\* A set that a walk does not leave.
Closed(S) == \A p \in S \ {Null} : next[p] \in S

\* Following next from p leads to q.
Leads(p, q) == \A S \in SUBSET (Places \cup {Null}) : p \in S /\ Closed(S) => q \in S

(* The states of the running threads are one cycle, in both directions.    *)
Ring ==
    /\ chain \in live
    /\ \A t \in live : next[t] \in live /\ prev[next[t]] = t /\ next[prev[t]] = t
    /\ \A t, u \in live : Leads(t, u)

(* A walk comes back to its own thread, also from a state that has left    *)
(* the chain, or that has been reused in another position, meanwhile.      *)
WalkReturns == \A t \in Places : at[t] # Null => Leads(at[t], t)
=============================================================================
