------------------------------- MODULE GWorkq -------------------------------
(***************************************************************************)
(* The global work queue of cuflow/gworkq.c: a queue of calls per priority *)
(* and flexible-priority queues (cuflow/gflexq.h) linked at a priority of  *)
(* their own, which is raised when a thread of higher priority enters.     *)
(*                                                                         *)
(* gworkq_priority is a hint: no queue above it should hold work.  It is   *)
(* an unsigned word, and read without the mutex where a yield starts.      *)
(* What is done in one go with the mutex held is one step, since the hint  *)
(* is all that is read without it.                                         *)
(***************************************************************************)
EXTENDS Integers, FiniteSets, SequencesExt

CONSTANTS
    Threads,
    FlexQs,     \* the flexible-priority queues
    InitPri,    \* their initial priorities
    PriMax,     \* cuflow_priority_postmax - 1
    TPris,      \* the static priorities of threads
    Cutoffs,    \* the arguments of cuflow_gworkq_yield_at
    MaxJobs,    \* bound: calls scheduled
    Nested,     \* whether clients enter queues while in another one
    Word,       \* the modulus of AO_t
    None        \* no queue

Pris == 0 .. PriMax

\* Bound: queues a thread has entered.
MaxEntries == 2

ASSUME GWorkqAssumption ==
    /\ PriMax \in Nat
    /\ FlexQs \cap Int = {} /\ None \notin FlexQs
    /\ InitPri \in [FlexQs -> Pris]
    /\ TPris \subseteq Pris /\ Cutoffs \subseteq Pris
    /\ MaxJobs \in Nat
    /\ Word \in Nat /\ Word > 2 * PriMax + 2

VARIABLES
    jobs,       \* the calls on each queue, the static ones named by priority
    ring,       \* the flexible queues linked at each priority
    qpri,       \* gflexq->priority
    subs,       \* gflexq->subqueue_list
    gpri,       \* gworkq_priority
    tpri, tq,   \* tst->priority and tst->gflexq of each thread
    entries,    \* the queues saved by the gflexq_enter calls of each thread
    next,       \* the next call to be scheduled
    slip,       \* history: whether a raise of the hint was undone by a copy
                \* made before it, or had no effect on the word for -1
    overtaken,  \* history: whether a queue was raised to less than it had
    pc, gp,     \* where each thread is, and its copy of the hint
    arg         \* the queue, and the cutoff, priority or call at hand

vars == <<jobs, ring, qpri, subs, gpri, tpri, tq, entries, next, slip, overtaken, pc, arg, gp>>
queues == <<jobs, ring, qpri, subs, gpri, next, slip, overtaken>>
tstate == <<tpri, tq, entries>>
local == <<pc, arg, gp>>

Queues == Pris \cup FlexQs

\* A word read as an int.
AsInt(w) == IF w >= Word \div 2 THEN w - Word ELSE w

\* cuflow_gworkq_current_priority
CurrentPriority(t) == IF tq[t] # None THEN qpri[tq[t]] ELSE tpri[t]

(* cuflowP_gworkq_init, and the threads the program starts.                *)
Init ==
    /\ jobs = [q \in Queues |-> <<>>]
    /\ ring = [p \in Pris |-> <<>>]
    /\ qpri = InitPri
    /\ subs = [q \in FlexQs |-> <<>>]
    /\ gpri = 0
    /\ tpri \in [Threads -> TPris]
    /\ tq = [t \in Threads |-> None]
    /\ entries = [t \in Threads |-> <<>>]
    /\ next = 1
    /\ slip = FALSE /\ overtaken = FALSE
    /\ pc \in [Threads -> {"idle", "absent"}]
    /\ arg = [t \in Threads |-> <<None, 0>>]
    /\ gp = [t \in Threads |-> 0]

\* What a thread restores when it leaves a queue or a call returns.
Saved(t) == [priority |-> tpri[t], gflexq |-> tq[t]]

Linked(q) == \E p \in Pris : Contains(ring[p], q)

\* gworkq_priority is raised to p, but from -1 never: words are compared.
RaiseHint(p) ==
    /\ gpri' = IF p > gpri THEN p ELSE gpri
    /\ slip' = (slip \/ gpri = Word - 1)

Goto(t, l) == pc' = [pc EXCEPT ![t] = l]

-----------------------------------------------------------------------------
(* cuflow_gworkq_sched_at *)
SchedAt(t, p) ==
    /\ pc[t] = "idle" /\ next <= MaxJobs
    /\ jobs' = [jobs EXCEPT ![p] = Append(@, next)]
    /\ RaiseHint(p)
    /\ next' = next + 1
    /\ UNCHANGED <<ring, qpri, subs, overtaken, tstate, local>>

(* Fault: the hint is not raised for a queue that is linked.               *)
FlexSched_NoHint(t, q, by_caller) ==
    /\ pc[t] = "idle" /\ next <= MaxJobs
    /\ jobs' = [jobs EXCEPT ![q] = Append(@, next)]
    /\ next' = next + 1
    /\ ring' = IF Linked(q) THEN ring ELSE [ring EXCEPT ![qpri[q]] = Append(@, q)]
    /\ IF by_caller THEN RaiseHint(qpri[q]) ELSE UNCHANGED <<gpri, slip>>
    /\ UNCHANGED <<qpri, subs, overtaken, tstate, local>>

(* cuflow_gflexq_sched_glck: the queue is linked if it is not, and the     *)
(* hint raised, which a caller may do in any case.                         *)
FlexSched(t, q, by_caller) ==
    /\ pc[t] = "idle" /\ next <= MaxJobs
    /\ jobs' = [jobs EXCEPT ![q] = Append(@, next)]
    /\ next' = next + 1
    /\ ring' = IF Linked(q) THEN ring ELSE [ring EXCEPT ![qpri[q]] = Append(@, q)]
    /\ IF ~Linked(q) \/ by_caller THEN RaiseHint(qpri[q]) ELSE UNCHANGED <<gpri, slip>>
    /\ UNCHANGED <<qpri, subs, overtaken, tstate, local>>

(* cuflow_gflexq_sched *)
SchedFlex(t, q) == FlexSched(t, q, FALSE)

(* cuflow_gworkq_sched by the client of t.                                 *)
Sched(t) == IF tq[t] = None THEN SchedAt(t, tpri[t]) ELSE FlexSched(t, tq[t], TRUE)

(* cuflow_gworkq_set_static_priority, a bug in a flexible queue.           *)
SetStatic(t, p) ==
    /\ pc[t] = "idle" /\ tq[t] = None
    /\ tpri' = [tpri EXCEPT ![t] = p]
    /\ UNCHANGED <<queues, tq, entries, local>>

-----------------------------------------------------------------------------
(* cuflow_gworkq_yield_at: the test of the hint, without the mutex.  The   *)
(* yieldall and yield_idle functions repeat it with the current priority,  *)
(* or one above, until it does no work.                                    *)
YieldAt(t, cutoff) ==
    /\ pc[t] = "idle"
    /\ cutoff <= AsInt(gpri)
    /\ arg' = [arg EXCEPT ![t] = <<None, cutoff>>]
    /\ Goto(t, "read")
    /\ UNCHANGED <<queues, tstate, gp>>

(* gworkq_yield_at: the hint is read again, still without the mutex.       *)
ReadHint(t) ==
    /\ pc[t] = "read"
    /\ gp' = [gp EXCEPT ![t] = AsInt(gpri)]
    /\ Goto(t, "scan")
    /\ UNCHANGED <<queues, tstate, arg>>

\* The first linked queue of priority p which has work, else the static
\* queue; the queues before it are unlinked.
FirstBusy(p) ==
    LET busy == {i \in DOMAIN ring[p] : jobs[ring[p][i]] # <<>>}
    IN  IF busy = {} THEN Len(ring[p]) + 1
        ELSE CHOOSE i \in busy : \A j \in busy : i <= j
Selected(p) == IF FirstBusy(p) <= Len(ring[p]) THEN ring[p][FirstBusy(p)] ELSE p
HasWork(p) == jobs[Selected(p)] # <<>>

\* The priorities the loop of gworkq_yield_at looks at: down to the first
\* with work, or to the cutoff.
Scanned(from, cutoff) ==
    {p \in Pris : cutoff <= p /\ p <= from /\ \A r \in p + 1 .. from : ~HasWork(r)}

(* Fault: the queue with the first call is unlinked as well.               *)
Unlinked_Busy(from, cutoff) ==
    [p \in Pris |->
        IF p \in Scanned(from, cutoff)
        THEN SubSeq(ring[p], FirstBusy(p) + 1, Len(ring[p])) ELSE ring[p]]

Unlinked(from, cutoff) ==
    [p \in Pris |->
        IF p \in Scanned(from, cutoff)
        THEN SubSeq(ring[p], FirstBusy(p), Len(ring[p])) ELSE ring[p]]

(* Fault: the call is read from its queue but not removed.                 *)
Popped_Not(q) == jobs

(* cuflow_workq_pop_front: what is left when the first call is taken.      *)
Popped(q) == [jobs EXCEPT ![q] = Tail(@)]

(* gworkq_yield_at with the mutex: empty flexible queues are unlinked, the *)
(* first call found is taken and the hint set to its priority.  The call   *)
(* runs at that priority.  If nothing is found, the hint is set below the  *)
(* cutoff, or left where it was read if that was below already.            *)
Scan(t) ==
    LET cutoff == arg[t][2]
        seen == Scanned(gp[t], cutoff)
        busy == {p \in seen : HasWork(p)}
    IN  /\ pc[t] = "scan"
        /\ ring' = Unlinked(gp[t], cutoff)
        /\ \/ \E p \in busy :
                /\ gpri' = p
                /\ tpri' = [tpri EXCEPT ![t] = p]
                /\ entries' = [entries EXCEPT ![t] = <<Saved(t)>> \o @]
                /\ tq' = [tq EXCEPT ![t] = IF Selected(p) = p THEN None ELSE Selected(p)]
                /\ arg' = [arg EXCEPT ![t] = <<None, Head(jobs[Selected(p)])>>]
                /\ jobs' = Popped(Selected(p))
                /\ Goto(t, "run")
           \/ /\ busy = {}
              /\ gpri' = (IF cutoff <= gp[t] THEN cutoff - 1 ELSE gp[t]) % Word
              /\ arg' = [arg EXCEPT ![t] = <<None, 0>>]
              /\ Goto(t, "idle")
              /\ UNCHANGED <<jobs, tpri, entries, tq>>
        /\ slip' = (slip \/ gp[t] < AsInt(gpri))
        /\ gp' = [gp EXCEPT ![t] = 0]
        /\ UNCHANGED <<qpri, subs, next, overtaken>>

(* The call returns, and the thread's own priority and queue are restored. *)
RunEnd(t) ==
    /\ pc[t] = "run"
    /\ tpri' = [tpri EXCEPT ![t] = Head(entries[t]).priority]
    /\ tq' = [tq EXCEPT ![t] = Head(entries[t]).gflexq]
    /\ entries' = [entries EXCEPT ![t] = Tail(@)]
    /\ arg' = [arg EXCEPT ![t] = <<None, 0>>]
    /\ Goto(t, "idle")
    /\ UNCHANGED <<queues, gp>>

-----------------------------------------------------------------------------
\* gflexq_set_priority_glck: a linked queue moves to its new priority.
Without(s, q) == IF Contains(s, q) THEN RemoveAt(s, CHOOSE i \in DOMAIN s : s[i] = q) ELSE s
Moved(rings, q, p) ==
    [r \in Pris |-> LET others == Without(rings[r], q)
                    IN  IF r = p THEN Append(others, q) ELSE others]

(* Fault: only a queue that is linked gets the new priority.               *)
SetPriority_IfLinked(q, p) ==
    /\ overtaken' = (overtaken \/ p < qpri[q])
    /\ IF Linked(q)
       THEN qpri' = [qpri EXCEPT ![q] = p] /\ ring' = Moved(ring, q, p) /\ RaiseHint(p)
       ELSE UNCHANGED <<qpri, ring, gpri, slip>>

SetPriority(q, p) ==
    /\ qpri' = [qpri EXCEPT ![q] = p]
    /\ overtaken' = (overtaken \/ p < qpri[q])
    /\ IF Linked(q)
       THEN ring' = Moved(ring, q, p) /\ RaiseHint(p)
       ELSE UNCHANGED <<ring, gpri, slip>>

(* cuflow_gflexq_raise_priority_glck.  The loop over the subqueues         *)
(* assigns each one to the variable whose list it compares the end with,   *)
(* so with any subqueue it runs past the end of the list, with the mutex   *)
(* held, and the program is lost: "wild".                                  *)
Raise(t, q, p, then) ==
    /\ SetPriority(q, p)
    /\ \/ subs[q] = <<>> /\ Goto(t, then)
       \/ subs[q] # <<>> /\ pc' = [u \in Threads |-> IF pc[u] = "absent" THEN "absent" ELSE "wild"]

(* cuflow_gflexq_raise_priority: the test without the mutex.               *)
RaisePriority(t, q, p) ==
    /\ pc[t] = "idle"
    /\ qpri[q] < p
    /\ arg' = [arg EXCEPT ![t] = <<q, p>>]
    /\ Goto(t, "raise")
    /\ UNCHANGED <<queues, tstate, gp>>

(* The rest of it, with the mutex, where the test is not repeated.         *)
RaiseLocked(t) ==
    /\ pc[t] = "raise"
    /\ Raise(t, arg[t][1], arg[t][2], "idle")
    /\ arg' = [arg EXCEPT ![t] = <<None, 0>>]
    /\ UNCHANGED <<jobs, subs, next, tstate, gp>>

(* cuflow_gflexq_enter.  From another queue, which then has this one as a  *)
(* subqueue, priorities are compared and raised with the mutex; otherwise  *)
(* as in cuflow_gflexq_raise_priority.                                     *)
Enter(t, q) ==
    LET old == tq[t]
        higher == CurrentPriority(t) > qpri[q]
    IN  /\ pc[t] = "idle"
        /\ old = None \/ (Nested /\ old # q)
        /\ Len(entries[t]) < MaxEntries
        /\ entries' = [entries EXCEPT ![t] = <<Saved(t)>> \o @]
        /\ tq' = [tq EXCEPT ![t] = q]
        /\ CASE higher /\ old = None ->
                   /\ arg' = [arg EXCEPT ![t] = <<q, tpri[t]>>]
                   /\ Goto(t, "raise")
                   /\ UNCHANGED <<qpri, ring, gpri, slip, overtaken>>
             [] higher /\ old # None ->
                   Raise(t, q, CurrentPriority(t), "idle") /\ UNCHANGED arg
             [] OTHER -> UNCHANGED <<qpri, ring, gpri, slip, overtaken, pc, arg>>
        /\ subs' = IF old = None THEN subs ELSE [subs EXCEPT ![old] = Append(@, q)]
        /\ UNCHANGED <<jobs, next, tpri, gp>>

(* cuflow_gflexq_leave: the entry of the subqueue list is erased.  Equal   *)
(* entries are not told apart.                                             *)
Leave(t) ==
    LET old == Head(entries[t]).gflexq
        first(q) == CHOOSE i \in DOMAIN subs[old] : subs[old][i] = q
    IN  /\ pc[t] = "idle"
        /\ entries[t] # <<>>
        /\ tq' = [tq EXCEPT ![t] = old]
        /\ entries' = [entries EXCEPT ![t] = Tail(@)]
        /\ subs' = IF old = None THEN subs
                   ELSE [subs EXCEPT ![old] = RemoveAt(@, first(tq[t]))]
        /\ UNCHANGED <<jobs, ring, qpri, gpri, next, slip, overtaken, tpri, local>>

Step(t) ==
    \/ \E p \in TPris : SetStatic(t, p)
    \/ Sched(t) \/ ReadHint(t) \/ Scan(t) \/ RunEnd(t) \/ RaiseLocked(t) \/ Leave(t)
    \/ \E p \in Pris : SchedAt(t, p)
    \/ \E c \in Cutoffs : YieldAt(t, c)
    \/ \E q \in FlexQs :
        SchedFlex(t, q) \/ Enter(t, q) \/ \E p \in Pris : RaisePriority(t, q, p)

Stopped == (\A t \in Threads : pc[t] \in {"absent", "wild"}) /\ UNCHANGED vars

Next == Stopped \/ \E t \in Threads : Step(t)

Spec == Init /\ [][Next]_vars

-----------------------------------------------------------------------------
Entries == [priority : Pris, gflexq : FlexQs \cup {None}]

TypeOK ==
    /\ jobs \in [Queues -> Seq(Nat)]
    /\ ring \in [Pris -> Seq(FlexQs)]
    /\ qpri \in [FlexQs -> Pris]
    /\ gpri \in Pris \cup {Word - 1}
    /\ next \in Nat
    /\ slip \in BOOLEAN /\ overtaken \in BOOLEAN
    /\ tpri \in [Threads -> Pris]
    /\ tq \in [Threads -> FlexQs \cup {None}]
    /\ entries \in [Threads -> Seq(Entries)]
    /\ pc \in [Threads -> {"absent", "idle", "read", "scan", "run", "raise", "wild"}]
    /\ arg \in [Threads -> (FlexQs \cup {None}) \X Nat]
    /\ gp \in [Threads -> -1 .. PriMax]

(* A flexible queue with work is linked, once, at its own priority, so     *)
(* that its calls are found wherever the scan for that priority starts:    *)
(* the unlinking of empty queues by a scan, the linking by sched and the   *)
(* moving by a raise of priority agree.                                    *)
FlexLinked ==
    \A q \in FlexQs :
        /\ jobs[q] # <<>> => Linked(q)
        /\ \A p \in Pris : Contains(ring[p], q) => p = qpri[q]
        /\ \A p \in Pris : \A i, j \in DOMAIN ring[p] : ring[p][i] = q /\ ring[p][j] = q => i = j

(* A call is on one queue, once, or being run by one thread, or done; and  *)
(* queues are in the order of scheduling.                                  *)
CallsOnce ==
    /\ \A q \in Queues : \A i, j \in DOMAIN jobs[q] : i < j => jobs[q][i] < jobs[q][j]
    /\ \A q, r \in Queues : q # r => ToSet(jobs[q]) \cap ToSet(jobs[r]) = {}
    /\ \A t, u \in Threads : (pc[t] = "run" /\ pc[u] = "run" /\ t # u) => arg[t] # arg[u]
    /\ \A t \in Threads, q \in Queues : pc[t] = "run" => ~Contains(jobs[q], arg[t][2])

(* No queue above the hint holds work, so that a call at or above the      *)
(* cutoff is found by cuflow_gworkq_yield_at, and the selected task is the *)
(* first one of the highest-priority non-empty queue.  This ends when a    *)
(* scan writes back a copy of the hint that was raised since, or when the  *)
(* hint is raised after a yield with cutoff 0 has left -1 in it.           *)
HintCovers ==
    ~slip => \A p \in Pris : HasWork(p) => p <= AsInt(gpri)

Served(q, p) == q # None => qpri[q] >= p

(* A flexible queue has at least the priority of each thread that has      *)
(* entered it, or has it to return to: the same work, requested at         *)
(* different priorities, is scheduled at the highest among the requestors. *)
(* This ends when a raise, which is decided without the mutex, meets a     *)
(* queue that has been raised higher meanwhile, and lowers it.             *)
RequestorsServed ==
    ~overtaken =>
        \A t \in Threads :
            /\ ~(pc[t] \in {"raise", "wild"} /\ arg[t][1] = tq[t]) => Served(tq[t], tpri[t])
            /\ \A i \in DOMAIN entries[t] : Served(entries[t][i].gflexq, entries[t][i].priority)
=============================================================================
