------------------------------- MODULE Sched -------------------------------
(***************************************************************************)
(* cuflow/sched.[ch]: fork and join on thread-local execution queues.      *)
(*                                                                         *)
(* Every thread has, for each priority, a small ring of calls.  Only its   *)
(* thread adds to a ring, without locking; any thread may take from it,    *)
(* under the ring's pickup_mutex.  A task schedules its subtasks, counting *)
(* them in a guard, and then waits for the guard to become zero; while it  *)
(* waits it runs what is in its own rings.  A worker thread with nothing   *)
(* to do visits the rings of all threads.  A subtask which finds the ring  *)
(* full is called on the spot.                                             *)
(*                                                                         *)
(* A thread's stack is a sequence of frames, each a running task or an     *)
(* activation of cuflowP_schedule.  Blocking on a guard, and the sleep of  *)
(* idle workers, are the waits whose wakeups Cdisj and Workers establish:  *)
(* here such a thread goes on as soon as what it waits for is the case.    *)
(***************************************************************************)
EXTENDS Integers, Sequences, FiniteSets, SequencesExt

CONSTANTS
    Workers,    \* the worker threads
    Main,       \* a thread which is not a worker, and runs the root task
    NextTs,     \* cuflow_tstate_next: the cyclic order of the threads
    Tasks,      \* the tasks
    Root,       \* the task Main runs
    Children,   \* the subtasks of each task, in the order it schedules them
    Sub1,       \* tasks which use the _sub1 calls: guard set in advance
    At,         \* priority at which a subtask is scheduled with the _at
                \* calls, or Current for the plain calls
    Current,
    RootPris,   \* the priorities Main may have chosen for itself
    SIZE,       \* CUFLOW_EXEQ_SIZE
    None        \* no task, no thread

Threads == Workers \cup {Main}
Pris == 0 .. 1          \* cuflow_exeqpri_normal, cuflow_exeqpri_background
Slots == 0 .. SIZE - 1
Queues == Threads \X Pris

ASSUME SchedAssumption ==
    /\ Main \notin Workers /\ None \notin Threads \cup Tasks
    /\ NextTs \in [Threads -> Threads]
    /\ Root \in Tasks /\ Sub1 \subseteq Tasks
    /\ Children \in [Tasks -> Seq(Tasks)]
    /\ At \in [Tasks -> Pris \cup {Current}] /\ Current \notin Pris
    /\ RootPris \subseteq Pris
    /\ SIZE \in Nat /\ SIZE > 1

\* Each task stands for one call: it has one place in the tree.
ASSUME TreeAssumption ==
    /\ \A p1, p2 \in Tasks : \A k1 \in DOMAIN Children[p1], k2 \in DOMAIN Children[p2] :
          Children[p1][k1] = Children[p2][k2] => p1 = p2 /\ k1 = k2
    /\ \A p \in Tasks : Root \notin Range(Children[p])

ASSUME WorkersFinite == IsFiniteSet(Workers)

VARIABLES
    head, tail,    \* of each queue: next slot to fill, last slot taken
    call_arr,      \* the slots of each queue; the cdisj of an entry is the
                   \* guard of the task's parent
    pickup_mutex,  \* holder of each queue's mutex
    guard,         \* the cdisj of each task
    pending,       \* cuflowP_pending_work
    exeqpri,       \* tstate->exeqpri
    stack,         \* the frames of each thread, innermost first
    issued,        \* how many subtasks each task has scheduled
    runs,          \* history: how many times each task was started
    finished       \* history: the tasks which have returned

queue_vars == <<head, tail, call_arr, pickup_mutex>>
vars == <<queue_vars, guard, pending, exeqpri, stack, issued, runs, finished>>

Parent(x) == CHOOSE p \in Tasks : x \in Range(Children[p])

\* A task begun by the frame below it; pri is what exeqpri is set back to
\* when a task called on the spot returns.
TaskFrame(x, pri) == [ph |-> "body", id |-> x, pri |-> pri]

(* Fault: every activation is taken for one at normal priority.            *)
SchedFrame_Normal(t, is_global) ==
    [ph |-> "lock", id |-> None, pri |-> 0, ts |-> t, caller_pri |-> 0,
     is_global |-> is_global]

\* cuflowP_schedule, entered by thread t.
SchedFrame(t, is_global) ==
    [ph |-> "lock", id |-> None, pri |-> 0, ts |-> t, caller_pri |-> exeqpri[t],
     is_global |-> is_global]

Init ==
    /\ head = [q \in Queues |-> 0]
    /\ tail = [q \in Queues |-> SIZE - 1]
    /\ call_arr = [q \in Queues |-> [i \in Slots |-> None]]
    /\ pickup_mutex = [q \in Queues |-> None]
    /\ guard = [x \in Tasks |-> IF x \in Sub1 THEN Len(Children[x]) ELSE 0]
    /\ pending = 0
    /\ \E pri \in RootPris :
        /\ exeqpri = [t \in Threads |-> IF t = Main THEN pri ELSE 0]
        /\ stack = [t \in Threads |-> IF t = Main THEN <<TaskFrame(Root, pri)>> ELSE <<>>]
    /\ issued = [x \in Tasks |-> 0]
    /\ runs = [x \in Tasks |-> IF x = Root THEN 1 ELSE 0]
    /\ finished = {}

-----------------------------------------------------------------------------
Top(t) == Head(stack[t])
InPhase(t, ph) == stack[t] # <<>> /\ Top(t).ph = ph
SetTop(t, frame) == stack' = [stack EXCEPT ![t] = <<frame>> \o Tail(@)]
Goto(t, ph) == SetTop(t, [Top(t) EXCEPT !.ph = ph])
Enter(t, frame) == stack' = [stack EXCEPT ![t] = <<frame>> \o @]

\* The subtask the task on top of t's stack schedules next, and its queue.
NextTask(t) == Children[Top(t).id][issued[Top(t).id] + 1]
CallPri(t) == IF At[NextTask(t)] = Current THEN exeqpri[t] ELSE At[NextTask(t)]
CallQueue(t) == <<t, CallPri(t)>>
MoreToCall(t) == issued[Top(t).id] < Len(Children[Top(t).id])

(* Fault: the ring is not tested for being full.                           *)
CallEnqueue_Full(t) ==
    LET q == CallQueue(t)  x == Top(t).id IN
    /\ InPhase(t, "body") /\ MoreToCall(t)
    /\ call_arr' = [call_arr EXCEPT ![q][head[q]] = NextTask(t)]
    /\ guard' = [guard EXCEPT ![x] = IF x \in Sub1 THEN @ ELSE @ + 1]
    /\ Goto(t, "publish")
    /\ UNCHANGED <<head, tail, pickup_mutex, pending, exeqpri, issued, runs, finished>>

(* cuflow_sched_call and cuflow_sched_call_at, when the ring has room: the *)
(* entry is written and the guard raised,                                  *)
CallEnqueue(t) ==
    LET q == CallQueue(t)  x == Top(t).id IN
    /\ InPhase(t, "body") /\ MoreToCall(t)
    /\ head[q] # tail[q]
    /\ call_arr' = [call_arr EXCEPT ![q][head[q]] = NextTask(t)]
    /\ guard' = [guard EXCEPT ![x] = IF x \in Sub1 THEN @ ELSE @ + 1]
    /\ Goto(t, "publish")
    /\ UNCHANGED <<head, tail, pickup_mutex, pending, exeqpri, issued, runs, finished>>

(* then it is published by moving head, without a lock,                    *)
CallPublish(t) ==
    LET q == CallQueue(t) IN
    /\ InPhase(t, "publish")
    /\ head' = [head EXCEPT ![q] = (@ + 1) % SIZE]
    /\ Goto(t, "incr")
    /\ UNCHANGED <<tail, call_arr, pickup_mutex, guard, pending, exeqpri, issued,
                   runs, finished>>

(* and only then is the pending work counted.                              *)
CallIncr(t) ==
    /\ InPhase(t, "incr")
    /\ pending' = pending + 1
    /\ issued' = [issued EXCEPT ![Top(t).id] = @ + 1]
    /\ Goto(t, "body")
    /\ UNCHANGED <<queue_vars, guard, exeqpri, runs, finished>>

(* When the ring is full the subtask is called, at the same priority.      *)
CallInline(t) ==
    /\ InPhase(t, "body") /\ MoreToCall(t)
    /\ head[CallQueue(t)] = tail[CallQueue(t)]
    /\ Enter(t, TaskFrame(NextTask(t), exeqpri[t]))
    /\ runs' = [runs EXCEPT ![NextTask(t)] = @ + 1]
    /\ exeqpri' = [exeqpri EXCEPT ![t] = CallPri(t)]
    /\ issued' = [issued EXCEPT ![Top(t).id] = @ + 1]
    /\ UNCHANGED <<queue_vars, guard, pending, finished>>

-----------------------------------------------------------------------------
(* cuflow_cdisj_wait_while on the guard: run what is in this thread's own  *)
(* rings, if any work is pending, and block.                               *)
Join(t) ==
    /\ InPhase(t, "body") /\ ~MoreToCall(t)
    /\ Goto(t, IF guard[Top(t).id] # 0 THEN "yield" ELSE "ret")
    /\ UNCHANGED <<queue_vars, guard, pending, exeqpri, issued, runs, finished>>

(* Fault: the thread blocks without running the calls in its own rings.    *)
JoinYield_Block(t) ==
    /\ InPhase(t, "yield")
    /\ Goto(t, "block")
    /\ UNCHANGED <<queue_vars, guard, pending, exeqpri, issued, runs, finished>>

JoinYield(t) ==
    /\ InPhase(t, "yield")
    /\ LET blocked == [Top(t) EXCEPT !.ph = "block"]
       IN stack' = [stack EXCEPT ![t] =
              (IF pending # 0 THEN <<SchedFrame(t, FALSE)>> ELSE <<>>)
              \o <<blocked>> \o Tail(@)]
    /\ UNCHANGED <<queue_vars, guard, pending, exeqpri, issued, runs, finished>>

(* Fault: the wait ends when no work is pending, not when the guard is zero.*)
JoinDone_Pending(t) ==
    /\ InPhase(t, "block")
    /\ pending = 0
    /\ Goto(t, "ret")
    /\ UNCHANGED <<queue_vars, guard, pending, exeqpri, issued, runs, finished>>

JoinDone(t) ==
    /\ InPhase(t, "block")
    /\ guard[Top(t).id] = 0
    /\ Goto(t, "ret")
    /\ UNCHANGED <<queue_vars, guard, pending, exeqpri, issued, runs, finished>>

\* The task called on the spot returns to its caller; in a _sub1 call the
\* guard is then lowered.
ReturnInline(t) ==
    LET x == Top(t).id IN
    /\ InPhase(t, "ret")
    /\ Tail(stack[t]) # <<>> /\ stack[t][2].ph = "body"
    /\ finished' = finished \cup {x}
    /\ guard' = [guard EXCEPT ![Parent(x)] = IF Parent(x) \in Sub1 THEN @ - 1 ELSE @]
    /\ exeqpri' = [exeqpri EXCEPT ![t] = Top(t).pri]
    /\ stack' = [stack EXCEPT ![t] = Tail(@)]
    /\ UNCHANGED <<queue_vars, pending, issued, runs>>

\* The task picked up returns to cuflowP_schedule, which lowers the guard
\* and looks at the same ring again.
ReturnPicked(t) ==
    LET x == Top(t).id IN
    /\ InPhase(t, "ret")
    /\ Tail(stack[t]) # <<>> /\ stack[t][2].ph = "called"
    /\ finished' = finished \cup {x}
    /\ guard' = [guard EXCEPT ![Parent(x)] = @ - 1]
    /\ stack' = [stack EXCEPT ![t] =
           <<[@[2] EXCEPT !.ph = "lock", !.id = None]>> \o Tail(Tail(@))]
    /\ UNCHANGED <<queue_vars, pending, exeqpri, issued, runs>>

\* The root task returns.
ReturnRoot(t) ==
    /\ InPhase(t, "ret") /\ Tail(stack[t]) = <<>>
    /\ finished' = finished \cup {Top(t).id}
    /\ stack' = [stack EXCEPT ![t] = <<>>]
    /\ UNCHANGED <<queue_vars, guard, pending, exeqpri, issued, runs>>

-----------------------------------------------------------------------------
(* cuflowP_schedule                                                        *)

\* The queue being visited.
Visited(t) == <<Top(t).ts, Top(t).pri>>

\* An idle worker sees pending work and visits all threads, itself first.
WorkerYield(t) ==
    /\ t \in Workers /\ stack[t] = <<>> /\ pending # 0
    /\ Enter(t, SchedFrame(t, TRUE))
    /\ UNCHANGED <<queue_vars, guard, pending, exeqpri, issued, runs, finished>>

PickLock(t) ==
    /\ InPhase(t, "lock")
    /\ pickup_mutex[Visited(t)] = None
    /\ pickup_mutex' = [pickup_mutex EXCEPT ![Visited(t)] = t]
    /\ Goto(t, "test")
    /\ UNCHANGED <<head, tail, call_arr, guard, pending, exeqpri, issued, runs, finished>>

QueueSize(q) == (head[q] - tail[q] - 1) % SIZE

PickTest(t) ==
    /\ InPhase(t, "test") /\ QueueSize(Visited(t)) > 0
    /\ Goto(t, "read")
    /\ UNCHANGED <<queue_vars, guard, pending, exeqpri, issued, runs, finished>>

\* fn = ent->fn; cdisj = ent->cdisj
PickRead(t) ==
    LET q == Visited(t) IN
    /\ InPhase(t, "read")
    /\ SetTop(t, [Top(t) EXCEPT !.ph = "take", !.id = call_arr[q][(tail[q] + 1) % SIZE]])
    /\ UNCHANGED <<queue_vars, guard, pending, exeqpri, issued, runs, finished>>

\* AO_store_release(&exeq->tail, new_tail): the slot may be filled again.
PickTake(t) ==
    /\ InPhase(t, "take")
    /\ tail' = [tail EXCEPT ![Visited(t)] = (@ + 1) % SIZE]
    /\ Goto(t, "decr")
    /\ UNCHANGED <<head, call_arr, pickup_mutex, guard, pending, exeqpri, issued,
                   runs, finished>>

(* Fault: the work taken remains counted as pending.                       *)
PickCall_NoDecr(t) ==
    LET f == Top(t) IN
    /\ InPhase(t, "decr")
    /\ pickup_mutex' = [pickup_mutex EXCEPT ![Visited(t)] = None]
    /\ exeqpri' = [exeqpri EXCEPT ![t] = f.pri]
    /\ stack' = [stack EXCEPT ![t] =
           <<TaskFrame(f.id, f.pri), [f EXCEPT !.ph = "called"]>> \o Tail(@)]
    /\ runs' = [runs EXCEPT ![f.id] = @ + 1]
    /\ UNCHANGED <<head, tail, call_arr, guard, pending, issued, finished>>

\* Discount the pending work, unlock, and call the task at its priority.
PickCall(t) ==
    LET f == Top(t) IN
    /\ InPhase(t, "decr")
    /\ pending' = pending - 1
    /\ pickup_mutex' = [pickup_mutex EXCEPT ![Visited(t)] = None]
    /\ exeqpri' = [exeqpri EXCEPT ![t] = f.pri]
    /\ stack' = [stack EXCEPT ![t] =
           <<TaskFrame(f.id, f.pri), [f EXCEPT !.ph = "called"]>> \o Tail(@)]
    /\ runs' = [runs EXCEPT ![f.id] = @ + 1]
    /\ UNCHANGED <<head, tail, call_arr, guard, issued, finished>>

\* The ring is empty: on to the next thread's, then to the next priority not
\* below the caller's, then back.
PickNext(t) ==
    LET f == Top(t)
        more_ts == f.is_global /\ NextTs[f.ts] # t
        more_pri == f.pri + 1 <= f.caller_pri
    IN
    /\ InPhase(t, "test") /\ QueueSize(Visited(t)) = 0
    /\ pickup_mutex' = [pickup_mutex EXCEPT ![Visited(t)] = None]
    /\ IF more_ts THEN SetTop(t, [f EXCEPT !.ph = "lock", !.ts = NextTs[f.ts]])
       ELSE IF more_pri
       THEN SetTop(t, [f EXCEPT !.ph = "lock", !.ts = t, !.pri = f.pri + 1])
       ELSE stack' = [stack EXCEPT ![t] = Tail(@)]
    /\ exeqpri' = [exeqpri EXCEPT ![t] = IF more_ts \/ more_pri THEN @ ELSE f.caller_pri]
    /\ UNCHANGED <<head, tail, call_arr, guard, pending, issued, runs, finished>>

-----------------------------------------------------------------------------
Step(t) ==
    \/ CallEnqueue(t) \/ CallPublish(t) \/ CallIncr(t) \/ CallInline(t)
    \/ Join(t) \/ JoinYield(t) \/ JoinDone(t)
    \/ ReturnInline(t) \/ ReturnPicked(t) \/ ReturnRoot(t)
    \/ WorkerYield(t) \/ PickLock(t) \/ PickTest(t) \/ PickRead(t)
    \/ PickTake(t) \/ PickCall(t) \/ PickNext(t)

\* All is done: the workers wait for more work.
Idle == Root \in finished /\ \A t \in Threads : stack[t] = <<>> /\ UNCHANGED vars

Next == (\E t \in Threads : Step(t)) \/ Idle

Spec == Init /\ [][Next]_vars

\* Every thread that can run is run; the pickup mutexes are granted fairly.
FairSpec == Spec /\ \A t \in Threads : SF_vars(Step(t))

-----------------------------------------------------------------------------
TypeOK ==
    /\ head \in [Queues -> Slots] /\ tail \in [Queues -> Slots]
    /\ call_arr \in [Queues -> [Slots -> Tasks \cup {None}]]
    /\ pickup_mutex \in [Queues -> Threads \cup {None}]
    /\ guard \in [Tasks -> Nat] /\ pending \in Int
    /\ exeqpri \in [Threads -> Pris]
    /\ issued \in [Tasks -> Nat] /\ runs \in [Tasks -> Nat]
    /\ finished \subseteq Tasks

\* The slots which hold entries not yet taken.
Live == {s \in Queues \X Slots : (s[2] - tail[s[1]] - 1) % SIZE < QueueSize(s[1])}

\* The threads whose innermost frame is in a phase.
InTop(ph) == {t \in Threads : InPhase(t, ph)}

\* Subtask x has been published or called.
Scheduled(x) ==
    \E p \in Tasks : \E k \in DOMAIN Children[p] :
        /\ Children[p][k] = x
        /\ \/ k <= issued[p]
           \/ k = issued[p] + 1 /\ \E t \in InTop("incr") : Top(t).id = p

(* A scheduled task is always in exactly one place: a live slot of a ring, *)
(* the hands of the thread which took it, or started; so none is lost or   *)
(* run twice although rings are filled without a lock and reuse slots.     *)
EachOnce ==
    \A x \in Tasks \ {Root} :
        Cardinality({s \in Live : call_arr[s[1]][s[2]] = x})
        + Cardinality({t \in InTop("decr") : Top(t).id = x}) + runs[x]
            = IF Scheduled(x) THEN 1 ELSE 0

(* A task which has returned has all its subtasks behind it, whoever ran   *)
(* them: waiting on the guard is a join.                                   *)
JoinComplete == \A x \in finished : Range(Children[x]) \subseteq finished

(* cuflowP_pending_work counts the entries in the rings, but for those     *)
(* published and not counted yet, which may make it negative for a moment, *)
(* and those taken and still counted.                                      *)
PendingExact ==
    pending = Cardinality(Live) - Cardinality(InTop("incr")) + Cardinality(InTop("decr"))

(* A thread is back at the priority it chose whenever it is outside of any *)
(* task or in its outermost one, whatever it ran while it waited.          *)
PriorityRestored ==
    /\ \A t \in Workers : stack[t] = <<>> => exeqpri[t] = 0
    /\ Len(stack[Main]) = 1 => exeqpri[Main] = Top(Main).pri

(* Fork and join cannot deadlock: the root task returns, every thread runs *)
(* out of work and no pending work is left counted, wherever the subtasks  *)
(* were run and however the waiting tasks were stacked.                    *)
Termination ==
    <>[](Root \in finished /\ pending = 0 /\ \A t \in Threads : stack[t] = <<>>)
=============================================================================
