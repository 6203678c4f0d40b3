------------------------------ MODULE Workers ------------------------------
(***************************************************************************)
(* cuflow/workers.[ch]: the pool of worker threads.                        *)
(*                                                                         *)
(* Workers share one mutex and one condition variable.  They serve three   *)
(* kinds of work: the queue of jobs to call now (nowlist), the priority    *)
(* queue of jobs to call at a given time (atq), and the callbacks of       *)
(* registered schedulers, which have work whenever the atomic counter      *)
(* cuflowP_pending_work is not zero.  The counter is raised without the    *)
(* mutex; the raiser then reads the atomic count of waiting workers to     *)
(* decide whether to lock and broadcast.                                   *)
(*                                                                         *)
(* A step is what happens between two points where another thread can tell *)
(* the difference: a critical section without an atomic access is one      *)
(* step, an atomic access within one is a step of its own.  Callbacks run  *)
(* with no mutex held, so the calls they make are those of a client.       *)
(***************************************************************************)
EXTENDS Naturals, Sequences, FiniteSets, SequencesExt

CONSTANTS
    Workers,       \* bound: worker threads which can exist at one time
    Clients,       \* other threads of the program
    Jobs,          \* bound: jobs given to cuflow_workers_call, once each
    AtJobs,        \* bound: jobs given to cuflow_workers_call_at, once each
    Targets,       \* target_count arguments of spawn, at_least and at_most
    MaxTime,       \* bound: the clock runs from 0 to MaxTime
    MaxPending,    \* bound: units of scheduler work outstanding
    MaxSchedulers, \* bound: registered schedulers
    NoThread       \* an unlocked mutex, and no worker

Threads == Workers \cup Clients
Times == 0 .. MaxTime
Never == MaxTime + 1   \* the deadline of a wait without a timeout

ASSUME WorkersAssumption ==
    /\ Workers \cap Clients = {}
    /\ NoThread \notin Threads
    /\ Targets \subseteq Nat
    /\ MaxTime \in Nat /\ MaxPending \in Nat /\ MaxSchedulers \in Nat

ASSUME WorkersFinite == IsFiniteSet(Workers)

VARIABLES
    work_mutex,     \* holder of _work_mutex
    nowlist,        \* _work_nowlist
    atq,            \* _work_atq: pairs <<job, t_call>>
    schedulers,     \* length of _work_scheduler_list
    pending,        \* cuflowP_pending_work
    waiting_count,  \* cuflowP_workers_waiting_count
    workers_mutex,  \* holder of _workers_mutex
    workers_list,   \* _workers_list
    workers_count,  \* _workers_count
    do_shutdown,    \* worker->do_shutdown
    pc,             \* where each thread is; "none" for a thread not started
    itr,            \* the scheduler a thread is about to call in a yield
    deadline,       \* when a sleeping worker's wait times out
    now,            \* the time a worker running timed jobs has read
    victim,         \* the worker a client is shutting down
    target,         \* the target_count of a client's call
    last_count,     \* last_workers_count of a client
    clock,          \* CLOCK_REALTIME
    called,         \* history: the jobs called, in order
    at_called,      \* history: the timed jobs called
    started         \* history: the jobs started, in order

pool_vars == <<workers_mutex, workers_list, workers_count, do_shutdown,
               victim, target, last_count>>
queue_vars == <<nowlist, atq, schedulers, called, at_called, started>>
wait_vars == <<itr, deadline, now>>
vars == <<work_mutex, pending, waiting_count, pc, clock,
          pool_vars, queue_vars, wait_vars>>

WorkerPCs == {"none", "lock", "top", "job", "prewait", "count", "check", "wait",
              "sleep", "woken", "timedout", "atrun", "atjob",
              "uncount", "exit", "dead"}
YieldPCs == {"yield", "sched", "relock"}
ClientPCs == {"idle", "iload", "ibcast", "ylock", "spawning", "dset", "dload",
              "dbcast", "djoin", "dlock"}

\* cuflowP_workers_init
Init ==
    /\ work_mutex = NoThread /\ workers_mutex = NoThread
    /\ nowlist = <<>> /\ atq = {} /\ schedulers = 0
    /\ pending = 0 /\ waiting_count = 0
    /\ workers_list = <<>> /\ workers_count = 0
    /\ do_shutdown = [w \in Workers |-> FALSE]
    /\ pc = [t \in Threads |-> IF t \in Workers THEN "none" ELSE "idle"]
    /\ itr = [t \in Threads |-> 0]
    /\ deadline = [w \in Workers |-> Never]
    /\ now = [w \in Workers |-> 0]
    /\ victim = [c \in Clients |-> NoThread]
    /\ target = [c \in Clients |-> 0]
    /\ last_count = [c \in Clients |-> 0]
    /\ clock = 0
    /\ called = <<>> /\ started = <<>> /\ at_called = {}

-----------------------------------------------------------------------------
\* What a step leaves alone: all but _work_mutex and the program counters,
\* or all but the program counters.
OnlyMutex == UNCHANGED <<pending, waiting_count, clock, pool_vars, queue_vars, wait_vars>>
OnlyPc == UNCHANGED work_mutex /\ OnlyMutex

Goto(t, l) == pc' = [pc EXCEPT ![t] = l]

\* pthread_cond_signal on _work_cond, when the program counters are p: one
\* sleeper is woken, if there is one.
Signal(p) ==
    LET asleep == {w \in Workers : p[w] = "sleep"}
    IN IF asleep = {} THEN {p} ELSE {[p EXCEPT ![w] = "woken"] : w \in asleep}

\* pthread_cond_broadcast on _work_cond
WakeAll(p) == [t \in Threads |-> IF p[t] = "sleep" THEN "woken" ELSE p[t]]

\* The time of the front of the priority queue.
FrontTime == CHOOSE tm \in Times :
                 /\ \E e \in atq : e[2] = tm
                 /\ \A e \in atq : tm <= e[2]
Fronts == {e \in atq : e[2] = FrontTime}

Acquire(t) == work_mutex = NoThread /\ work_mutex' = t
Release(t) == work_mutex = t /\ work_mutex' = NoThread
Holding(t) == work_mutex = t /\ UNCHANGED work_mutex

-----------------------------------------------------------------------------
(* _worker_main                                                            *)

\* Locking the mutex: at the start, and when a job has been run.
WorkerLock(w) ==
    /\ pc[w] \in {"lock", "job"} /\ Acquire(w)
    /\ Goto(w, "top") /\ OnlyMutex

\* while (!worker->do_shutdown): the test at the head of the outer loop, and
\* the one after a job, lead to break_0.
TopShutdown(w) ==
    /\ pc[w] = "top" /\ Holding(w)
    /\ do_shutdown[w]
    /\ Goto(w, "exit") /\ OnlyMutex

(* Fault: the job taken is the last one called.                            *)
TopJob_Last(w) ==
    /\ pc[w] = "top" /\ Release(w)
    /\ ~do_shutdown[w] /\ nowlist # <<>>
    /\ started' = Append(started, Last(nowlist))
    /\ nowlist' = Front(nowlist)
    /\ Goto(w, "job")
    /\ UNCHANGED <<pending, waiting_count, clock, pool_vars, wait_vars,
                   atq, schedulers, called, at_called>>

\* while (!cucon_list_is_empty(&_work_nowlist)): take the first job.
TopJob(w) ==
    /\ pc[w] = "top" /\ Release(w)
    /\ ~do_shutdown[w] /\ nowlist # <<>>
    /\ started' = Append(started, Head(nowlist))
    /\ nowlist' = Tail(nowlist)
    /\ Goto(w, "job")
    /\ UNCHANGED <<pending, waiting_count, clock, pool_vars, wait_vars,
                   atq, schedulers, called, at_called>>

\* No job left: if (AO_load(&cuflowP_pending_work)) cuflowP_yield_lck(cu_true)
TopIdle(w) ==
    /\ pc[w] = "top" /\ Holding(w)
    /\ ~do_shutdown[w] /\ nowlist = <<>>
    /\ IF pending # 0
       THEN Goto(w, "yield") /\ itr' = [itr EXCEPT ![w] = 1]
       ELSE Goto(w, "prewait") /\ UNCHANGED itr
    /\ UNCHANGED <<pending, waiting_count, clock, pool_vars, queue_vars,
                   deadline, now>>

\* if (worker->do_shutdown) break;
PreWait(w) ==
    /\ pc[w] = "prewait" /\ Holding(w)
    /\ Goto(w, IF do_shutdown[w] THEN "exit" ELSE "count")
    /\ OnlyMutex

\* AO_fetch_and_add1(&cuflowP_workers_waiting_count)
Count(w) ==
    /\ pc[w] = "count" /\ Holding(w)
    /\ waiting_count' = waiting_count + 1
    /\ Goto(w, "check")
    /\ UNCHANGED <<pending, clock, pool_vars, queue_vars, wait_vars>>

(* Fault: the second look at the pending work, once counted, is left out.  *)
CheckPending_Skip(w) ==
    /\ pc[w] = "check" /\ Holding(w)
    /\ Goto(w, "wait") /\ OnlyMutex

\* if (!AO_load_acquire(&cuflowP_pending_work))
CheckPending(w) ==
    /\ pc[w] = "check" /\ Holding(w)
    /\ Goto(w, IF pending # 0 THEN "uncount" ELSE "wait")
    /\ OnlyMutex

\* pthread_cond_wait, or pthread_cond_timedwait until the first timed job.
Sleep(w) ==
    /\ pc[w] = "wait" /\ Release(w)
    /\ deadline' = [deadline EXCEPT ![w] = IF atq = {} THEN Never ELSE FrontTime]
    /\ Goto(w, "sleep")
    /\ UNCHANGED <<pending, waiting_count, clock, pool_vars, queue_vars, itr, now>>

\* POSIX lets a condition wait return with nobody having signalled.
SpuriousWakeup(w) ==
    /\ pc[w] = "sleep"
    /\ Goto(w, "woken") /\ OnlyPc

\* The wait was ended by a signal: err == 0.
Woken(w) ==
    /\ pc[w] = "woken" /\ Acquire(w)
    /\ deadline' = [deadline EXCEPT ![w] = Never]
    /\ Goto(w, "uncount")
    /\ UNCHANGED <<pending, waiting_count, clock, pool_vars, queue_vars, itr, now>>

\* The wait times out: from here on a signal goes to another sleeper.
TimeOut(w) ==
    /\ pc[w] = "sleep"
    /\ deadline[w] <= clock
    /\ Goto(w, "timedout") /\ OnlyPc

(* Fault: a timeout is taken for a wakeup, and the loop goes round.        *)
TimedOut_Ignored(w) ==
    /\ pc[w] = "timedout" /\ Acquire(w)
    /\ deadline' = [deadline EXCEPT ![w] = Never]
    /\ Goto(w, "uncount")
    /\ UNCHANGED <<pending, waiting_count, clock, pool_vars, queue_vars, itr, now>>

\* err == ETIMEDOUT; _worker_atrun starts by reading the clock.
TimedOut(w) ==
    /\ pc[w] = "timedout" /\ Acquire(w)
    /\ deadline' = [deadline EXCEPT ![w] = Never]
    /\ IF do_shutdown[w]
       THEN Goto(w, "uncount") /\ UNCHANGED now
       ELSE Goto(w, "atrun") /\ now' = [now EXCEPT ![w] = clock]
    /\ UNCHANGED <<pending, waiting_count, clock, pool_vars, queue_vars, itr>>

(* Fault: the comparison with the time of the front job is missing.        *)
AtRunJob_Early(w) ==
    /\ pc[w] = "atrun" /\ Release(w)
    /\ atq # {}
    /\ \E e \in Fronts : atq' = atq \ {e}
    /\ Goto(w, "atjob")
    /\ UNCHANGED <<pending, waiting_count, clock, pool_vars, wait_vars,
                   nowlist, schedulers, called, at_called, started>>

\* _worker_atrun: pop the front job if it is due, and signal if the job
\* after it is *not* due.  When the queue is now empty, cucon_priq_front
\* still finds the job just popped in the array, which is due.
AtRunJob(w) ==
    /\ pc[w] = "atrun" /\ Release(w)
    /\ atq # {} /\ FrontTime <= now[w]
    /\ \E e \in Fronts : atq' = atq \ {e}
    /\ LET p == [pc EXCEPT ![w] = "atjob"]
       IN pc' \in IF atq' # {} /\ now[w] < FrontTime' THEN Signal(p) ELSE {p}
    /\ UNCHANGED <<pending, waiting_count, clock, pool_vars, wait_vars,
                   nowlist, schedulers, called, at_called, started>>

\* cu_call(atjob->callback, &now), and back to the queue of timed jobs.
AtLock(w) ==
    /\ pc[w] = "atjob" /\ Acquire(w)
    /\ Goto(w, "atrun") /\ OnlyMutex

\* _worker_atrun is done: no timed job is due at the time it read.
AtRunDone(w) ==
    /\ pc[w] = "atrun" /\ Holding(w)
    /\ atq # {} => now[w] < FrontTime
    /\ now' = [now EXCEPT ![w] = 0]
    /\ Goto(w, "uncount")
    /\ UNCHANGED <<pending, waiting_count, clock, pool_vars, queue_vars, itr, deadline>>

\* AO_fetch_and_sub1(&cuflowP_workers_waiting_count), and around the loop.
Uncount(w) ==
    /\ pc[w] = "uncount" /\ Holding(w)
    /\ waiting_count' = waiting_count - 1
    /\ Goto(w, "top")
    /\ UNCHANGED <<pending, clock, pool_vars, queue_vars, wait_vars>>

(* Fault: a worker which leaves does not pass its wakeup on.               *)
Exit_NoSignal(w) ==
    /\ pc[w] = "exit" /\ Release(w)
    /\ Goto(w, "dead") /\ OnlyMutex

\* break_0: pass the wakeup this worker may have consumed on to another.
Exit(w) ==
    /\ pc[w] = "exit" /\ Release(w)
    /\ pc' \in Signal([pc EXCEPT ![w] = "dead"])
    /\ OnlyMutex

-----------------------------------------------------------------------------
(* cuflowP_yield_lck, in a worker (which goes on to sleep) or in a client. *)

\* The next registered scheduler is called with the mutex released.
YieldCall(t) ==
    /\ pc[t] = "yield" /\ Release(t)
    /\ itr[t] <= schedulers
    /\ Goto(t, "sched") /\ OnlyMutex

\* A scheduler picks up a unit of work, or finds there is none for it.
RunScheduler(t) ==
    /\ pc[t] = "sched"
    /\ pending' \in {pending} \cup (IF pending > 0 THEN {pending - 1} ELSE {})
    /\ itr' = [itr EXCEPT ![t] = @ + 1]
    /\ Goto(t, "relock")
    /\ UNCHANGED <<work_mutex, waiting_count, clock, pool_vars, queue_vars,
                   deadline, now>>

YieldLock(t) ==
    /\ pc[t] = "relock" /\ Acquire(t)
    /\ Goto(t, "yield") /\ OnlyMutex

YieldDone(t) ==
    /\ pc[t] = "yield"
    /\ itr[t] > schedulers
    /\ itr' = [itr EXCEPT ![t] = 0]
    /\ IF t \in Workers
       THEN Holding(t) /\ Goto(t, "prewait")
       ELSE Release(t) /\ Goto(t, "idle")
    /\ UNCHANGED <<pending, waiting_count, clock, pool_vars, queue_vars,
                   deadline, now>>

-----------------------------------------------------------------------------
(* The calls which add work.                                               *)

\* A call whose effect is one critical section of _work_mutex.
Section(c) == pc[c] = "idle" /\ work_mutex = NoThread /\ UNCHANGED work_mutex

\* cuflow_workers_call
Call(c, j) ==
    /\ Section(c)
    /\ nowlist' = Append(nowlist, j)
    /\ called' = Append(called, j)
    /\ pc' \in Signal(pc)
    /\ UNCHANGED <<pending, waiting_count, clock, pool_vars, wait_vars,
                   atq, schedulers, at_called, started>>

(* Fault: only the first job to enter an empty queue is announced.         *)
CallAt_EmptyOnly(c, j, tm) ==
    /\ Section(c)
    /\ atq' = atq \cup {<<j, tm>>}
    /\ at_called' = at_called \cup {j}
    /\ pc' \in IF atq = {} THEN Signal(pc) ELSE {pc}
    /\ UNCHANGED <<pending, waiting_count, clock, pool_vars, wait_vars,
                   nowlist, schedulers, called, started>>

\* cuflow_workers_call_at: a job which becomes the front is announced.
CallAt(c, j, tm) ==
    /\ Section(c)
    /\ atq' = atq \cup {<<j, tm>>}
    /\ at_called' = at_called \cup {j}
    /\ pc' \in IF atq = {} \/ tm < FrontTime THEN Signal(pc) ELSE {pc}
    /\ UNCHANGED <<pending, waiting_count, clock, pool_vars, wait_vars,
                   nowlist, schedulers, called, started>>

\* cuflow_workers_register_scheduler
RegisterScheduler(c) ==
    /\ Section(c)
    /\ schedulers < MaxSchedulers
    /\ schedulers' = schedulers + 1
    /\ UNCHANGED <<pc, pending, waiting_count, clock, pool_vars, wait_vars,
                   nowlist, atq, called, at_called, started>>

\* cuflow_workers_call_on_signal: a scheduler too, announced by a signal.
CallOnSignal(c) ==
    /\ Section(c)
    /\ schedulers < MaxSchedulers
    /\ schedulers' = schedulers + 1
    /\ pc' \in Signal(pc)
    /\ UNCHANGED <<pending, waiting_count, clock, pool_vars, wait_vars,
                   nowlist, atq, called, at_called, started>>

\* cuflow_workers_incr_pending: raise the counter without the mutex,
IncrPending(c) ==
    /\ pc[c] = "idle"
    /\ pending < MaxPending
    /\ pending' = pending + 1
    /\ Goto(c, "iload")
    /\ UNCHANGED <<work_mutex, waiting_count, clock, pool_vars, queue_vars, wait_vars>>

\* cuflow_workers_broadcast: then read the count of waiting workers,
LoadWaiting(c) ==
    /\ pc[c] \in {"iload", "dload"}
    /\ Goto(c, CASE waiting_count # 0 /\ pc[c] = "iload" -> "ibcast"
                 [] waiting_count # 0 /\ pc[c] = "dload" -> "dbcast"
                 [] waiting_count = 0 /\ pc[c] = "iload" -> "idle"
                 [] waiting_count = 0 /\ pc[c] = "dload" -> "djoin")
    /\ OnlyPc

\* cuflowP_workers_broadcast: and if there are any, lock and wake them all.
Broadcast(c) ==
    /\ pc[c] \in {"ibcast", "dbcast"}
    /\ work_mutex = NoThread
    /\ pc' = WakeAll([pc EXCEPT ![c] = IF @ = "ibcast" THEN "idle" ELSE "djoin"])
    /\ OnlyPc

\* cuflow_yield, called while waiting for other work.
Yield(c) ==
    /\ pc[c] = "idle"
    /\ pending # 0
    /\ Goto(c, "ylock") /\ OnlyPc

\* cuflowP_yield
YieldEnter(c) ==
    /\ pc[c] = "ylock" /\ Acquire(c)
    /\ itr' = [itr EXCEPT ![c] = 1]
    /\ Goto(c, "yield")
    /\ UNCHANGED <<pending, waiting_count, clock, pool_vars, queue_vars,
                   deadline, now>>

-----------------------------------------------------------------------------
(* The number of workers.                                                  *)

work_vars == <<work_mutex, pending, waiting_count, clock, queue_vars, wait_vars>>

\* One round of _workers_drop_lck: the first worker leaves the list, and
\* _workers_mutex is released while it is shut down.
PopWorker(c, n) ==
    /\ workers_list # <<>>
    /\ victim' = [victim EXCEPT ![c] = Head(workers_list)]
    /\ workers_list' = Tail(workers_list)
    /\ workers_count' = workers_count - 1
    /\ last_count' = [last_count EXCEPT ![c] = workers_count - 1]
    /\ target' = [target EXCEPT ![c] = n]
    /\ workers_mutex' = NoThread
    /\ Goto(c, "dset")
    /\ UNCHANGED do_shutdown

\* cuflow_workers_spawn and _at_most, when there are too many workers.
Drop(c, n) ==
    /\ pc[c] = "idle" /\ workers_mutex = NoThread
    /\ n < workers_count
    /\ PopWorker(c, n)
    /\ UNCHANGED work_vars

(* Fault: do_shutdown is set without _work_mutex.                          *)
SetShutdown_Unlocked(c) ==
    /\ pc[c] = "dset"
    /\ do_shutdown' = [do_shutdown EXCEPT ![victim[c]] = TRUE]
    /\ Goto(c, "dload")
    /\ UNCHANGED <<work_vars, workers_mutex, workers_list, workers_count,
                   victim, target, last_count>>

\* worker->do_shutdown = cu_true, under _work_mutex.
SetShutdown(c) ==
    /\ pc[c] = "dset" /\ work_mutex = NoThread
    /\ do_shutdown' = [do_shutdown EXCEPT ![victim[c]] = TRUE]
    /\ Goto(c, "dload")
    /\ UNCHANGED <<work_vars, workers_mutex, workers_list, workers_count,
                   victim, target, last_count>>

\* pthread_join(worker->thread): the thread is gone.
Join(c) ==
    /\ pc[c] = "djoin" /\ pc[victim[c]] = "dead"
    /\ pc' = [pc EXCEPT ![c] = "dlock", ![victim[c]] = "none"]
    /\ victim' = [victim EXCEPT ![c] = NoThread]
    /\ UNCHANGED <<work_vars, workers_mutex, workers_list, workers_count,
                   do_shutdown, target, last_count>>

\* Lock _workers_mutex again: give up if another thread has spawned
\* workers, else go on while there are too many.
DropAgain(c) ==
    /\ pc[c] = "dlock" /\ workers_mutex = NoThread
    /\ IF workers_count > last_count[c] \/ target[c] >= workers_count
       THEN /\ Goto(c, "idle")
            /\ target' = [target EXCEPT ![c] = 0]
            /\ last_count' = [last_count EXCEPT ![c] = 0]
            /\ UNCHANGED <<workers_mutex, workers_list, workers_count,
                           do_shutdown, victim>>
       ELSE PopWorker(c, target[c])
    /\ UNCHANGED work_vars

\* cuflow_workers_spawn and _at_least, when there are too few workers.
Spawn(c, n) ==
    /\ pc[c] = "idle" /\ workers_mutex = NoThread
    /\ n > workers_count
    /\ workers_mutex' = c
    /\ target' = [target EXCEPT ![c] = n]
    /\ Goto(c, "spawning")
    /\ UNCHANGED <<work_vars, workers_list, workers_count, do_shutdown,
                   victim, last_count>>

\* One round of _workers_spawn_lck: append and create a thread.
SpawnOne(c) ==
    /\ pc[c] = "spawning"
    /\ target[c] > workers_count
    /\ \E w \in Workers :
          /\ pc[w] = "none"
          /\ workers_list' = Append(workers_list, w)
          /\ do_shutdown' = [do_shutdown EXCEPT ![w] = FALSE]
          /\ Goto(w, "lock")
    /\ workers_count' = workers_count + 1
    /\ UNCHANGED <<work_vars, workers_mutex, victim, target, last_count>>

SpawnDone(c) ==
    /\ pc[c] = "spawning"
    /\ target[c] <= workers_count
    /\ workers_mutex' = NoThread
    /\ target' = [target EXCEPT ![c] = 0]
    /\ Goto(c, "idle")
    /\ UNCHANGED <<work_vars, workers_list, workers_count, do_shutdown,
                   victim, last_count>>

\* CLOCK_REALTIME advances.
Tick ==
    /\ clock < MaxTime
    /\ clock' = clock + 1
    /\ UNCHANGED <<work_mutex, pending, waiting_count, pc,
                   pool_vars, queue_vars, wait_vars>>

-----------------------------------------------------------------------------
YieldStep(t) == YieldCall(t) \/ RunScheduler(t) \/ YieldLock(t) \/ YieldDone(t)

WorkerStep(w) ==
    \/ WorkerLock(w) \/ TopShutdown(w) \/ TopJob(w) \/ TopIdle(w)
    \/ PreWait(w) \/ Count(w) \/ CheckPending(w) \/ Sleep(w) \/ Woken(w)
    \/ TimeOut(w) \/ TimedOut(w) \/ AtRunJob(w) \/ AtLock(w)
    \/ AtRunDone(w) \/ Uncount(w) \/ Exit(w) \/ YieldStep(w)

\* The steps of a client inside a call.
ClientStep(c) ==
    \/ LoadWaiting(c) \/ Broadcast(c) \/ YieldEnter(c) \/ YieldStep(c)
    \/ SetShutdown(c) \/ Join(c) \/ DropAgain(c) \/ SpawnOne(c) \/ SpawnDone(c)

\* A new call, at the client's pleasure.
ClientCall(c) ==
    \/ \E j \in Jobs \ Range(called) : Call(c, j)
    \/ \E j \in AtJobs \ at_called, tm \in Times : CallAt(c, j, tm)
    \/ RegisterScheduler(c) \/ CallOnSignal(c)
    \/ IncrPending(c) \/ Yield(c)
    \/ \E n \in Targets : Drop(c, n) \/ Spawn(c, n)

Next ==
    \/ \E w \in Workers : WorkerStep(w) \/ SpuriousWakeup(w)
    \/ \E c \in Clients : ClientStep(c) \/ ClientCall(c)
    \/ Tick

Spec == Init /\ [][Next]_vars

\* Threads are scheduled and mutexes are granted fairly, time passes, and a
\* wait whose time has come is not forever ended by spurious wakeups.
FairSpec ==
    /\ Spec
    /\ \A w \in Workers : SF_vars(WorkerStep(w)) /\ SF_vars(TimeOut(w))
    /\ \A c \in Clients : SF_vars(ClientStep(c))
    /\ WF_vars(Tick)

-----------------------------------------------------------------------------
TypeOK ==
    /\ work_mutex \in Threads \cup {NoThread}
    /\ workers_mutex \in Clients \cup {NoThread}
    /\ nowlist \in Seq(Jobs) /\ called \in Seq(Jobs) /\ started \in Seq(Jobs)
    /\ atq \subseteq AtJobs \X Times /\ at_called \subseteq AtJobs
    /\ schedulers \in Nat /\ pending \in Nat /\ waiting_count \in Nat /\ workers_count \in Nat
    /\ workers_list \in Seq(Workers)
    /\ do_shutdown \in [Workers -> BOOLEAN]
    /\ pc \in [Threads -> WorkerPCs \cup YieldPCs \cup ClientPCs]
    /\ itr \in [Threads -> Nat]
    /\ deadline \in [Workers -> Times \cup {Never}]
    /\ now \in [Workers -> Times] /\ clock \in Times
    /\ victim \in [Clients -> Workers \cup {NoThread}]
    /\ target \in [Clients -> Nat] /\ last_count \in [Clients -> Nat]

Asleep == {w \in Workers : pc[w] = "sleep"}
Awake == {w \in Workers : pc[w] \notin {"none", "dead", "sleep"}}

(* Jobs given to cuflow_workers_call are started in the order of the       *)
(* calls, each once, whichever workers take them and whoever shuts down.   *)
JobsInOrder == called = started \o nowlist

(* A worker does not sleep on scheduler work: whenever a worker is asleep  *)
(* while cuflowP_pending_work is raised, the client which raised it has    *)
(* its broadcast ahead.                                                    *)
NoSleepOnPending ==
    Asleep # {} /\ pending # 0
        => \E c \in Clients : pc[c] \in {"iload", "ibcast"}

(* A worker does not sleep through its own shutdown: whoever set its       *)
(* do_shutdown, and will join it, has its broadcast ahead.                 *)
ShutdownNotLost ==
    \A w \in Asleep :
        do_shutdown[w]
            => \E c \in Clients : victim[c] = w /\ pc[c] \in {"dload", "dbcast"}

\* The workers which will look at nowlist before they sleep again.
WillLook == {w \in Awake : pc[w] \notin {"prewait", "count", "check", "wait"} \cup YieldPCs}

(* "Call f in one of the worker threads, as soon as one is ready": a queued*)
(* job is never left waiting by sleeping workers with none on its way to   *)
(* the queue.                                                              *)
NoStrandedJob == nowlist # <<>> /\ Asleep # {} => WillLook # {}

(* As long as no scheduler is registered, cuflowP_yield_lck keeps the      *)
(* mutex and the promise is kept, though signals go to workers that are    *)
(* shutting down, or waking up by themselves.                              *)
NoStrandedJobUnlessYielding == schedulers = 0 => NoStrandedJob

(* "Make sure we have at least one worker which will do the timed job": if *)
(* anyone sleeps while there are timed jobs, some worker sleeps no longer  *)
(* than until the first of them, or is awake.                              *)
TimedJobCovered ==
    atq # {} /\ Asleep # {}
        => \/ Awake # {}
           \/ \E w \in Asleep : deadline[w] <= FrontTime

(* A timed job is not started before its time.                             *)
NotEarly == [][\A e \in atq \ atq' : e[2] <= clock]_vars

(* A thread that drops workers gets to the end: the workers it shuts down  *)
(* are woken, leave and are joined.                                        *)
DropCompletes ==
    \A c \in Clients :
        pc[c] \in {"dset", "dload", "dbcast", "djoin", "dlock"} ~> pc[c] = "idle"

\* Some worker is, from some time on, never dropped.
StableWorker == \E w \in Workers : <>[](w \in Range(workers_list))

(* As long as some worker is kept, every timed job is started.             *)
TimedJobsServed ==
    StableWorker =>
        \A j \in AtJobs : j \in at_called ~> ~\E tm \in Times : <<j, tm>> \in atq

\* For model checking: threads and timed jobs are interchangeable.
Sym == Permutations(Workers) \cup Permutations(Clients) \cup Permutations(AtJobs)
=============================================================================
