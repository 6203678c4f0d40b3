# Verification of culibs

TLA+ models of culibs: the threading library `cuflow`, the hash-consing
allocator of `cuoo`, the locks and strings of `cu`, the containers of `cucon`
and `cugra`, the algebra of expressions of `cuex`, and the text streams of
`cutext`. TLC checks the models on small instances. For everything that
threads share, and for the hash-consing sets, TLAPS proves the safety
properties for every value of the constants. Every definition is translated
from the source; `PROJECT.json` maps it to the lines it stands for.

## 1. Inventory

culibs is a collection of C libraries for programs run under the
Boehm-Demers-Weiser collector. What is shared between threads:

| Part | State it keeps | Operations | What makes it correct | Module |
|---|---|---|---|---|
| `cuflow/cdisj` | atomic counters owned by callers; 128 stripes of mutex, condition, `waiting_count` | `sub1` and its fence variants, `wait_while`, `wait_until` | no wakeup is lost, the count of waiters is exact, waits end | `Cdisj` |
| `cuflow/promise` | state word, union of initiator, queue and value | `process`, `fulfill`, `set_state`, `set_fulfilled`, `increment_state` | the initiator runs once, waiters return, with the value set | `Promise` |
| `cu/rarex`, `cu/tstate` | one word of readers and writers; a chain of thread states | `lock_read`, `lock_write`, `trylock_*`, `unlock_*`, `promote` | writers exclude, nobody stays jammed, the assertions hold | `Rarex` |
| `cuflow/workers` | list of workers, job list, timed-job queue, schedulers, pending and waiting counts | `call`, `call_at`, `call_on_signal`, `register_scheduler`, `incr_pending`, `broadcast`, `spawn*`, `yield`, the worker loop | nobody sleeps on work or on its own shutdown, jobs in order, timed jobs in time, drops end | `Workers` |
| `cuflow/sched` | per thread and priority a ring of calls; guards; pending count | `call`, `call_sub1`, their `_at` forms, `cuflowP_schedule` | each call runs once, joins are complete, the pending count is exact, the computation ends | `Sched` |
| `cuflow/tstate` | cyclic chain of thread states | create, destroy, the walk of `cuflowP_schedule` | a walk without a lock returns to its own thread | `Tstate` |
| `cuflow/cached` | bins of nodes with a counter each | `call`, `promise`, prune, resize | one computation per argument at a time, whose result is returned | `Cached` |
| `cuflow/gworkq`, `gflexq` | queue of calls and ring of flexible queues per priority, a priority hint read without the mutex, subqueue lists | `sched*`, `yield*`, `gflexq_sched`, `enter`, `leave`, `raise_priority` | calls are found, once and in order; a queue has the priority of the threads in it | `GWorkq` |
| `cuoo/halloc` under the collector | 32 sets with a mutex each, mark bits, the lazy sweep | allocation in several threads, the disclaim procedure | sets hold live objects, one per key; what a client holds stays findable | `Hcons` |

What is sequential, and agrees with a reference definition:

| Part | What it is compared with | Modules |
|---|---|---|
| `cuoo/halloc` tables: chains of pairs and quads, growing, shrinking | an abstract set (refinement); sizes that do not chase each other | `HashSet`, `Hset` |
| `cuoo/halloc_disapp`, `halloc_disclaim_old` | where a search looks, registrations of links | `HconsOther` |
| `cuflow/cache`, `workq`; `cucon/stack` | a set of objects; sequences | `Cache`, `Chunked` |
| `cucon/ucset`, `ucmap`, `ucmultimap`, `cuex/atree`, `set`, `labelling`, `semilattice` | sets and functions; the one tree there is for each | `WordKey`, `Ucset`, `Ucmap`, `Ucmultimap`, `Atree` |
| `cucon/rbtree`, `umap`, `hzmap`, `hmap`, `priq`, `pritree`, `fibq`, `fibheap` | sets, functions, greatest elements | `Rbtree`, `Hashmaps`, `Heaps` |
| `cu/dlink`, `ptr_seq`, `cucon/list`, `po`, `bitarray`, `cu/str`, `cuoo/layout` | rings and sequences, a partial order, sets of bits, byte sequences, disjoint fields | `Dlink`, `Po`, `Bitarray`, `Str`, `Layout` |
| `cugra` | reachability, cycles, paths | `Graph`, `GraphAlgo` |
| `cuex/subst`, `ssfn`, `ltree`, `monoid`, `optimal_fold`, `algo`, `compound`, `labelling` | most general unifiers, matching by definition, sequences, bisimilar trees, sets of occurrences | `Subst`, `Ssfn`, `Ltree`, `Fold`, `Expr` |
| `cu/buffer`, `dsink`, `cutext` | the bytes that went in | `TextIO` |

The other parts are listed in section 8 and, one by one, in `PROJECT.json`.

How the parts interact:

- A task of `sched` waits on its guard with `cdisj`, whose waiting function
  first runs scheduled calls. `sched` raises the pending count of `workers`,
  whose idle workers call `cuflowP_schedule` as a registered scheduler, and
  find the rings of other threads by walking the chain of `tstate`. A call of
  `cached` may be a scheduled one, on which other callers wait with `cdisj`.
- `promise` owns a flexible queue of `gworkq` and shares its one mutex and one
  condition variable with every other waiter of the global queue.
- `rarex` locks the property lists of `cuoo/prop.c`, the only user.
- The collector calls back into `cuoo/halloc`, from the thread that allocates,
  with the collector's lock held and possibly with the mutex of a set held.
- Expressions of `cuex` are hash-consed by `cuoo/halloc`: equal ones have one
  address, which is why the trees keyed by addresses have to be canonical.

What is hard here: atomic counters read without the mutex under which waiters
go to sleep (`cdisj`, `workers`, `promise`, `gworkq`); one condition variable
for many reasons to wait; rings filled without a lock; a chain walked without
one; a mutex released in the middle of an operation and a test not repeated
(`workers`, `gflexq`); tasks buried in each other's stacks (`sched`); a
collector that sweeps while other threads search (`halloc`); chains whose
nodes change kind (`halloc`); a position computed before a resize and used
after it (`cache`); arrays that strings share (`str`). `PROJECT.json` lists these hazards at their lines, with the
properties that would catch them.

## 2. Modules and their correspondence with the code

A step of a model is what happens between two points where another thread can
see a difference. A critical section in which every shared access is protected
by the mutex held is one step; an atomic access outside the mutex, or one that
other threads read without it, is a step of its own. Callbacks are opaque and
run with no mutex held, so the calls they make are made by the model's
clients. An operation of a sequential part is one step.

**Cdisj.** `cdisj`, `waiting_count` and `mutex` are the counters and the
stripes; `pc` walks `cuflowP_cdisj_wait_while` and `cuflowP_cdisj_broadcast`
access by access. `StripeOf` is any hashing of counters to stripes.
`cuflow_cdisj_wait_until` is the call with `cond` true, with the test that the
code makes.

**Promise.** The promise, its queue (`queued`, and `linked` for whether it is
in the global queue), the mutex and the condition. The client's computation is
one of `Plans`, a sequence of transitions made by one job each, every job
scheduling the next, which is the order that the header asks of clients. What
promises share with the rest of the work queue is `hint`, the priority below
which a thread is told that there is no work. A thread that waits reads it
with the mutex and sleeps if it is below its own priority, whether or not a
job is queued; a thread that looks for work (`Helpers`, with lowest priorities
from `Cutoffs`) copies it without the mutex (`ReadHint`), then takes a job or
finds none (`HelpJob`, `HelpNone`), and writes the copy back. The history
variable `slip` becomes true when a write takes back a raise of the hint made
after the copy, and when a hint of -1, as an unsigned word the greatest, is
not raised by a call.

**Rarex.** The word, the chain of thread states and what each is jammed on.
The fast paths are one atomic operation; what is done with the global mutex
is one step, with the word read once in it. `asserts` records whether an
assertion of `rarex.c` has failed.

**Workers.** One action per section of `_worker_main`, `_worker_atrun`,
`cuflowP_yield_lck`, `_workers_drop_lck` and `_workers_spawn_lck`, and one per
call of a client. `nowlist` and `atq` are the queues (the priority queue is a
set, of which any first entry may come out), `called`, `at_called` and
`started` are history. `Tick` and `TimeOut` are the clock and
`pthread_cond_timedwait`. A thread that is dropped can be spawned again.

**Sched.** A thread's stack is a sequence of frames, each a running task or an
activation of `cuflowP_schedule` with the ring it is visiting. Publishing an
entry, counting it, reading a slot, moving the tail and discounting the entry
are separate steps. Blocking on a guard and the sleep of idle workers are
abstracted to "goes on when the condition holds", which is what `Cdisj` and
`Workers` establish. The chain of threads is the constant `NextTs`, which
`Tstate` justifies. `CUFLOW_CALLS_BETWEEN_SCHED` is 1, as configured.

**Tstate, Cached.** In `Tstate` the places of thread-local storage keep the
links they had when their thread left. In `Cached` a bin is shared by threads
that call, promise, compute and prune; the chain of a slot is the set of its
nodes.

**GWorkq.** `jobs` are the queues of calls, `ring` the flexible queues linked
at each priority, `gpri` the hint, a word of modulus `Word`. What is done under
the mutex is one step; the test and the copy of the hint before it are steps
of their own. `slip` is as in `Promise`; `overtaken` becomes true when a raise,
compared before the mutex is taken, lowers a queue that another one has raised
meanwhile. They are history: nothing in the model depends on them. A raise of priority through a list of subqueues leaves the list;
the model then stops ("wild").

**HashSet, Hset.** `Hset` is one set: every quad is full, so a chain is a
sequence, and the node kinds follow from its length; `pairs` and `quads` count
what `malloc` has handed out. `HashSet` says what a set promises: an
allocation finds the object of its key if and only if it was allocated and not
disclaimed since. `Hset` refines it. How many buckets there are for how many
objects is stated of `Hset` itself, with the bounds of `_hset_validate` and
by what each resizing leaves room for.

**Hcons.** The sets are sets of objects here. Search, marking, allocation,
each object swept, disclaim and insertion are separate steps of any number of
threads. The collector is external and modelled from its use: marking with the
world stopped, then a lazy sweep by whichever thread allocates, under the
collector's lock, which calls the disclaim procedure for each unmarked object.
An allocation may find a swept object on the free list of its thread, and
needs no lock for it (`TakeFree`). The history variable `raced` has the objects
that a search found between the test of their mark by a sweep and their
removal.
Some of the `Threads` may be absent, so programs of one thread are included.

**The sequential parts** share two variables: `con` is the data structure, as
the code lays it out, and `ref` is what it stands for. Hash-consed trees are
values, since equal ones have one address; links of nodes are functions, and
an operation on links is the sequence of its assignments. Clients make every
sequence of operations; what only computes is compared in each state. Where
memory is shared (`Str`), a string remembers which arrays it may write to and
which donors have been spoilt.

**Compositions.** `MCWaiting` puts `Cdisj`, `Promise` and `Rarex` together,
`MCSched` has `Sched` with `Tstate` and `Cached`, `MCContainers` has `Hcons` and
the containers, and `MCValues` `GWorkq`, strings and the parts that compute with
expressions and text.
`what` says which part a behaviour is about, so one run checks many small
instances. `Workers` is run by itself, and so are the parts of which a run
shows that something goes wrong. `xProofs` modules hold proofs. Operators commented "Fault:" are
not part of the models: each is a plausible bug in the definition that follows
it, and TLC finds a named property violated when it takes that definition's
place.

## 3. Runs

| Run | Instance | States | Shows |
|---|---|---|---|
| `waiting` | 3 threads; 2 counters on 1 stripe up to 2; promises with a value and counting, states 2, 3, 3 wanted, one thread that looks for work first, at priority 0 or 1; one lock | 135,339 | `WaitingCountExact`, `NoLostWakeup`, `NobodyForgotten`; writers exclude; a promise is started once, waited for to the end, and has the right value; waits for counters and promises return, the latter unless the hint has been spoilt |
| `workers` | 2 workers, 2 clients, 2 jobs, 1 scheduler, targets 0 to 2 | 938,933 | nobody sleeps on pending work, on its own shutdown or, without schedulers, on a queued job; jobs run in order |
| `workers_timed` | 2 workers, 1 client, 2 timed jobs, clock 0 to 1 | 56,878 | a worker wakes up in time for the first timed job; none starts early; drops end; timed jobs are served while some worker is kept |
| `workers_lost_job` | 1 worker, 2 clients, 1 scheduler | violation | a queued job and a sleeping worker, see section 7 |
| `sched` | 3 threads, 6 tasks in a tree of depth 2, rings of 2 slots, both priorities; chains of up to 4 thread states; 3 callers of a cached function on a bin of 4 nodes | 540,160 | each task runs once, joins, exact pending count, restored priorities, the computation ends; walks return; cached calls compute once at a time and return the result |
| `containers` | hash-consing by up to 2 threads, 3 keys in 2 sets, 3 objects; the containers as below | 526,520 | sets hold live objects, one per key, and what a client holds stays findable unless it was found while being given up; the containers keep their form and agree with what they stand for; `Hset` refines `HashSet`, and its sizes do not chase each other |
| `hcons_race` | the same hash-consing | violation | an object found and lost, see section 7 |
| `values` | `GWorkq` with up to 2 threads, 2 flexible queues, 3 priorities, nested entering, and either 2 calls or 1 call and changing priorities of threads; expressions, strings, text | 1,451,628 | flexible queues with work are linked; a call is queued once, in order, and not while it runs; until a stale copy of the hint is written back the hint covers the work, and until two raises meet a queue has the priority of every thread in it; unification, matching, folding, trees and streams agree with their definitions |
| `promise_lost` | 3 threads wanting state 2, a promise that is never fulfilled | violation | a waiter that sleeps on, see section 7 |
| `promise_hint` | 3 threads, 2 of which look for work first, 2 jobs | violation | a waiter that sleeps beside a queued job, see section 7 |
| `rarex_recursive` | 2 threads, reading to depth 2 | violation | a recursive reader and a writer waiting for each other, see section 7 |
| `scc` | every graph of 3 vertices | violation | a component that is passed in pieces, see section 7 |

`WellFormed`, `Answers` and `Derived` of the two large runs are one conjunct
per part: the form that the operations rely on, the answers of searches and
walks, and what is made of one or two structures.

Why the bounds suffice. Three threads give a decrementer, a sleeper and a
second sleeper or newcomer, the parties of every wakeup race here; two
counters on one stripe give wakeups meant for somebody else; a lock with three
threads has a reader, a writer and one more of either kind. Two workers and
two clients give a worker shut down while the other one takes its signal. A
ring of two slots holds one entry and is full, empty and wrapped around within
a few calls; a tree of depth two lets a task wait on top of another one's
stack. A bin of four nodes and three callers let a node be pruned while a
second caller waits on it and the third makes the bin grow. Three priorities
and two queues give a queue that moves past another one, and one entered from
the other; a hint of -1 and a copy of it older than a raise both occur. One
thread that looks for work beside one that waits and one that schedules spoils
the hint of a promise. With
`MIN_CAPACITY` 2 a table grows and shrinks several times with few objects; 23
objects on two chains reach chains of every length modulo 3 long enough that
every merge case happens while shrinking. Three objects held by
two threads exhaust the heap, so that `OutOfMemory` happens; three keys for them
let an address be reused for another key, and two sets let a sweep in one
meet a search in the other. Words
of four or five bits have a sign, wrap around, and have keys at every level of
the radix trees; nine keys give red-black trees of every shape of rotation;
the algorithms on graphs see
every graph of four vertices with one possible loop, 8192; chunks of two and buffers of two or three bytes are crossed by most
operations.

Symmetry is used in `workers`, `containers`, `hcons_race` and `values`, which
check no liveness.
Deadlock is checked in every run; a program that has ended steps by an
explicit `Finished`, `Idle`, `Aborted` or `Stopped`. The type invariant is
checked by TLC in `waiting` and `containers`; of the other parts with theorems it
is proved.

## 4. Fairness

- Every thread that can take a step inside a call takes it (the operating
  system schedules threads). New calls are never required.
- Where a thread waits for a mutex that others keep taking, fairness is strong:
  the mutex does not starve it. This is assumed in `Workers`, `Sched` and
  `Promise`, and not needed in `Cdisj`, whose waits are for counters that stay
  at zero. In `MCSched` it is asked of the steps of `Sched` (`SchedStep`).
  `Rarex` has no liveness property: writers can starve readers.
- Time passes, and a wait that has timed out is not forever ended by spurious
  wakeups instead.
- Spurious wakeups may happen and are never relied on.

The memory is sequentially consistent: the atomic operations are locked
instructions on x86, and mutexes order the rest. On weaker machines the
release-only variants of `sub1` (`cdisj.h:71`) would need a stronger argument.

## 5. Proofs

The theorems hold for any finite set of threads, any number of objects, keys,
tasks, priorities and slots. Each module has an inductive invariant that is
stronger than the properties the runs check; what is added says what a thread
holds, knows or owes between two of its steps.

**WaitingProofs** (`Cdisj`, `Promise`, `Rarex` inside `MCWaiting`).

- Counters: `TypeCorrect`, `CountsExact`, `NoWakeupIsLost`. `IInv` adds that a
  thread inside a critical section holds its stripe's mutex (`MutexHeld`), and
  extends `NoLostWakeup` to a thread that has tested the counter and not gone
  to sleep yet (`WakeupComing`). A decrement may fall between the test and the
  sleep; the wakeup is then owed because the waiter is counted already, so
  `LoadWaiting` cannot read zero, and the broadcaster cannot have the mutex
  before the waiter releases it. That `waiting_count` is a natural number
  depends on its being exact, so type correctness is part of the induction.
- Promises: `InitiatorRunsOnce`, `ReturnedReady`, `RightValue`, and half of
  `NobodyIsForgotten`. A waiter is never forgotten once its state is fulfilled,
  nor beside a queued job until `slip`: the hint is at least the priority of the
  promise's queue while that is linked, so that nobody who has read it goes to
  sleep, and who slept before was woken by the call that linked it (`HintInv`).
  `PromiseInv` says what the union holds in each state of
  the promise, that exactly one of the queue, a running job and a finished
  plan carries the computation (`OneCarrier`), and that a thread that has seen
  a state fulfilled finds a value (`ValueComing`).
- Locks: `WritersExclude` and the other half. `RarexInv` says that the word is
  the readers plus `WRITE_MULTIPLIER` times the writers, jammed ones included
  (`WordExact`), who has access (`AccessRight`), and that a jammed thread has
  one to release it (`ReleaseComing`); the assertions of `rarex.c` follow.
- `PartsImplemented`: a behaviour of the composition is one of each part, so
  that the first group's theorems, about `Cdisj` alone, hold in it.

Assumptions: `CdisjAssumption` (types), `ThreadsFinite`, `PromiseAssumption`
(the transitions of a plan stay below fulfilled until the last sets the value,
as `promise.h` asks), `RarexAssumption` (a word has room for all readers).

**WorkersProofs**: `PendingIsSeen`, `ShutdownIsSeen`, `JobsAreServed`,
`JobsStartInOrder`, `TimedJobsCovered`, `TimedJobsNotEarly`. `IInv` adds where
a worker holds the mutex, that the waiting count is exact (`CountExact`), that
pending work raised after a worker's look is owed a broadcast (`PendingSeen`),
who is being shut down by whom (`VictimOK`), and that a worker about to wait
has just seen no job and no shutdown (`NoJobSeen`, `NotShutDown`).
Assumptions: `WorkersAssumption`, `WorkersFinite`.

**SchedProofs**: `EachTaskOnce`, `ReturnedIsJoined`, `PendingIsExact`,
`PriorityIsRestored`. The induction is over stacks of frames: what frames may
lie on what (`StackOK`, `Shape`, `Bottoms`), what priority each keeps for the
one below (`PriKept`), which thread adds to or takes from which ring (`Adding`,
`Taking`), that every live task is at one place, a ring, a hand or a frame
(`LiveOK`, `EachOnce`), and that a guard counts the subtasks that are not done
(`GuardExact`). Assumptions: `SchedAssumption`, `TreeAssumption` (tasks form a
tree, as calls do), `WorkersFinite`.

**CallsProofs** (`Tstate` and `Cached` inside `MCSched`): `WalksReturn`,
`NothingComputedTwice`, `ResultsReturned`. That a walk returns is stated by
sets closed under `next`: every such set that contains a walker's position
contains its thread. The invariant adds that the links of live threads are
mutual and one ring and that a place left behind leads back to it
(`BackToLive`). For cached calls it adds that the chains of a bin hold its
nodes at their hashes and are counted (`Sound`), and that an unfinished node
has one thread or one scheduled call at work on it (`Calls`). Assumptions:
`TstateAssumption` (main is one of the places), `CachedAssumption`
(finitely many nodes at a time, hashes are numbers). `PartsImplemented`: a behaviour
of `MCSched` is one of each of its parts, so that SchedProofs' theorems, about
`Sched` alone, hold in it.

**GWorkqProofs**: `FlexQueuesFound`, `CallsTakenOnce`, `HintIsUpperBound`,
`RequestorsAreServed`, for any number of threads. `IInv` adds what a thread has
at hand between its steps (`AtHand`), that calls are numbered in order
(`Numbered`), that until `slip` the hint also covers the queues that are linked
and empty (`Covers`), that the static priority of a thread is the one with which
it entered all its queues (`Bases`), and that until `overtaken` a thread that
is about to raise its own queue raises it far enough (`RaiseEnough`). The last
two theorems say that `slip` and `overtaken` are the only ways to strand work
and to lower a queue below a thread in it: both are real (section 7), and the
programs that avoid them, by letting no yield run beside a call and no two
raises of a queue meet, are not limited to one thread. Assumption: `GWorkqAssumption` (a word has room for
the priorities and -1).

**HconsProofs**: `TypeCorrect`, `TablesSound`, `RefsStay`. The induction needs
that a thread that missed holds its set's mutex until it inserts
(`LocksHeld`), that its key is still missing meanwhile (`StillMissing`), that
a new object is in no set, of one thread, and safe from the sweep under way
(`NewIsPrivate`), and that an object about to be disclaimed is in use and not
new (`DisclaimedIsOld`, `UnsweptInUse`). `RefsStay` holds for any number of threads
and exempts the objects in `raced`: that an object was found in the middle of
its removal is the only way to lose it. Its induction needs that nobody has
what is being disclaimed, and that the sweep spares what is held (`RefsKept`). The interesting steps are
`DisclaimProc`,
where the mutex being free is what keeps the tables of other threads' searches
intact, and `Allocated` and `TakeFree`, where an address returns to use. Assumption:
`HconsAssumption`.

**HsetProofs** (`Hset`, which implements `HashSet`): `HashSetImplemented`
(the refinement `ImplementsHashSet` of run `containers`), `ResizingsLast` (its
`ResizesLast`), `ObjectsPlaced`, `NodesKept` and `LoadKept` (parts of its
`WellFormed`), for any objects, hashes, limit of the free lists and power of
two as the least capacity, where the run has two hash functions and at most 23
objects in 32 buckets. Most of the module is about what one operation does in
its loops:

- `tlapm` cannot instantiate the library's induction theorems, whose predicate
  is a parameter. `Induction` and `Recursion` state the same with a set of
  numbers and with a function of steps, from `WFMin` and the well-foundedness
  of `<`; sums, powers of two and the loops of `_hset_grow` and `_hset_shrink`
  follow from them.
- Sizes: a capacity is a power of two (`CapacityOrder`: the greater of two is a
  multiple of the less, and at least twice it), and growing and shrinking stay
  within the limits of the load (`GrowthInLimits`, `ShrinkingInLimits`). After
  either, half of the objects have to go before an erasure shrinks, and after
  growing their number has to double, less one or two, before an insertion
  grows (`GrowthLasts`, `ShrinkingLasts`).
- Chains: each merge has the objects of both chains (`Joins`) and an erasure
  those of the chain but one (`Drops`), for all combinations of last links.
- Nodes: each of these takes from malloc and the free lists what the longer
  chain needs and returns the rest (`Takes`). `PairSlack` and `QuadSlack` are
  the nodes that are in no chain and on no free list; a loop over buckets moves
  its source's nodes into the new chains and leaves them alone (`Gains`).
- Buckets: hashes modulo the old capacity agree modulo the new one
  (`RemainderTwice`), so that growing and shrinking put each object in the
  bucket of its hash, where the search looks (`SearchFinds`).

`HsetInv` says that there is a number of buckets, a power of two, for which
the set is `Sound` and `InLimits`. `NotDense` alone is not inductive: a set
that shrinks to a rounded-down quotient of buckets would be overfull if the
quotient were one too few; it is not, because the set was not too sparse
before the erasure and both capacities are powers of two. Its bound exceeds the one asserted at
`halloc_disclaim.c:189` by one half of an object, which a set that has just
shrunk attains (section 7); what an insertion leaves is within the asserted
bound. Assumptions:
`HsetAssumption` (finitely many objects) and `CapacityAssumption`
(`MIN_CAPACITY` is a power of two, 2 or more; it is 8 in the source).

Only model-checked: all liveness, which needs fairness and enabledness that
TLAPS does not handle (`EveryoneReturns`, `DropCompletes`, `TimedJobsServed`,
`ComputationEnds`); `FoundKeyIntact` and the other properties that a run
refutes; and `WellFormed`, `Answers` and `Derived` of
`MCContainers` and `MCValues` as wholes: most of their parts compute with
recursive operators on trees, which TLAPS has no rules for.

## 6. Reading a run

`tlc -config Waiting.cfg MCWaiting` in this directory, and likewise
`Sched.cfg MCSched`, `Containers.cfg MCContainers`, `Values.cfg MCValues`,
`Workers.cfg`, `WorkersTimed.cfg` and `WorkersLost.cfg Workers`,
`HconsRace.cfg Hcons`, `PromiseLost.cfg` and `PromiseHint.cfg Promise`, `RarexRecursive.cfg Rarex`,
`GraphScc.cfg GraphAlgo`; `tlapm HconsProofs.tla` and so on check the proofs.
Every property is preceded by what it says and which code it is about.

## 7. Where the code and its documentation disagree

Shown by runs:

- `workers_lost_job`: `_worker_main` tests the job list, releases the mutex to
  run schedulers (`workers.c:187`) and then waits without testing the list
  again. A job queued meanwhile signals nobody and stays queued while every worker
  sleeps; `workers.h:67` says "as soon as one is ready". Without schedulers the
  property holds (`NoStrandedJobUnlessYielding`).
- `promise_lost`: `cuflow_promise_set_state` below fulfilled stores and
  broadcasts without the mutex (`promise.c:89`), so that a waiter between its test
  and its wait sleeps on. The comment at `promise.c:86` says that a race "only
  means an extra broadcast". A promise that is fulfilled later wakes it.
- `hcons_race`: the found path of `cuexP_halloc_raw` releases the mutex before
  it marks the object (`halloc_disclaim.c:733`); a sweep in another thread that
  has found the object unmarked can reclaim it. The assertion at line 735 may
  then fail. `RefsInTable` says that this is the only way to lose an object that
  is held; with one thread there is none.
- `promise_hint`: a thread that looks for work copies the hint without the mutex
  (`gworkq.c:63`) and, having found nothing, writes the copy back (line 102).
  A job scheduled in between has raised the hint; a waiter then reads the low
  one, is told that there is no work (line 163) and sleeps beside the queued job, and
  nobody broadcasts, since the queue is linked. `promise.h:109` says that
  `process` returns when the state is reached.
- `rarex_recursive`: `rarex.h:55` says of `cu_rarex_lock_read` that it "may be
  called recursively"; a writer that arrives between the two calls jams the
  second one, and waits for the first to be given up.
- `scc`: `algo_SCC.c:100` makes the index of a vertex `INT_MAX` whether or not
  its component has been popped, so that a vertex still on the stack no longer
  counts as one, and its component is passed in pieces. `Components` says that
  nothing else goes wrong: it exempts the graphs where such a vertex is met.

Met while modelling; the models have the code as it is, and the properties are
stated so as to hold.

Threads:

- `cuflow_cdisj_wait_until` (`cdisj.h:53`) has the test of `wait_while`, and
  nothing broadcasts when a counter leaves zero; `cdisj.h:48` says "Waits until
  *cdisj becomes non-zero". Nothing in the repository calls it.
- `_worker_atrun` (`workers.c:93`) signals another worker when the next timed
  job is *not* due; the comment at line 90 says "in case there is more to do
  right away". Jobs due together are run one after the other by one worker.
- `cuflowP_schedule` (`sched.c:91`) visits no priority below the caller's. A
  call made at background priority by a thread of normal priority is never
  run, while the workers see pending work and do not sleep. `ComputationEnds`
  is checked for calls at the priority of the thread or above. The walk at
  line 129 may skip a queue; the owner finds what is in it.
- `tstate.c:48`: if the thread that made the chain leaves it, `chain` points at
  an erased state. Main makes it, and does not leave (`TstateAssumption`).
- `gworkq_yield_at` copies the hint without the mutex (`gworkq.c:63`) and
  stores what it computed from the copy (line 102), below a queue that has got
  work since. With cutoff 0 and no work it stores -1 in the unsigned hint, which
  the unsigned comparisons (lines 175, 198, 259, 284) never raise again; later
  yields then return at once, and work is stranded. `HintCovers` holds for any
  threads until one of these two happens (`slip`).
- `cuflow_gflexq_raise_priority` compares without the mutex and does not repeat
  the comparison with it (`gworkq.c:307`); of two raises the later may lower
  the priority, and `gflexq.h:81` says "never". `RequestorsServed` holds for any
  threads until such a raise (`overtaken`).
- `cuflow_gflexq_raise_priority_glck` (`gworkq.c:298`) assigns each subqueue to
  the variable whose list it compares the end with, so with any subqueue the
  loop leaves its list. The broadcast test at line 172 is never true for fixed
  queues.
- `cuflow_promise_increment_state` (`promise.c:115`) may fulfil before the
  queue is taken out of the union; `Plans` leave that to `fulfil`.
- `cache.c:190` and `210`–`216`: `slot` is computed before the resize and used
  after it, so that the object is lost and still counted. `cache.h:132` says that the
  callback is called only if the object is not in the cache; a lost one is
  computed again. `Placed` of `Cache` exempts exactly those. The callback runs
  with the mutex of the bin held.
- `cached.c`: `node_normalise_access` compares an access with `sizeof` bytes;
  a node found before its callback has set the gain adds -1 (0 in builds with
  `CU_NDEBUG_CLIENT`, the run's value); unfinished nodes are never pruned.
- `rarex_t0.c` replaces the locks by mutexes, so that they are not tested. For
  calls that do not nest they are right, as is proved.
- `workq.c`: free segments are never used again.

Hash-consing:

- `_hset_erase` shrinks to a rounded-down quotient of buckets where insertion
  compares with the mask (`halloc_disclaim.c:629`): 32 buckets left with 11
  objects become 8, which `_hset_validate` (line 189) asserts cannot be.
  `LoadBounded` has the bound the code keeps, `size*2 <= mask*3 + 1`, and
  `ResizesLast` the asserted one after insertions; both are proved.
- The lengths of the free lists are of type `unsigned short`
  (`halloc_disclaim.c:163`) and wrap when a large table, growing or shrinking,
  puts more than 65535 nodes aside; the model has them as numbers.
- `_hset_erase` pops with `_stash_pair` and `_stash_quad` and returns without
  pruning the free lists (line 618), against the comments at line 251.
- `halloc_disclaim.c:842` reads the meta word of an object that may be on a free list.
- `halloc_disapp.c`: `_hcset_adjust` counts without the lock, a count of 0
  makes a table of size 0, and the loop that cleans up dead nodes never runs.
  `halloc_disclaim_old.c` has the race of `hcons_race`.

Containers:

- `po.c`: the first link from bottom to top stays redundant until elements in
  between are related; `cucon_po_open_range` also returns elements beside the range,
  of a level above the upper end's, where `po.h:303` has those between the ends.
  `Ranges` claims the range where nothing lies beside it above the lower end, and
  otherwise that nothing between is missing and all is above the lower end. Functions declared in
  `po.h` are defined under other names.
- `str.c`: a concatenation that takes over the capacity of its first operand
  may overwrite the operand once that is shortened or edited in place (`Str`
  calls such operands spoilt, and `Independent` is about the others);
  `assign_substr` and `chop_space` subtract from a capacity that may be 0;
  `erase_substr` of a string without capacity allocates too little; the two
  case conversions never end; `cu_str_cmp_charr` orders by length first, and
  its comment says "As cu_str_cmp".
- `rbtree.c`: `merge2p` and `cmerge2p` pass `value` for `&value`. `umap.c`:
  `assign_isecn_union` confuses masks, `assign_isecn` does not lower the size,
  `eq_mem` does not advance. `hmap.c`: `insert_node` loops on a collision and
  `set_capacity` zeroes the size. `ucmap.c:208`: the value 0 at a join node
  without value is lost. `ucset.c:391` truncates a filter to `int`.
  `ucmultimap.c`: `_ucmap_node_right` returns the left one.
- `fibheap.c`: `_move_to_root` cuts the wrong ring and `remove` erases twice;
  `fibq.c`: `_update_min` leaves a mark, `union_d` of an empty queue passes NULL.
- `list.c`: `cucon_list_pop_back` erases the end node itself; `list.h`:
  appending an empty list by destruction links its end in.
- `bitarray.c`: `resize_set_at` truncates when an existing element is set;
  `find` ignores the value when it starts inside a word; `cmp` compares bits
  beyond the size.
- `layout.c`: the size of a layout of one word is the word without its widest
  hole, too small when the hole is between fields.
- `stack.c`: the iterators compute what is left with the wrong sign.
- `buffer.c`: `cu_buffer_swap` makes both buffers equal; `array.c`:
  `cucon_array_swap` swaps the capacity with itself.
- `graph.c`: `erase_vertex` unlinks twice; merging graphs with simple arcs does
  not move the table of arcs. `graph_algo.h:88` promises the
  shortest path and its distance; `graph_shortpath.c` relaxes an arc when the
  new distance is longer (lines 84 to 99) and adds up the distances of the
  vertices on the way (line 68). `PathFound` claims a path without repetition, a
  distance that is at least its length, and the length for one arc.
  `graph_algo.h:67` promises a minimum feedback set, and `cugra_MFVS` gives a
  minimal one: with the arcs 12, 13, 14, 21, 23, 31, 34, 41 and 42 it is not a
  minimum. `Feedback` claims that, and a minimum when the reductions leave no
  vertex.

Expressions and text:

- `subst.c`: `is_identity` loops on the identity; unblocking a clone unblocks
  its sources; unification that needs infinite terms recurses forever; one
  that fails leaves its partial changes.
- `ssfn.c`: insertion does not number the arguments, `find_it_advance` stores
  into the wrong frame, `find_eqr` does not remove blocked variables.
- `atree.c`: `subseteq` tests `>` for `>=`, which is safe for aligned keys;
  `deep_order_iv` takes the wrong callback. `ltree.c`: filling from a source
  and slicing to the end may give nodes that are not canonical. `tmonoid.c`:
  a factor source passes the wrapper itself.
- `labelling.c`: contracting what was expanded keeps the value of a label that
  is no factor, and `labelling_t0.c:123` asserts equality, for flat ones only;
  `binding.c`: `cuex_bfree_match` passes its arguments in the wrong order for
  compounds; `occurtree.c`: pruning below a binder leaves an index.
- `source.h:118` says that `cutext_source_look` gives less only at the end or on
  an error, and `bufsource_look` reads once. A failing read is added to the
  count, so nothing is claimed after one. `iconvsource_read` loops at an
  incomplete tail. `cutext_sink_finish` drops what a clog leaves; a flush is
  not passed down, and `sink.h` says it is.

## 8. Not modelled

- `cuflow/cont` and `wind`: jumps through the C stack. `cuflow/wheel`, `time`,
  `errors`, `init`: conversions, exception types, and the order of start.
- `cuos`, `cufo`, `custo`: calls of the operating system and formatting; of
  `cutext` the callbacks that only report and the guesses of encodings.
- `cudyn`, the operator tables of `cuex`, types and interfaces of `cuoo`: made
  once at start, or generated.
- Growing arrays, queues in chunks and thin wrappers in `cucon`; memory,
  hashing and wide strings in `cu`.
- `attic`, documentation and build tools: not built.
- Within the modelled parts: printing and dumps, logging, statistics,
  profiling counters, memory models weaker than x86, termination of the
  program. `PROJECT.json` says for each part what of it is left out.

The rest of the repository is, in large part, headers, tests, printing and
retired code.
