--------------------------- MODULE WorkersProofs ---------------------------
(***************************************************************************)
(* Proofs about Workers, for any workers, clients, jobs and bounds.        *)
(***************************************************************************)
EXTENDS Workers, FiniteSetTheorems, SequenceTheorems, WellFoundedInduction, TLAPS

\* Where a thread holds _work_mutex.
Locked == {"top", "prewait", "count", "check", "wait", "atrun", "uncount", "exit", "yield"}

MutexHeld == \A t \in Threads : pc[t] \in Locked <=> work_mutex = t

\* Each thread is at a place of its kind.
PlaceOK ==
    /\ \A w \in Workers : pc[w] \in WorkerPCs \cup YieldPCs
    /\ \A c \in Clients : pc[c] \in ClientPCs \cup YieldPCs

\* A client has a worker to shut down while it does so.
VictimOK == \A c \in Clients : pc[c] \in {"dset", "dload", "dbcast", "djoin"} => victim[c] \in Workers

\* Where a worker is counted as waiting.
Counted == {"check", "wait", "sleep", "woken", "timedout", "atrun", "atjob", "uncount"}
Waiting == {w \in Workers : pc[w] \in Counted}
CountExact == waiting_count = Cardinality(Waiting)

\* A worker about to sleep, or asleep, has seen no pending work, or the
\* client that has raised it since has its broadcast ahead.
PendingSeen ==
    pending # 0 /\ (\E w \in Workers : pc[w] \in {"wait", "sleep"})
        => \E c \in Clients : pc[c] \in {"iload", "ibcast"}

\* A worker on its way to sleep is not shut down.
NotShutDown == \A w \in Workers : pc[w] \in {"count", "check", "wait"} => ~do_shutdown[w]

\* Without a scheduler a yield keeps the mutex, and so a worker that has
\* found no job finds none until it sleeps.
YieldOK ==
    \A t \in Threads :
        /\ pc[t] \in YieldPCs => itr[t] > 0
        /\ pc[t] \in {"sched", "relock"} => schedulers > 0
NoJobSeen ==
    schedulers = 0 =>
        \A w \in Workers : pc[w] \in {"prewait", "count", "check", "wait", "yield"} => nowlist = << >>

\* The time a worker runs timed jobs for has come.
NowPast == \A w \in Workers : now[w] <= clock

IInv ==
    /\ TypeOK /\ MutexHeld /\ PlaceOK /\ VictimOK /\ CountExact
    /\ PendingSeen /\ NotShutDown /\ ShutdownNotLost /\ YieldOK /\ NoJobSeen
    /\ NoStrandedJobUnlessYielding /\ JobsInOrder /\ TimedJobCovered /\ NowPast

LEMMA CountKept ==
    ASSUME CountExact, waiting_count' = waiting_count,
           \A w \in Workers : pc'[w] \in Counted <=> pc[w] \in Counted
    PROVE  CountExact'
  BY DEF CountExact, Waiting

\* A signal wakes a sleeper, unless there is none.
LEMMA SignalWakes ==
    ASSUME NEW p, NEW q \in Signal(p)
    PROVE  \/ q = p /\ \A v \in Workers : p[v] # "sleep"
           \/ \E v \in Workers : p[v] = "sleep" /\ q = [p EXCEPT ![v] = "woken"]
  BY DEF Signal

LEMMA FrontKept ==
    ASSUME atq' = atq PROVE FrontTime' = FrontTime
  BY DEF FrontTime

\* A nonempty queue of timed jobs has a front.
LEMMA FrontLeast ==
    ASSUME atq # {}, atq \subseteq AtJobs \X Times
    PROVE  /\ FrontTime \in Times
           /\ \E e \in atq : e[2] = FrontTime
           /\ \A e \in atq : FrontTime <= e[2]
  <1> DEFINE S == {e[2] : e \in atq}
  <1>1. S # {} /\ S \subseteq Nat /\ S \subseteq Times
    BY WorkersAssumption DEF Times
  <1>2. PICK x \in S : \A y \in S : ~(<<y, x>> \in OpToRel(<, Nat))
    BY <1>1, NatLessThanWellFounded, WFMin
  <1>3. ASSUME NEW y \in S PROVE x <= y
    <2>1. x \in Nat /\ y \in Nat
      BY <1>1
    <2>2. ~(y < x)
      BY <1>2, <2>1 DEF OpToRel
    <2> QED
      BY <2>1, <2>2
  <1>4. (\E e \in atq : e[2] = x) /\ (\A e \in atq : x <= e[2])
    BY <1>3
  <1> QED
    BY <1>1, <1>4 DEF FrontTime

\* A timed job which is not before the front leaves the front where it was.
LEMMA FrontStays ==
    ASSUME atq # {}, atq \subseteq AtJobs \X Times,
           NEW j \in AtJobs, NEW tm \in Times, ~(tm < FrontTime),
           atq' = atq \cup {<<j, tm>>}
    PROVE  FrontTime' = FrontTime
  <1> DEFINE IsFront(x, q) == (\E e \in q : e[2] = x) /\ (\A e \in q : x <= e[2])
  <1>1. FrontTime \in Times /\ IsFront(FrontTime, atq)
    BY FrontLeast
  <1>2. IsFront(FrontTime, atq')
    BY <1>1, WorkersAssumption DEF Times
  <1>3. \A x \in Times : IsFront(x, atq') => x = FrontTime
    BY <1>1, WorkersAssumption DEF Times
  <1>4. FrontTime' = CHOOSE x \in Times : IsFront(x, atq')
    BY DEF FrontTime
  <1> HIDE DEF IsFront
  <1> QED
    BY <1>1, <1>2, <1>3, <1>4

\* Nobody falls asleep, and no client leaves its broadcast behind.
LEMMA ShutdownKept ==
    ASSUME ShutdownNotLost, victim' = victim, do_shutdown' = do_shutdown,
           \A v \in Workers : pc'[v] = "sleep" => pc[v] = "sleep",
           \A c \in Clients : pc[c] \in {"dload", "dbcast"} => pc'[c] = pc[c]
    PROVE  ShutdownNotLost'
  BY DEF ShutdownNotLost, Asleep

\* Someone asleep is left asleep only with someone awake, or with what it had.
LEMMA TimedKept ==
    ASSUME TimedJobCovered, atq' = atq, deadline' = deadline,
           \A v \in Workers : pc'[v] = pc[v]
    PROVE  TimedJobCovered'
  BY FrontKept DEF TimedJobCovered, Asleep, Awake

LEMMA AwakeCovers ==
    ASSUME NEW v \in Workers, pc'[v] \notin {"none", "dead", "sleep"}
    PROVE  TimedJobCovered'
  BY DEF TimedJobCovered, Awake

LEMMA StrandedKept ==
    ASSUME NoStrandedJobUnlessYielding, nowlist' = nowlist, schedulers' = schedulers,
           \A v \in Workers : pc'[v] = pc[v]
    PROVE  NoStrandedJobUnlessYielding'
  BY DEF NoStrandedJobUnlessYielding, NoStrandedJob, Asleep, Awake, WillLook

LEMMA LookerServes ==
    ASSUME NEW v \in Workers,
           pc'[v] \notin {"none", "dead", "sleep", "prewait", "count", "check", "wait"} \cup YieldPCs
    PROVE  NoStrandedJobUnlessYielding'
  BY DEF NoStrandedJobUnlessYielding, NoStrandedJob, Awake, WillLook

LEMMA AppendAssoc ==
    ASSUME NEW s \in Seq(Jobs), NEW q \in Seq(Jobs), NEW j \in Jobs
    PROVE  Append(s \o q, j) = s \o Append(q, j)
  OBVIOUS

LEMMA HeadMoves ==
    ASSUME NEW s \in Seq(Jobs), NEW q \in Seq(Jobs), q # << >>
    PROVE  Append(s, Head(q)) \o Tail(q) = s \o q
  OBVIOUS

LEMMA WorkerLockKeeps ==
    ASSUME IInv, NEW w \in Workers, WorkerLock(w) PROVE IInv'
  <1> USE WorkersAssumption DEF WorkerLock, Acquire, Release, Holding, Goto, OnlyMutex, OnlyPc, Section, pool_vars, queue_vars, wait_vars, work_vars, IInv, TypeOK, Threads
  <1>1. TypeOK' BY DEF Times, Never, WorkerPCs, YieldPCs, ClientPCs
  <1>2. PlaceOK' BY DEF PlaceOK, WorkerPCs, YieldPCs, ClientPCs
  <1>3. MutexHeld' BY DEF MutexHeld, Locked
  <1>4. VictimOK' BY DEF PlaceOK, WorkerPCs, ClientPCs, YieldPCs, VictimOK
  <1>5. YieldOK' BY DEF YieldOK, PlaceOK, WorkerPCs, YieldPCs
  <1>6. CountExact' BY CountKept DEF Counted
  <1>7. PendingSeen' BY DEF PendingSeen, MutexHeld, Locked
  <1>8. NotShutDown' BY DEF NotShutDown, MutexHeld, Locked
  <1>9. ShutdownNotLost' BY DEF ShutdownNotLost, Asleep, NotShutDown
  <1>10. NoJobSeen' BY DEF NoJobSeen, YieldOK, MutexHeld, Locked
  <1>11. NoStrandedJobUnlessYielding'
    BY DEF NoStrandedJobUnlessYielding, NoStrandedJob, Asleep, Awake, WillLook, YieldPCs, NoJobSeen
  <1>12. JobsInOrder' BY DEF JobsInOrder
  <1>13. TimedJobCovered' BY FrontKept DEF TimedJobCovered, Asleep, Awake
  <1>14. NowPast' BY DEF NowPast, Times
  <1> QED
    BY <1>1, <1>2, <1>3, <1>4, <1>5, <1>6, <1>7, <1>8, <1>9, <1>10, <1>11, <1>12, <1>13, <1>14

LEMMA TopShutdownKeeps ==
    ASSUME IInv, NEW w \in Workers, TopShutdown(w) PROVE IInv'
  <1> USE WorkersAssumption DEF TopShutdown, Acquire, Release, Holding, Goto, OnlyMutex, OnlyPc, Section, pool_vars, queue_vars, wait_vars, work_vars, IInv, TypeOK, Threads
  <1>1. TypeOK' BY DEF Times, Never, WorkerPCs, YieldPCs, ClientPCs
  <1>2. PlaceOK' BY DEF PlaceOK, WorkerPCs, YieldPCs, ClientPCs
  <1>3. MutexHeld' BY DEF MutexHeld, Locked
  <1>4. VictimOK' BY DEF PlaceOK, WorkerPCs, ClientPCs, YieldPCs, VictimOK
  <1>5. YieldOK' BY DEF YieldOK, PlaceOK, WorkerPCs, YieldPCs
  <1>6. CountExact' BY CountKept DEF Counted
  <1>7. PendingSeen' BY DEF PendingSeen, MutexHeld, Locked
  <1>8. NotShutDown' BY DEF NotShutDown, MutexHeld, Locked
  <1>9. ShutdownNotLost' BY DEF ShutdownNotLost, Asleep, NotShutDown
  <1>10. NoJobSeen' BY DEF NoJobSeen, YieldOK, MutexHeld, Locked
  <1>11. NoStrandedJobUnlessYielding'
    BY DEF NoStrandedJobUnlessYielding, NoStrandedJob, Asleep, Awake, WillLook, YieldPCs, NoJobSeen
  <1>12. JobsInOrder' BY DEF JobsInOrder
  <1>13. TimedJobCovered' BY FrontKept DEF TimedJobCovered, Asleep, Awake
  <1>14. NowPast' BY DEF NowPast, Times
  <1> QED
    BY <1>1, <1>2, <1>3, <1>4, <1>5, <1>6, <1>7, <1>8, <1>9, <1>10, <1>11, <1>12, <1>13, <1>14

LEMMA TopJobKeeps ==
    ASSUME IInv, NEW w \in Workers, TopJob(w) PROVE IInv'
  <1> USE WorkersAssumption DEF TopJob, Acquire, Release, Holding, Goto, OnlyMutex, OnlyPc, Section, pool_vars, queue_vars, wait_vars, work_vars, IInv, TypeOK, Threads
  <1>1. TypeOK'
    <2>1. pc' \in [Threads -> WorkerPCs \cup YieldPCs \cup ClientPCs]
      BY DEF WorkerPCs, YieldPCs, ClientPCs
    <2>2. nowlist' \in Seq(Jobs)
      BY HeadTailProperties
    <2>3. started' \in Seq(Jobs)
      <3>1. Head(nowlist) \in Jobs
        BY HeadTailProperties
      <3> QED
        BY <3>1, AppendProperties
    <2> QED
      BY <2>1, <2>2, <2>3
  <1>2. PlaceOK' BY DEF PlaceOK, WorkerPCs, YieldPCs, ClientPCs
  <1>3. MutexHeld' BY DEF MutexHeld, Locked
  <1>4. VictimOK' BY DEF PlaceOK, WorkerPCs, ClientPCs, YieldPCs, VictimOK
  <1>5. YieldOK' BY DEF YieldOK, PlaceOK, WorkerPCs, YieldPCs
  <1>6. CountExact' BY CountKept DEF Counted
  <1>7. PendingSeen' BY DEF PendingSeen, MutexHeld, Locked
  <1>8. NotShutDown' BY DEF NotShutDown, MutexHeld, Locked
  <1>9. ShutdownNotLost' BY DEF ShutdownNotLost, Asleep, NotShutDown
  <1>10. NoJobSeen' BY DEF NoJobSeen, YieldOK, MutexHeld, Locked
  <1>11. NoStrandedJobUnlessYielding'
    BY DEF NoStrandedJobUnlessYielding, NoStrandedJob, Asleep, Awake, WillLook, YieldPCs, NoJobSeen
  <1>12. JobsInOrder'
    <2>1. called' = started \o nowlist /\ started' = Append(started, Head(nowlist))
      BY DEF JobsInOrder
    <2>2. nowlist' = Tail(nowlist)
      OBVIOUS
    <2>3. Append(started, Head(nowlist)) \o Tail(nowlist) = started \o nowlist
      BY HeadMoves
    <2> QED
      BY ONLY <2>1, <2>2, <2>3 DEF JobsInOrder
  <1>13. TimedJobCovered' BY FrontKept DEF TimedJobCovered, Asleep, Awake
  <1>14. NowPast' BY DEF NowPast, Times
  <1> QED
    BY <1>1, <1>2, <1>3, <1>4, <1>5, <1>6, <1>7, <1>8, <1>9, <1>10, <1>11, <1>12, <1>13, <1>14

LEMMA TopIdleKeeps ==
    ASSUME IInv, NEW w \in Workers, TopIdle(w) PROVE IInv'
  <1> USE WorkersAssumption DEF TopIdle, Acquire, Release, Holding, Goto, OnlyMutex, OnlyPc, Section, pool_vars, queue_vars, wait_vars, work_vars, IInv, TypeOK, Threads
  <1>a. \/ pc' = [pc EXCEPT ![w] = "yield"] /\ itr' = [itr EXCEPT ![w] = 1]
        \/ pc' = [pc EXCEPT ![w] = "prewait"] /\ itr' = itr
    OBVIOUS
  <1>b. \A u \in Threads : itr'[u] = itr[u] \/ itr'[u] = 1
    BY <1>a
  <1>1. TypeOK'
    <2>1. pc' \in [Threads -> WorkerPCs \cup YieldPCs \cup ClientPCs]
      BY ZenonT(30), <1>a DEF WorkerPCs, YieldPCs, ClientPCs
    <2>2. itr' = itr => itr' \in [Threads -> Nat]
      OBVIOUS
    <2>3. itr' = [itr EXCEPT ![w] = 1] => itr' \in [Threads -> Nat]
      OBVIOUS
    <2> QED
      BY <2>1, <2>2, <2>3
  <1>2. PlaceOK' BY <1>a DEF PlaceOK, WorkerPCs, YieldPCs, ClientPCs
  <1>3. MutexHeld' BY <1>a DEF MutexHeld, Locked
  <1>4. VictimOK' BY <1>a DEF PlaceOK, WorkerPCs, ClientPCs, YieldPCs, VictimOK
  <1>5. YieldOK'
    <2>1. CASE pending # 0
      BY <2>1 DEF YieldOK, YieldPCs
    <2>2. CASE pending = 0
      BY <2>2 DEF YieldOK, YieldPCs
    <2> QED
      BY <2>1, <2>2
  <1>6. CountExact' BY CountKept, <1>a DEF Counted
  <1>7. PendingSeen' BY <1>a DEF PendingSeen, MutexHeld, Locked
  <1>8. NotShutDown' BY <1>a DEF NotShutDown, MutexHeld, Locked
  <1>9. ShutdownNotLost'
    <2>1. \A v \in Workers : pc'[v] = "sleep" => pc[v] = "sleep"
      BY <1>a
    <2>2. \A d \in Clients : pc[d] \in {"dload", "dbcast"} => pc'[d] = pc[d]
      BY <1>a
    <2> QED
      BY <2>1, <2>2, ShutdownKept
  <1>10. NoJobSeen' BY <1>a DEF NoJobSeen, YieldOK, MutexHeld, Locked
  <1>11. NoStrandedJobUnlessYielding'
    BY <1>a DEF NoStrandedJobUnlessYielding, NoStrandedJob, Asleep, Awake, WillLook, YieldPCs, NoJobSeen
  <1>12. JobsInOrder' BY <1>a DEF JobsInOrder
  <1>13. TimedJobCovered' BY FrontKept, <1>a DEF TimedJobCovered, Asleep, Awake
  <1>14. NowPast' BY <1>a DEF NowPast, Times
  <1> QED
    BY <1>1, <1>2, <1>3, <1>4, <1>5, <1>6, <1>7, <1>8, <1>9, <1>10, <1>11, <1>12, <1>13, <1>14

LEMMA PreWaitKeeps ==
    ASSUME IInv, NEW w \in Workers, PreWait(w) PROVE IInv'
  <1> USE WorkersAssumption DEF PreWait, Acquire, Release, Holding, Goto, OnlyMutex, OnlyPc, Section, pool_vars, queue_vars, wait_vars, work_vars, IInv, TypeOK, Threads
  <1>1. TypeOK' BY DEF Times, Never, WorkerPCs, YieldPCs, ClientPCs
  <1>2. PlaceOK' BY DEF PlaceOK, WorkerPCs, YieldPCs, ClientPCs
  <1>3. MutexHeld' BY DEF MutexHeld, Locked
  <1>4. VictimOK' BY DEF PlaceOK, WorkerPCs, ClientPCs, YieldPCs, VictimOK
  <1>5. YieldOK' BY DEF YieldOK, PlaceOK, WorkerPCs, YieldPCs
  <1>6. CountExact' BY CountKept DEF Counted
  <1>7. PendingSeen' BY DEF PendingSeen, MutexHeld, Locked
  <1>8. NotShutDown' BY DEF NotShutDown, MutexHeld, Locked
  <1>9. ShutdownNotLost' BY DEF ShutdownNotLost, Asleep, NotShutDown
  <1>10. NoJobSeen' BY DEF NoJobSeen, YieldOK, MutexHeld, Locked
  <1>11. NoStrandedJobUnlessYielding'
    BY DEF NoStrandedJobUnlessYielding, NoStrandedJob, Asleep, Awake, WillLook, YieldPCs, NoJobSeen
  <1>12. JobsInOrder' BY DEF JobsInOrder
  <1>13. TimedJobCovered' BY FrontKept DEF TimedJobCovered, Asleep, Awake
  <1>14. NowPast' BY DEF NowPast, Times
  <1> QED
    BY <1>1, <1>2, <1>3, <1>4, <1>5, <1>6, <1>7, <1>8, <1>9, <1>10, <1>11, <1>12, <1>13, <1>14

LEMMA CountKeeps ==
    ASSUME IInv, NEW w \in Workers, Count(w) PROVE IInv'
  <1> USE WorkersAssumption DEF Count, Acquire, Release, Holding, Goto, OnlyMutex, OnlyPc, Section, pool_vars, queue_vars, wait_vars, work_vars, IInv, TypeOK, Threads
  <1>1. TypeOK' BY SMTT(30) DEF Times, Never, WorkerPCs, YieldPCs, ClientPCs
  <1>2. PlaceOK' BY DEF PlaceOK, WorkerPCs, YieldPCs, ClientPCs
  <1>3. MutexHeld' BY DEF MutexHeld, Locked
  <1>4. VictimOK' BY DEF PlaceOK, WorkerPCs, ClientPCs, YieldPCs, VictimOK
  <1>5. YieldOK' BY DEF YieldOK, PlaceOK, WorkerPCs, YieldPCs
  <1>6. CountExact'
    <2>1. w \notin Waiting /\ IsFiniteSet(Waiting)
      BY WorkersFinite, FS_Subset DEF Waiting, Counted
    <2>2. Waiting' = Waiting \cup {w}
      BY DEF Waiting, Counted
    <2>3. Cardinality(Waiting') = Cardinality(Waiting) + 1
      BY <2>1, <2>2, FS_AddElement
    <2> QED
      BY <2>3 DEF CountExact
  <1>7. PendingSeen' BY DEF PendingSeen, MutexHeld, Locked
  <1>8. NotShutDown' BY DEF NotShutDown, MutexHeld, Locked
  <1>9. ShutdownNotLost' BY DEF ShutdownNotLost, Asleep, NotShutDown
  <1>10. NoJobSeen' BY DEF NoJobSeen, YieldOK, MutexHeld, Locked
  <1>11. NoStrandedJobUnlessYielding'
    BY DEF NoStrandedJobUnlessYielding, NoStrandedJob, Asleep, Awake, WillLook, YieldPCs, NoJobSeen
  <1>12. JobsInOrder' BY DEF JobsInOrder
  <1>13. TimedJobCovered' BY FrontKept DEF TimedJobCovered, Asleep, Awake
  <1>14. NowPast' BY DEF NowPast, Times
  <1> QED
    BY <1>1, <1>2, <1>3, <1>4, <1>5, <1>6, <1>7, <1>8, <1>9, <1>10, <1>11, <1>12, <1>13, <1>14

LEMMA CheckPendingKeeps ==
    ASSUME IInv, NEW w \in Workers, CheckPending(w) PROVE IInv'
  <1> USE WorkersAssumption DEF CheckPending, Acquire, Release, Holding, Goto, OnlyMutex, OnlyPc, Section, pool_vars, queue_vars, wait_vars, work_vars, IInv, TypeOK, Threads
  <1>1. TypeOK' BY DEF Times, Never, WorkerPCs, YieldPCs, ClientPCs
  <1>2. PlaceOK' BY DEF PlaceOK, WorkerPCs, YieldPCs, ClientPCs
  <1>3. MutexHeld' BY DEF MutexHeld, Locked
  <1>4. VictimOK' BY DEF PlaceOK, WorkerPCs, ClientPCs, YieldPCs, VictimOK
  <1>5. YieldOK' BY DEF YieldOK, PlaceOK, WorkerPCs, YieldPCs
  <1>6. CountExact' BY CountKept DEF Counted
  <1>7. PendingSeen' BY DEF PendingSeen, MutexHeld, Locked
  <1>8. NotShutDown' BY DEF NotShutDown, MutexHeld, Locked
  <1>9. ShutdownNotLost' BY DEF ShutdownNotLost, Asleep, NotShutDown
  <1>10. NoJobSeen' BY DEF NoJobSeen, YieldOK, MutexHeld, Locked
  <1>11. NoStrandedJobUnlessYielding'
    BY DEF NoStrandedJobUnlessYielding, NoStrandedJob, Asleep, Awake, WillLook, YieldPCs, NoJobSeen
  <1>12. JobsInOrder' BY DEF JobsInOrder
  <1>13. TimedJobCovered' BY FrontKept DEF TimedJobCovered, Asleep, Awake
  <1>14. NowPast' BY DEF NowPast, Times
  <1> QED
    BY <1>1, <1>2, <1>3, <1>4, <1>5, <1>6, <1>7, <1>8, <1>9, <1>10, <1>11, <1>12, <1>13, <1>14

LEMMA SleepKeeps ==
    ASSUME IInv, NEW w \in Workers, Sleep(w) PROVE IInv'
  <1> USE WorkersAssumption DEF Sleep, Acquire, Release, Holding, Goto, OnlyMutex, OnlyPc, Section, pool_vars, queue_vars, wait_vars, work_vars, IInv, TypeOK, Threads
  <1>1. TypeOK'
    <2>1. pc' \in [Threads -> WorkerPCs \cup YieldPCs \cup ClientPCs]
      BY DEF WorkerPCs, YieldPCs, ClientPCs
    <2>2. deadline' \in [Workers -> Times \cup {Never}]
      <3>1. (IF atq = {} THEN Never ELSE FrontTime) \in Times \cup {Never}
        BY FrontLeast
      <3> QED
        BY <3>1
    <2> QED
      BY <2>1, <2>2
  <1>2. PlaceOK' BY DEF PlaceOK, WorkerPCs, YieldPCs, ClientPCs
  <1>3. MutexHeld' BY DEF MutexHeld, Locked
  <1>4. VictimOK' BY DEF PlaceOK, WorkerPCs, ClientPCs, YieldPCs, VictimOK
  <1>5. YieldOK' BY DEF YieldOK, PlaceOK, WorkerPCs, YieldPCs
  <1>6. CountExact' BY CountKept DEF Counted
  <1>7. PendingSeen' BY DEF PendingSeen, MutexHeld, Locked
  <1>8. NotShutDown' BY DEF NotShutDown, MutexHeld, Locked
  <1>9. ShutdownNotLost' BY DEF ShutdownNotLost, Asleep, NotShutDown
  <1>10. NoJobSeen' BY DEF NoJobSeen, YieldOK, MutexHeld, Locked
  <1>11. NoStrandedJobUnlessYielding'
    BY DEF NoStrandedJobUnlessYielding, NoStrandedJob, Asleep, Awake, WillLook, YieldPCs, NoJobSeen
  <1>12. JobsInOrder' BY DEF JobsInOrder
  <1>13. TimedJobCovered'
    <2>1. CASE atq = {}
      BY <2>1 DEF TimedJobCovered
    <2>2. CASE atq # {}
      <3>1. FrontTime' = FrontTime /\ FrontTime \in Nat
        BY <2>2, FrontKept, FrontLeast DEF Times
      <3>2. w \in Asleep' /\ deadline'[w] = FrontTime
        BY <2>2 DEF Asleep
      <3> QED
        BY <3>1, <3>2 DEF TimedJobCovered
    <2> QED
      BY <2>1, <2>2
  <1>14. NowPast' BY DEF NowPast, Times
  <1> QED
    BY <1>1, <1>2, <1>3, <1>4, <1>5, <1>6, <1>7, <1>8, <1>9, <1>10, <1>11, <1>12, <1>13, <1>14

LEMMA WokenKeeps ==
    ASSUME IInv, NEW w \in Workers, Woken(w) PROVE IInv'
  <1> USE WorkersAssumption DEF Woken, Acquire, Release, Holding, Goto, OnlyMutex, OnlyPc, Section, pool_vars, queue_vars, wait_vars, work_vars, IInv, TypeOK, Threads
  <1>1. TypeOK' BY DEF Times, Never, WorkerPCs, YieldPCs, ClientPCs
  <1>2. PlaceOK' BY DEF PlaceOK, WorkerPCs, YieldPCs, ClientPCs
  <1>3. MutexHeld' BY DEF MutexHeld, Locked
  <1>4. VictimOK' BY DEF PlaceOK, WorkerPCs, ClientPCs, YieldPCs, VictimOK
  <1>5. YieldOK' BY DEF YieldOK, PlaceOK, WorkerPCs, YieldPCs
  <1>6. CountExact' BY CountKept DEF Counted
  <1>7. PendingSeen' BY DEF PendingSeen, MutexHeld, Locked
  <1>8. NotShutDown' BY DEF NotShutDown, MutexHeld, Locked
  <1>9. ShutdownNotLost' BY DEF ShutdownNotLost, Asleep, NotShutDown
  <1>10. NoJobSeen' BY DEF NoJobSeen, YieldOK, MutexHeld, Locked
  <1>11. NoStrandedJobUnlessYielding'
    BY DEF NoStrandedJobUnlessYielding, NoStrandedJob, Asleep, Awake, WillLook, YieldPCs, NoJobSeen
  <1>12. JobsInOrder' BY DEF JobsInOrder
  <1>13. TimedJobCovered' BY FrontKept DEF TimedJobCovered, Asleep, Awake
  <1>14. NowPast' BY DEF NowPast, Times
  <1> QED
    BY <1>1, <1>2, <1>3, <1>4, <1>5, <1>6, <1>7, <1>8, <1>9, <1>10, <1>11, <1>12, <1>13, <1>14

LEMMA TimeOutKeeps ==
    ASSUME IInv, NEW w \in Workers, TimeOut(w) PROVE IInv'
  <1> USE WorkersAssumption DEF TimeOut, Acquire, Release, Holding, Goto, OnlyMutex, OnlyPc, Section, pool_vars, queue_vars, wait_vars, work_vars, IInv, TypeOK, Threads
  <1>1. TypeOK' BY DEF Times, Never, WorkerPCs, YieldPCs, ClientPCs
  <1>2. PlaceOK' BY DEF PlaceOK, WorkerPCs, YieldPCs, ClientPCs
  <1>3. MutexHeld' BY DEF MutexHeld, Locked
  <1>4. VictimOK' BY DEF PlaceOK, WorkerPCs, ClientPCs, YieldPCs, VictimOK
  <1>5. YieldOK' BY DEF YieldOK, PlaceOK, WorkerPCs, YieldPCs
  <1>6. CountExact' BY CountKept DEF Counted
  <1>7. PendingSeen' BY DEF PendingSeen, MutexHeld, Locked
  <1>8. NotShutDown' BY DEF NotShutDown, MutexHeld, Locked
  <1>9. ShutdownNotLost' BY DEF ShutdownNotLost, Asleep, NotShutDown
  <1>10. NoJobSeen' BY DEF NoJobSeen, YieldOK, MutexHeld, Locked
  <1>11. NoStrandedJobUnlessYielding'
    BY DEF NoStrandedJobUnlessYielding, NoStrandedJob, Asleep, Awake, WillLook, YieldPCs, NoJobSeen
  <1>12. JobsInOrder' BY DEF JobsInOrder
  <1>13. TimedJobCovered' BY FrontKept DEF TimedJobCovered, Asleep, Awake
  <1>14. NowPast' BY DEF NowPast, Times
  <1> QED
    BY <1>1, <1>2, <1>3, <1>4, <1>5, <1>6, <1>7, <1>8, <1>9, <1>10, <1>11, <1>12, <1>13, <1>14

LEMMA TimedOutKeeps ==
    ASSUME IInv, NEW w \in Workers, TimedOut(w) PROVE IInv'
  <1> USE WorkersAssumption DEF TimedOut, Acquire, Release, Holding, Goto, OnlyMutex, OnlyPc, Section, pool_vars, queue_vars, wait_vars, work_vars, IInv, TypeOK, Threads
  <1>a. \/ pc' = [pc EXCEPT ![w] = "uncount"] /\ now' = now
        \/ pc' = [pc EXCEPT ![w] = "atrun"] /\ now' = [now EXCEPT ![w] = clock]
    OBVIOUS
  <1>1. TypeOK'
    <2>1. pc' \in [Threads -> WorkerPCs \cup YieldPCs \cup ClientPCs]
      BY ZenonT(30), <1>a DEF WorkerPCs, YieldPCs, ClientPCs
    <2>2. now' \in [Workers -> Times]
      BY <1>a
    <2>3. deadline' \in [Workers -> Times \cup {Never}]
      OBVIOUS
    <2> QED
      BY <2>1, <2>2, <2>3
  <1>2. PlaceOK' BY <1>a DEF PlaceOK, WorkerPCs, YieldPCs, ClientPCs
  <1>3. MutexHeld' BY <1>a DEF MutexHeld, Locked
  <1>4. VictimOK' BY <1>a DEF PlaceOK, WorkerPCs, ClientPCs, YieldPCs, VictimOK
  <1>5. YieldOK' BY <1>a DEF YieldOK, PlaceOK, WorkerPCs, YieldPCs
  <1>6. CountExact' BY CountKept, <1>a DEF Counted
  <1>7. PendingSeen' BY <1>a DEF PendingSeen, MutexHeld, Locked
  <1>8. NotShutDown' BY <1>a DEF NotShutDown, MutexHeld, Locked
  <1>9. ShutdownNotLost'
    <2>1. \A v \in Workers : pc'[v] = "sleep" => pc[v] = "sleep"
      BY <1>a
    <2>2. \A d \in Clients : pc[d] \in {"dload", "dbcast"} => pc'[d] = pc[d]
      BY <1>a
    <2> QED
      BY <2>1, <2>2, ShutdownKept
  <1>10. NoJobSeen' BY <1>a DEF NoJobSeen, YieldOK, MutexHeld, Locked
  <1>11. NoStrandedJobUnlessYielding'
    BY <1>a DEF NoStrandedJobUnlessYielding, NoStrandedJob, Asleep, Awake, WillLook, YieldPCs, NoJobSeen
  <1>12. JobsInOrder' BY <1>a DEF JobsInOrder
  <1>13. TimedJobCovered' BY FrontKept, <1>a DEF TimedJobCovered, Asleep, Awake
  <1>14. NowPast'
    <2>1. clock \in Nat /\ clock <= clock
      BY DEF Times
    <2> QED
      BY <1>a, <2>1 DEF NowPast
  <1> QED
    BY <1>1, <1>2, <1>3, <1>4, <1>5, <1>6, <1>7, <1>8, <1>9, <1>10, <1>11, <1>12, <1>13, <1>14

LEMMA AtRunJobKeeps ==
    ASSUME IInv, NEW w \in Workers, AtRunJob(w) PROVE IInv'
  <1> USE WorkersAssumption DEF AtRunJob, Fronts, Acquire, Release, Holding, Goto, OnlyMutex, OnlyPc, Section, pool_vars, queue_vars, wait_vars, work_vars, IInv, TypeOK, Threads
  <1>a. \/ pc' = [pc EXCEPT ![w] = "atjob"]
        \/ \E v \in Workers \ {w} : /\ pc[v] = "sleep"
                                   /\ pc' = [pc EXCEPT ![w] = "atjob", ![v] = "woken"]
    BY ZenonT(30), SignalWakes
  <1>1. TypeOK' BY ZenonT(30), <1>a DEF Times, Never, WorkerPCs, YieldPCs, ClientPCs
  <1>2. PlaceOK' BY <1>a DEF PlaceOK, WorkerPCs, YieldPCs, ClientPCs
  <1>3. MutexHeld' BY ZenonT(30), <1>a DEF MutexHeld, Locked
  <1>4. VictimOK' BY <1>a DEF PlaceOK, WorkerPCs, ClientPCs, YieldPCs, VictimOK
  <1>5. YieldOK' BY <1>a DEF YieldOK, PlaceOK, WorkerPCs, YieldPCs
  <1>6. CountExact' BY CountKept, <1>a DEF Counted
  <1>7. PendingSeen' BY <1>a DEF PendingSeen, MutexHeld, Locked
  <1>8. NotShutDown' BY <1>a DEF NotShutDown, MutexHeld, Locked
  <1>9. ShutdownNotLost'
    <2>1. \A v \in Workers : pc'[v] = "sleep" => pc[v] = "sleep"
      BY <1>a
    <2>2. \A d \in Clients : pc[d] \in {"dload", "dbcast"} => pc'[d] = pc[d]
      BY <1>a
    <2> QED
      BY <2>1, <2>2, ShutdownKept
  <1>10. NoJobSeen' BY <1>a DEF NoJobSeen, YieldOK, MutexHeld, Locked
  <1>11. NoStrandedJobUnlessYielding'
    BY ZenonT(30), <1>a DEF NoStrandedJobUnlessYielding, NoStrandedJob, Asleep, Awake, WillLook, YieldPCs, NoJobSeen
  <1>12. JobsInOrder' BY <1>a DEF JobsInOrder
  <1>13. TimedJobCovered' BY FrontKept, <1>a DEF TimedJobCovered, Asleep, Awake
  <1>14. NowPast' BY <1>a DEF NowPast, Times
  <1> QED
    BY <1>1, <1>2, <1>3, <1>4, <1>5, <1>6, <1>7, <1>8, <1>9, <1>10, <1>11, <1>12, <1>13, <1>14

LEMMA AtLockKeeps ==
    ASSUME IInv, NEW w \in Workers, AtLock(w) PROVE IInv'
  <1> USE WorkersAssumption DEF AtLock, Acquire, Release, Holding, Goto, OnlyMutex, OnlyPc, Section, pool_vars, queue_vars, wait_vars, work_vars, IInv, TypeOK, Threads
  <1>1. TypeOK' BY DEF Times, Never, WorkerPCs, YieldPCs, ClientPCs
  <1>2. PlaceOK' BY DEF PlaceOK, WorkerPCs, YieldPCs, ClientPCs
  <1>3. MutexHeld' BY DEF MutexHeld, Locked
  <1>4. VictimOK' BY DEF PlaceOK, WorkerPCs, ClientPCs, YieldPCs, VictimOK
  <1>5. YieldOK' BY DEF YieldOK, PlaceOK, WorkerPCs, YieldPCs
  <1>6. CountExact' BY CountKept DEF Counted
  <1>7. PendingSeen' BY DEF PendingSeen, MutexHeld, Locked
  <1>8. NotShutDown' BY DEF NotShutDown, MutexHeld, Locked
  <1>9. ShutdownNotLost' BY DEF ShutdownNotLost, Asleep, NotShutDown
  <1>10. NoJobSeen' BY DEF NoJobSeen, YieldOK, MutexHeld, Locked
  <1>11. NoStrandedJobUnlessYielding'
    BY DEF NoStrandedJobUnlessYielding, NoStrandedJob, Asleep, Awake, WillLook, YieldPCs, NoJobSeen
  <1>12. JobsInOrder' BY DEF JobsInOrder
  <1>13. TimedJobCovered' BY FrontKept DEF TimedJobCovered, Asleep, Awake
  <1>14. NowPast' BY DEF NowPast, Times
  <1> QED
    BY <1>1, <1>2, <1>3, <1>4, <1>5, <1>6, <1>7, <1>8, <1>9, <1>10, <1>11, <1>12, <1>13, <1>14

LEMMA AtRunDoneKeeps ==
    ASSUME IInv, NEW w \in Workers, AtRunDone(w) PROVE IInv'
  <1> USE WorkersAssumption DEF AtRunDone, Acquire, Release, Holding, Goto, OnlyMutex, OnlyPc, Section, pool_vars, queue_vars, wait_vars, work_vars, IInv, TypeOK, Threads
  <1>1. TypeOK' BY DEF Times, Never, WorkerPCs, YieldPCs, ClientPCs
  <1>2. PlaceOK' BY DEF PlaceOK, WorkerPCs, YieldPCs, ClientPCs
  <1>3. MutexHeld' BY DEF MutexHeld, Locked
  <1>4. VictimOK' BY DEF PlaceOK, WorkerPCs, ClientPCs, YieldPCs, VictimOK
  <1>5. YieldOK' BY DEF YieldOK, PlaceOK, WorkerPCs, YieldPCs
  <1>6. CountExact' BY CountKept DEF Counted
  <1>7. PendingSeen' BY DEF PendingSeen, MutexHeld, Locked
  <1>8. NotShutDown' BY DEF NotShutDown, MutexHeld, Locked
  <1>9. ShutdownNotLost' BY DEF ShutdownNotLost, Asleep, NotShutDown
  <1>10. NoJobSeen' BY DEF NoJobSeen, YieldOK, MutexHeld, Locked
  <1>11. NoStrandedJobUnlessYielding'
    BY DEF NoStrandedJobUnlessYielding, NoStrandedJob, Asleep, Awake, WillLook, YieldPCs, NoJobSeen
  <1>12. JobsInOrder' BY DEF JobsInOrder
  <1>13. TimedJobCovered' BY FrontKept DEF TimedJobCovered, Asleep, Awake
  <1>14. NowPast'
    <2>1. clock \in Nat /\ 0 <= clock
      BY DEF Times
    <2> QED
      BY <2>1 DEF NowPast
  <1> QED
    BY <1>1, <1>2, <1>3, <1>4, <1>5, <1>6, <1>7, <1>8, <1>9, <1>10, <1>11, <1>12, <1>13, <1>14

LEMMA UncountKeeps ==
    ASSUME IInv, NEW w \in Workers, Uncount(w) PROVE IInv'
  <1> USE WorkersAssumption DEF Uncount, Acquire, Release, Holding, Goto, OnlyMutex, OnlyPc, Section, pool_vars, queue_vars, wait_vars, work_vars, IInv, TypeOK, Threads
  <1>a. waiting_count # 0
    <2>1. w \in Waiting /\ IsFiniteSet(Waiting)
      BY WorkersFinite, FS_Subset DEF Waiting, Counted
    <2> QED
      BY <2>1, FS_EmptySet DEF CountExact
  <1>1. TypeOK'
    <2>1. pc' \in [Threads -> WorkerPCs \cup YieldPCs \cup ClientPCs]
      BY DEF WorkerPCs, YieldPCs, ClientPCs
    <2>2. waiting_count' \in Nat
      BY <1>a
    <2> QED
      BY <2>1, <2>2
  <1>2. PlaceOK' BY DEF PlaceOK, WorkerPCs, YieldPCs, ClientPCs
  <1>3. MutexHeld' BY DEF MutexHeld, Locked
  <1>4. VictimOK' BY DEF PlaceOK, WorkerPCs, ClientPCs, YieldPCs, VictimOK
  <1>5. YieldOK' BY DEF YieldOK, PlaceOK, WorkerPCs, YieldPCs
  <1>6. CountExact'
    <2>1. w \in Waiting /\ IsFiniteSet(Waiting)
      BY WorkersFinite, FS_Subset DEF Waiting, Counted
    <2>2. Waiting' = Waiting \ {w}
      BY DEF Waiting, Counted
    <2>3. Cardinality(Waiting') = Cardinality(Waiting) - 1
      BY <2>1, <2>2, FS_RemoveElement
    <2> QED
      BY <2>3 DEF CountExact
  <1>7. PendingSeen' BY DEF PendingSeen, MutexHeld, Locked
  <1>8. NotShutDown' BY DEF NotShutDown, MutexHeld, Locked
  <1>9. ShutdownNotLost' BY DEF ShutdownNotLost, Asleep, NotShutDown
  <1>10. NoJobSeen' BY DEF NoJobSeen, YieldOK, MutexHeld, Locked
  <1>11. NoStrandedJobUnlessYielding'
    BY DEF NoStrandedJobUnlessYielding, NoStrandedJob, Asleep, Awake, WillLook, YieldPCs, NoJobSeen
  <1>12. JobsInOrder' BY DEF JobsInOrder
  <1>13. TimedJobCovered' BY FrontKept DEF TimedJobCovered, Asleep, Awake
  <1>14. NowPast' BY DEF NowPast, Times
  <1> QED
    BY <1>1, <1>2, <1>3, <1>4, <1>5, <1>6, <1>7, <1>8, <1>9, <1>10, <1>11, <1>12, <1>13, <1>14

LEMMA ExitKeeps ==
    ASSUME IInv, NEW w \in Workers, Exit(w) PROVE IInv'
  <1> USE WorkersAssumption DEF Exit, Acquire, Release, Holding, Goto, OnlyMutex, OnlyPc, Section, pool_vars, queue_vars, wait_vars, work_vars, IInv, TypeOK, Threads
  <1>a. \/ pc' = [pc EXCEPT ![w] = "dead"] /\ \A v \in Workers \ {w} : pc[v] # "sleep"
        \/ \E v \in Workers \ {w} : /\ pc[v] = "sleep"
                                   /\ pc' = [pc EXCEPT ![w] = "dead", ![v] = "woken"]
    BY SignalWakes
  <1>1. TypeOK' BY <1>a DEF Times, Never, WorkerPCs, YieldPCs, ClientPCs
  <1>2. PlaceOK' BY <1>a DEF PlaceOK, WorkerPCs, YieldPCs, ClientPCs
  <1>3. MutexHeld' BY ZenonT(30), <1>a DEF MutexHeld, Locked
  <1>4. VictimOK' BY <1>a DEF PlaceOK, WorkerPCs, ClientPCs, YieldPCs, VictimOK
  <1>5. YieldOK' BY <1>a DEF YieldOK, PlaceOK, WorkerPCs, YieldPCs
  <1>6. CountExact' BY CountKept, <1>a DEF Counted
  <1>7. PendingSeen' BY <1>a DEF PendingSeen, MutexHeld, Locked
  <1>8. NotShutDown' BY <1>a DEF NotShutDown, MutexHeld, Locked
  <1>9. ShutdownNotLost'
    <2>1. \A v \in Workers : pc'[v] = "sleep" => pc[v] = "sleep"
      BY <1>a
    <2>2. \A d \in Clients : pc[d] \in {"dload", "dbcast"} => pc'[d] = pc[d]
      BY <1>a
    <2> QED
      BY <2>1, <2>2, ShutdownKept
  <1>10. NoJobSeen' BY <1>a DEF NoJobSeen, YieldOK, MutexHeld, Locked
  <1>11. NoStrandedJobUnlessYielding'
    <2>1. CASE \A v \in Workers \ {w} : pc[v] # "sleep"
      BY <1>a, <2>1 DEF NoStrandedJobUnlessYielding, NoStrandedJob, Asleep
    <2>2. CASE \E v \in Workers \ {w} : pc'[v] = "woken"
      BY <2>2, LookerServes DEF YieldPCs
    <2> QED
      BY <1>a, <2>1, <2>2
  <1>12. JobsInOrder' BY <1>a DEF JobsInOrder
  <1>13. TimedJobCovered'
    <2>1. CASE \A v \in Workers \ {w} : pc[v] # "sleep"
      BY <1>a, <2>1 DEF TimedJobCovered, Asleep
    <2>2. CASE \E v \in Workers \ {w} : pc'[v] = "woken"
      BY <2>2, AwakeCovers
    <2> QED
      BY <1>a, <2>1, <2>2
  <1>14. NowPast' BY <1>a DEF NowPast, Times
  <1> QED
    BY <1>1, <1>2, <1>3, <1>4, <1>5, <1>6, <1>7, <1>8, <1>9, <1>10, <1>11, <1>12, <1>13, <1>14

LEMMA SpuriousWakeupKeeps ==
    ASSUME IInv, NEW w \in Workers, SpuriousWakeup(w) PROVE IInv'
  <1> USE WorkersAssumption DEF SpuriousWakeup, Acquire, Release, Holding, Goto, OnlyMutex, OnlyPc, Section, pool_vars, queue_vars, wait_vars, work_vars, IInv, TypeOK, Threads
  <1>1. TypeOK' BY DEF Times, Never, WorkerPCs, YieldPCs, ClientPCs
  <1>2. PlaceOK' BY DEF PlaceOK, WorkerPCs, YieldPCs, ClientPCs
  <1>3. MutexHeld' BY DEF MutexHeld, Locked
  <1>4. VictimOK' BY DEF PlaceOK, WorkerPCs, ClientPCs, YieldPCs, VictimOK
  <1>5. YieldOK' BY DEF YieldOK, PlaceOK, WorkerPCs, YieldPCs
  <1>6. CountExact' BY CountKept DEF Counted
  <1>7. PendingSeen' BY DEF PendingSeen, MutexHeld, Locked
  <1>8. NotShutDown' BY DEF NotShutDown, MutexHeld, Locked
  <1>9. ShutdownNotLost' BY DEF ShutdownNotLost, Asleep, NotShutDown
  <1>10. NoJobSeen' BY DEF NoJobSeen, YieldOK, MutexHeld, Locked
  <1>11. NoStrandedJobUnlessYielding'
    BY DEF NoStrandedJobUnlessYielding, NoStrandedJob, Asleep, Awake, WillLook, YieldPCs, NoJobSeen
  <1>12. JobsInOrder' BY DEF JobsInOrder
  <1>13. TimedJobCovered' BY FrontKept DEF TimedJobCovered, Asleep, Awake
  <1>14. NowPast' BY DEF NowPast, Times
  <1> QED
    BY <1>1, <1>2, <1>3, <1>4, <1>5, <1>6, <1>7, <1>8, <1>9, <1>10, <1>11, <1>12, <1>13, <1>14

LEMMA YieldCallKeeps ==
    ASSUME IInv, NEW t \in Threads, YieldCall(t) PROVE IInv'
  <1> USE WorkersAssumption DEF YieldCall, Acquire, Release, Holding, Goto, OnlyMutex, OnlyPc, Section, pool_vars, queue_vars, wait_vars, work_vars, IInv, TypeOK, Threads
  <1>1. TypeOK' BY DEF Times, Never, WorkerPCs, YieldPCs, ClientPCs
  <1>2. PlaceOK' BY DEF PlaceOK, WorkerPCs, YieldPCs, ClientPCs
  <1>3. MutexHeld' BY DEF MutexHeld, Locked
  <1>4. VictimOK' BY DEF PlaceOK, WorkerPCs, ClientPCs, YieldPCs, VictimOK
  <1>5. YieldOK' BY DEF YieldOK, PlaceOK, WorkerPCs, YieldPCs
  <1>6. CountExact' BY CountKept DEF Counted
  <1>7. PendingSeen' BY DEF PendingSeen, MutexHeld, Locked
  <1>8. NotShutDown' BY DEF NotShutDown, MutexHeld, Locked
  <1>9. ShutdownNotLost' BY DEF ShutdownNotLost, Asleep, NotShutDown
  <1>10. NoJobSeen' BY DEF NoJobSeen, YieldOK, MutexHeld, Locked
  <1>11. NoStrandedJobUnlessYielding'
    BY DEF NoStrandedJobUnlessYielding, NoStrandedJob, Asleep, Awake, WillLook, YieldPCs, NoJobSeen
  <1>12. JobsInOrder' BY DEF JobsInOrder
  <1>13. TimedJobCovered' BY FrontKept DEF TimedJobCovered, Asleep, Awake
  <1>14. NowPast' BY DEF NowPast, Times
  <1> QED
    BY <1>1, <1>2, <1>3, <1>4, <1>5, <1>6, <1>7, <1>8, <1>9, <1>10, <1>11, <1>12, <1>13, <1>14

LEMMA RunSchedulerKeeps ==
    ASSUME IInv, NEW t \in Threads, RunScheduler(t) PROVE IInv'
  <1> USE WorkersAssumption DEF RunScheduler, Acquire, Release, Holding, Goto, OnlyMutex, OnlyPc, Section, pool_vars, queue_vars, wait_vars, work_vars, IInv, TypeOK, Threads
  <1>1. TypeOK'
    <2>1. pc' \in [Threads -> WorkerPCs \cup YieldPCs \cup ClientPCs]
      BY DEF WorkerPCs, YieldPCs, ClientPCs
    <2>2. pending' \in Nat
      OBVIOUS
    <2>3. itr' \in [Threads -> Nat]
      OBVIOUS
    <2> QED
      BY <2>1, <2>2, <2>3
  <1>2. PlaceOK' BY DEF PlaceOK, WorkerPCs, YieldPCs, ClientPCs
  <1>3. MutexHeld' BY DEF MutexHeld, Locked
  <1>4. VictimOK' BY DEF PlaceOK, WorkerPCs, ClientPCs, YieldPCs, VictimOK
  <1>5. YieldOK' BY DEF YieldOK, PlaceOK, WorkerPCs, YieldPCs
  <1>6. CountExact' BY CountKept DEF Counted
  <1>7. PendingSeen' BY DEF PendingSeen, MutexHeld, Locked
  <1>8. NotShutDown' BY DEF NotShutDown, MutexHeld, Locked
  <1>9. ShutdownNotLost' BY DEF ShutdownNotLost, Asleep, NotShutDown
  <1>10. NoJobSeen' BY DEF NoJobSeen, YieldOK, MutexHeld, Locked
  <1>11. NoStrandedJobUnlessYielding'
    BY DEF NoStrandedJobUnlessYielding, NoStrandedJob, Asleep, Awake, WillLook, YieldPCs, NoJobSeen
  <1>12. JobsInOrder' BY DEF JobsInOrder
  <1>13. TimedJobCovered' BY FrontKept DEF TimedJobCovered, Asleep, Awake
  <1>14. NowPast' BY DEF NowPast, Times
  <1> QED
    BY <1>1, <1>2, <1>3, <1>4, <1>5, <1>6, <1>7, <1>8, <1>9, <1>10, <1>11, <1>12, <1>13, <1>14

LEMMA YieldLockKeeps ==
    ASSUME IInv, NEW t \in Threads, YieldLock(t) PROVE IInv'
  <1> USE WorkersAssumption DEF YieldLock, Acquire, Release, Holding, Goto, OnlyMutex, OnlyPc, Section, pool_vars, queue_vars, wait_vars, work_vars, IInv, TypeOK, Threads
  <1>1. TypeOK' BY DEF Times, Never, WorkerPCs, YieldPCs, ClientPCs
  <1>2. PlaceOK' BY DEF PlaceOK, WorkerPCs, YieldPCs, ClientPCs
  <1>3. MutexHeld' BY DEF MutexHeld, Locked
  <1>4. VictimOK' BY DEF PlaceOK, WorkerPCs, ClientPCs, YieldPCs, VictimOK
  <1>5. YieldOK' BY DEF YieldOK, PlaceOK, WorkerPCs, YieldPCs
  <1>6. CountExact' BY CountKept DEF Counted
  <1>7. PendingSeen' BY DEF PendingSeen, MutexHeld, Locked
  <1>8. NotShutDown' BY DEF NotShutDown, MutexHeld, Locked
  <1>9. ShutdownNotLost' BY DEF ShutdownNotLost, Asleep, NotShutDown
  <1>10. NoJobSeen' BY DEF NoJobSeen, YieldOK, MutexHeld, Locked
  <1>11. NoStrandedJobUnlessYielding'
    BY DEF NoStrandedJobUnlessYielding, NoStrandedJob, Asleep, Awake, WillLook, YieldPCs, NoJobSeen
  <1>12. JobsInOrder' BY DEF JobsInOrder
  <1>13. TimedJobCovered' BY FrontKept DEF TimedJobCovered, Asleep, Awake
  <1>14. NowPast' BY DEF NowPast, Times
  <1> QED
    BY <1>1, <1>2, <1>3, <1>4, <1>5, <1>6, <1>7, <1>8, <1>9, <1>10, <1>11, <1>12, <1>13, <1>14

LEMMA YieldDoneKeeps ==
    ASSUME IInv, NEW t \in Threads, YieldDone(t) PROVE IInv'
  <1> USE WorkersAssumption DEF YieldDone, Acquire, Release, Holding, Goto, OnlyMutex, OnlyPc, Section, pool_vars, queue_vars, wait_vars, work_vars, IInv, TypeOK, Threads
  <1>a. \/ t \in Workers /\ pc' = [pc EXCEPT ![t] = "prewait"]
        \/ t \in Clients /\ pc' = [pc EXCEPT ![t] = "idle"]
    OBVIOUS
  <1>1. TypeOK' BY <1>a DEF Times, Never, WorkerPCs, YieldPCs, ClientPCs
  <1>2. PlaceOK'
    <2>1. \A v \in Workers : pc'[v] \in WorkerPCs \cup YieldPCs
      BY <1>a DEF PlaceOK, WorkerPCs
    <2>2. \A d \in Clients : pc'[d] \in ClientPCs \cup YieldPCs
      BY <1>a DEF PlaceOK, ClientPCs
    <2> QED
      BY <2>1, <2>2 DEF PlaceOK
  <1>3. MutexHeld' BY ZenonT(30), <1>a DEF MutexHeld, Locked
  <1>4. VictimOK' BY <1>a DEF PlaceOK, WorkerPCs, ClientPCs, YieldPCs, VictimOK
  <1>5. YieldOK' BY <1>a DEF YieldOK, PlaceOK, WorkerPCs, YieldPCs
  <1>6. CountExact' BY CountKept, <1>a DEF Counted
  <1>7. PendingSeen' BY <1>a DEF PendingSeen, MutexHeld, Locked
  <1>8. NotShutDown' BY <1>a DEF NotShutDown, MutexHeld, Locked
  <1>9. ShutdownNotLost'
    <2>1. \A v \in Workers : pc'[v] = "sleep" => pc[v] = "sleep"
      BY <1>a
    <2>2. \A d \in Clients : pc[d] \in {"dload", "dbcast"} => pc'[d] = pc[d]
      BY <1>a
    <2> QED
      BY <2>1, <2>2, ShutdownKept
  <1>10. NoJobSeen' BY <1>a DEF NoJobSeen, YieldOK, MutexHeld, Locked
  <1>11. NoStrandedJobUnlessYielding'
    <2>1. CASE t \in Clients
      BY <1>a, <2>1, StrandedKept
    <2>2. CASE t \in Workers
      BY <1>a, <2>2 DEF NoStrandedJobUnlessYielding, NoStrandedJob, NoJobSeen
    <2> QED
      BY <2>1, <2>2
  <1>12. JobsInOrder' BY <1>a DEF JobsInOrder
  <1>13. TimedJobCovered'
    <2>1. CASE t \in Clients
      BY <1>a, <2>1, TimedKept
    <2>2. CASE t \in Workers
      BY <1>a, <2>2, AwakeCovers
    <2> QED
      BY <2>1, <2>2
  <1>14. NowPast' BY <1>a DEF NowPast, Times
  <1> QED
    BY <1>1, <1>2, <1>3, <1>4, <1>5, <1>6, <1>7, <1>8, <1>9, <1>10, <1>11, <1>12, <1>13, <1>14

LEMMA LoadWaitingKeeps ==
    ASSUME IInv, NEW c \in Clients, LoadWaiting(c) PROVE IInv'
  <1> USE WorkersAssumption DEF LoadWaiting, Acquire, Release, Holding, Goto, OnlyMutex, OnlyPc, Section, pool_vars, queue_vars, wait_vars, work_vars, IInv, TypeOK, Threads
  <1>a. waiting_count = 0 => \A v \in Workers : pc[v] \notin Counted
    <2>1. IsFiniteSet(Waiting)
      BY WorkersFinite, FS_Subset DEF Waiting
    <2>2. waiting_count = 0 => Waiting = {}
      BY <2>1, FS_EmptySet DEF CountExact
    <2> QED
      BY <2>2 DEF Waiting
  <1>b. pc' = [pc EXCEPT ![c] = pc'[c]] /\ pc'[c] \in {"ibcast", "dbcast", "idle", "djoin"}
    OBVIOUS
  <1>c. waiting_count # 0 => (pc[c] = "iload" => pc'[c] = "ibcast") /\ (pc[c] = "dload" => pc'[c] = "dbcast")
    OBVIOUS
  <1>1. TypeOK' BY DEF Times, Never, WorkerPCs, YieldPCs, ClientPCs
  <1>2. PlaceOK' BY DEF PlaceOK, WorkerPCs, YieldPCs, ClientPCs
  <1>3. MutexHeld' BY DEF MutexHeld, Locked
  <1>4. VictimOK' BY DEF PlaceOK, WorkerPCs, ClientPCs, YieldPCs, VictimOK
  <1>5. YieldOK' BY DEF YieldOK, PlaceOK, WorkerPCs, YieldPCs
  <1>6. CountExact' BY CountKept DEF Counted
  <1>7. PendingSeen'
    <2>1. CASE waiting_count = 0
      BY <1>a, <1>b, <2>1 DEF PendingSeen, Counted
    <2>2. CASE waiting_count # 0
      BY <1>b, <1>c, <2>2 DEF PendingSeen
    <2> QED
      BY <2>1, <2>2
  <1>8. NotShutDown' BY DEF NotShutDown, MutexHeld, Locked
  <1>9. ShutdownNotLost'
    <2>1. CASE waiting_count = 0
      BY <1>a, <1>b, <2>1 DEF ShutdownNotLost, Asleep, Counted
    <2>2. CASE waiting_count # 0
      BY SMTT(30), <1>b, <1>c, <2>2 DEF ShutdownNotLost, Asleep
    <2> QED
      BY <2>1, <2>2
  <1>10. NoJobSeen' BY DEF NoJobSeen, YieldOK, MutexHeld, Locked
  <1>11. NoStrandedJobUnlessYielding'
    BY DEF NoStrandedJobUnlessYielding, NoStrandedJob, Asleep, Awake, WillLook, YieldPCs, NoJobSeen
  <1>12. JobsInOrder' BY DEF JobsInOrder
  <1>13. TimedJobCovered' BY SMTT(30), FrontKept DEF TimedJobCovered, Asleep, Awake
  <1>14. NowPast' BY DEF NowPast, Times
  <1> QED
    BY <1>1, <1>2, <1>3, <1>4, <1>5, <1>6, <1>7, <1>8, <1>9, <1>10, <1>11, <1>12, <1>13, <1>14

LEMMA BroadcastKeeps ==
    ASSUME IInv, NEW c \in Clients, Broadcast(c) PROVE IInv'
  <1> USE WorkersAssumption DEF Broadcast, WakeAll, Acquire, Release, Holding, Goto, OnlyMutex, OnlyPc, Section, pool_vars, queue_vars, wait_vars, work_vars, IInv, TypeOK, Threads
  <1>1. TypeOK' BY DEF Times, Never, WorkerPCs, YieldPCs, ClientPCs
  <1>2. PlaceOK' BY DEF PlaceOK, WorkerPCs, YieldPCs, ClientPCs
  <1>3. MutexHeld' BY DEF MutexHeld, Locked
  <1>4. VictimOK' BY DEF PlaceOK, WorkerPCs, ClientPCs, YieldPCs, VictimOK
  <1>5. YieldOK' BY DEF YieldOK, PlaceOK, WorkerPCs, YieldPCs
  <1>6. CountExact' BY CountKept DEF Counted
  <1>7. PendingSeen' BY DEF PendingSeen, MutexHeld, Locked
  <1>8. NotShutDown' BY DEF NotShutDown, MutexHeld, Locked
  <1>9. ShutdownNotLost' BY DEF ShutdownNotLost, Asleep, NotShutDown
  <1>10. NoJobSeen' BY DEF NoJobSeen, YieldOK, MutexHeld, Locked
  <1>11. NoStrandedJobUnlessYielding'
    BY DEF NoStrandedJobUnlessYielding, NoStrandedJob, Asleep, Awake, WillLook, YieldPCs, NoJobSeen
  <1>12. JobsInOrder' BY DEF JobsInOrder
  <1>13. TimedJobCovered' BY FrontKept DEF TimedJobCovered, Asleep, Awake
  <1>14. NowPast' BY DEF NowPast, Times
  <1> QED
    BY <1>1, <1>2, <1>3, <1>4, <1>5, <1>6, <1>7, <1>8, <1>9, <1>10, <1>11, <1>12, <1>13, <1>14

LEMMA YieldEnterKeeps ==
    ASSUME IInv, NEW c \in Clients, YieldEnter(c) PROVE IInv'
  <1> USE WorkersAssumption DEF YieldEnter, Acquire, Release, Holding, Goto, OnlyMutex, OnlyPc, Section, pool_vars, queue_vars, wait_vars, work_vars, IInv, TypeOK, Threads
  <1>1. TypeOK' BY DEF Times, Never, WorkerPCs, YieldPCs, ClientPCs
  <1>2. PlaceOK' BY DEF PlaceOK, WorkerPCs, YieldPCs, ClientPCs
  <1>3. MutexHeld' BY DEF MutexHeld, Locked
  <1>4. VictimOK' BY DEF PlaceOK, WorkerPCs, ClientPCs, YieldPCs, VictimOK
  <1>5. YieldOK' BY DEF YieldOK, PlaceOK, WorkerPCs, YieldPCs
  <1>6. CountExact' BY CountKept DEF Counted
  <1>7. PendingSeen' BY DEF PendingSeen, MutexHeld, Locked
  <1>8. NotShutDown' BY DEF NotShutDown, MutexHeld, Locked
  <1>9. ShutdownNotLost' BY DEF ShutdownNotLost, Asleep, NotShutDown
  <1>10. NoJobSeen' BY DEF NoJobSeen, YieldOK, MutexHeld, Locked
  <1>11. NoStrandedJobUnlessYielding'
    BY DEF NoStrandedJobUnlessYielding, NoStrandedJob, Asleep, Awake, WillLook, YieldPCs, NoJobSeen
  <1>12. JobsInOrder' BY DEF JobsInOrder
  <1>13. TimedJobCovered' BY FrontKept DEF TimedJobCovered, Asleep, Awake
  <1>14. NowPast' BY DEF NowPast, Times
  <1> QED
    BY <1>1, <1>2, <1>3, <1>4, <1>5, <1>6, <1>7, <1>8, <1>9, <1>10, <1>11, <1>12, <1>13, <1>14

LEMMA SetShutdownKeeps ==
    ASSUME IInv, NEW c \in Clients, SetShutdown(c) PROVE IInv'
  <1> USE WorkersAssumption DEF SetShutdown, Acquire, Release, Holding, Goto, OnlyMutex, OnlyPc, Section, pool_vars, queue_vars, wait_vars, work_vars, IInv, TypeOK, Threads
  <1>1. TypeOK' BY DEF Times, Never, WorkerPCs, YieldPCs, ClientPCs
  <1>2. PlaceOK' BY DEF PlaceOK, WorkerPCs, YieldPCs, ClientPCs
  <1>3. MutexHeld' BY DEF MutexHeld, Locked
  <1>4. VictimOK' BY DEF PlaceOK, WorkerPCs, ClientPCs, YieldPCs, VictimOK
  <1>5. YieldOK' BY DEF YieldOK, PlaceOK, WorkerPCs, YieldPCs
  <1>6. CountExact' BY CountKept DEF Counted
  <1>7. PendingSeen' BY DEF PendingSeen, MutexHeld, Locked
  <1>8. NotShutDown' BY DEF NotShutDown, MutexHeld, Locked
  <1>9. ShutdownNotLost' BY DEF ShutdownNotLost, Asleep, NotShutDown
  <1>10. NoJobSeen' BY DEF NoJobSeen, YieldOK, MutexHeld, Locked
  <1>11. NoStrandedJobUnlessYielding'
    BY DEF NoStrandedJobUnlessYielding, NoStrandedJob, Asleep, Awake, WillLook, YieldPCs, NoJobSeen
  <1>12. JobsInOrder' BY DEF JobsInOrder
  <1>13. TimedJobCovered' BY FrontKept DEF TimedJobCovered, Asleep, Awake
  <1>14. NowPast' BY DEF NowPast, Times
  <1> QED
    BY <1>1, <1>2, <1>3, <1>4, <1>5, <1>6, <1>7, <1>8, <1>9, <1>10, <1>11, <1>12, <1>13, <1>14

LEMMA JoinKeeps ==
    ASSUME IInv, NEW c \in Clients, Join(c) PROVE IInv'
  <1> USE WorkersAssumption DEF Join, Acquire, Release, Holding, Goto, OnlyMutex, OnlyPc, Section, pool_vars, queue_vars, wait_vars, work_vars, IInv, TypeOK, Threads
  <1>1. TypeOK' BY DEF Times, Never, WorkerPCs, YieldPCs, ClientPCs
  <1>2. PlaceOK' BY DEF PlaceOK, WorkerPCs, YieldPCs, ClientPCs
  <1>3. MutexHeld' BY DEF MutexHeld, Locked
  <1>4. VictimOK' BY DEF PlaceOK, WorkerPCs, ClientPCs, YieldPCs, VictimOK
  <1>5. YieldOK' BY DEF YieldOK, PlaceOK, WorkerPCs, YieldPCs
  <1>6. CountExact' BY CountKept DEF Counted
  <1>7. PendingSeen' BY DEF PendingSeen, MutexHeld, Locked
  <1>8. NotShutDown' BY DEF NotShutDown, MutexHeld, Locked
  <1>9. ShutdownNotLost' BY DEF ShutdownNotLost, Asleep, NotShutDown
  <1>10. NoJobSeen' BY DEF NoJobSeen, YieldOK, MutexHeld, Locked
  <1>11. NoStrandedJobUnlessYielding'
    <2>1. Asleep' = Asleep /\ WillLook' = WillLook
      BY DEF Asleep, Awake, WillLook, VictimOK
    <2> QED
      BY <2>1 DEF NoStrandedJobUnlessYielding, NoStrandedJob
  <1>12. JobsInOrder' BY DEF JobsInOrder
  <1>13. TimedJobCovered'
    <2>1. Asleep' = Asleep /\ Awake' = Awake
      BY DEF Asleep, Awake, VictimOK
    <2> QED
      BY <2>1, FrontKept DEF TimedJobCovered
  <1>14. NowPast' BY DEF NowPast, Times
  <1> QED
    BY <1>1, <1>2, <1>3, <1>4, <1>5, <1>6, <1>7, <1>8, <1>9, <1>10, <1>11, <1>12, <1>13, <1>14

LEMMA DropAgainKeeps ==
    ASSUME IInv, NEW c \in Clients, DropAgain(c) PROVE IInv'
  <1> USE WorkersAssumption DEF DropAgain, Acquire, Release, Holding, Goto, OnlyMutex, OnlyPc, Section, pool_vars, queue_vars, wait_vars, work_vars, IInv, TypeOK, Threads
  <1>a. \/ /\ pc' = [pc EXCEPT ![c] = "idle"]
           /\ target' = [target EXCEPT ![c] = 0] /\ last_count' = [last_count EXCEPT ![c] = 0]
           /\ UNCHANGED <<workers_mutex, workers_list, workers_count, victim>>
        \/ workers_count > target[c] /\ PopWorker(c, target[c])
    BY SMTT(30) DEF PopWorker
  <1>b. /\ do_shutdown' = do_shutdown
        /\ pc' = [pc EXCEPT ![c] = "idle"] \/ pc' = [pc EXCEPT ![c] = "dset"]
        /\ \A d \in Clients \ {c} : victim'[d] = victim[d]
    BY <1>a DEF PopWorker
  <1>1. TypeOK'
    <2>1. CASE /\ pc' = [pc EXCEPT ![c] = "idle"]
              /\ target' = [target EXCEPT ![c] = 0] /\ last_count' = [last_count EXCEPT ![c] = 0]
              /\ UNCHANGED <<workers_mutex, workers_list, workers_count, victim>>
      BY <1>b, <2>1 DEF WorkerPCs, YieldPCs, ClientPCs
    <2>2. CASE workers_count > target[c] /\ PopWorker(c, target[c])
      <3>1. workers_list' \in Seq(Workers) /\ workers_count' \in Nat
        BY <2>2 DEF PopWorker
      <3>2. victim' \in [Clients -> Workers \cup {NoThread}]
        BY <2>2 DEF PopWorker
      <3>3. target' \in [Clients -> Nat] /\ last_count' \in [Clients -> Nat]
        BY <2>2 DEF PopWorker
      <3>4. workers_mutex' \in Clients \cup {NoThread}
        BY <2>2 DEF PopWorker
      <3>5. pc' \in [Threads -> WorkerPCs \cup YieldPCs \cup ClientPCs]
        BY <1>b DEF WorkerPCs, YieldPCs, ClientPCs
      <3> QED
        BY <1>b, <3>1, <3>2, <3>3, <3>4, <3>5
    <2> QED
      BY <1>a, <2>1, <2>2
  <1>2. PlaceOK' BY <1>b DEF PlaceOK, WorkerPCs, YieldPCs, ClientPCs
  <1>3. MutexHeld' BY <1>b DEF MutexHeld, Locked
  <1>4. VictimOK'
    <2>1. CASE pc' = [pc EXCEPT ![c] = "idle"]
      BY <1>b, <2>1 DEF VictimOK
    <2>2. CASE PopWorker(c, target[c])
      BY SMTT(30), <1>b, <2>2 DEF PopWorker, VictimOK
    <2> QED
      BY <1>a, <2>1, <2>2
  <1>5. YieldOK' BY <1>b DEF YieldOK, PlaceOK, WorkerPCs, YieldPCs
  <1>6. CountExact' BY CountKept, <1>b DEF Counted
  <1>7. PendingSeen' BY <1>b DEF PendingSeen, MutexHeld, Locked
  <1>8. NotShutDown' BY <1>b DEF NotShutDown, MutexHeld, Locked
  <1>9. ShutdownNotLost'
    <2>1. do_shutdown' = do_shutdown /\ \A v \in Workers : pc'[v] = pc[v]
      BY <1>b
    <2>2. \A d \in Clients : pc[d] \in {"dload", "dbcast"} => pc'[d] = pc[d] /\ victim'[d] = victim[d]
      BY <1>b
    <2>3. ShutdownNotLost
      OBVIOUS
    <2> QED
      BY ONLY <2>1, <2>2, <2>3 DEF ShutdownNotLost, Asleep
  <1>10. NoJobSeen' BY <1>b DEF NoJobSeen, YieldOK, MutexHeld, Locked
  <1>11. NoStrandedJobUnlessYielding' BY <1>b, StrandedKept
  <1>12. JobsInOrder' BY DEF JobsInOrder
  <1>13. TimedJobCovered' BY <1>b, TimedKept
  <1>14. NowPast' BY DEF NowPast, Times
  <1> QED
    BY <1>1, <1>2, <1>3, <1>4, <1>5, <1>6, <1>7, <1>8, <1>9, <1>10, <1>11, <1>12, <1>13, <1>14

LEMMA SpawnOneKeeps ==
    ASSUME IInv, NEW c \in Clients, SpawnOne(c) PROVE IInv'
  <1> USE WorkersAssumption DEF SpawnOne, Acquire, Release, Holding, Goto, OnlyMutex, OnlyPc, Section, pool_vars, queue_vars, wait_vars, work_vars, IInv, TypeOK, Threads
  <1>1. TypeOK'
    <2>1. pc' \in [Threads -> WorkerPCs \cup YieldPCs \cup ClientPCs]
      BY DEF WorkerPCs, YieldPCs, ClientPCs
    <2>2. workers_list' \in Seq(Workers)
      OBVIOUS
    <2>3. do_shutdown' \in [Workers -> BOOLEAN]
      OBVIOUS
    <2>4. workers_count' \in Nat
      OBVIOUS
    <2> QED
      BY <2>1, <2>2, <2>3, <2>4
  <1>2. PlaceOK' BY DEF PlaceOK, WorkerPCs, YieldPCs, ClientPCs
  <1>3. MutexHeld' BY DEF MutexHeld, Locked
  <1>4. VictimOK' BY DEF PlaceOK, WorkerPCs, ClientPCs, YieldPCs, VictimOK
  <1>5. YieldOK' BY DEF YieldOK, PlaceOK, WorkerPCs, YieldPCs
  <1>6. CountExact' BY CountKept DEF Counted
  <1>7. PendingSeen' BY DEF PendingSeen, MutexHeld, Locked
  <1>8. NotShutDown' BY DEF NotShutDown, MutexHeld, Locked
  <1>9. ShutdownNotLost' BY DEF ShutdownNotLost, Asleep, NotShutDown
  <1>10. NoJobSeen' BY DEF NoJobSeen, YieldOK, MutexHeld, Locked
  <1>11. NoStrandedJobUnlessYielding'
    BY DEF NoStrandedJobUnlessYielding, NoStrandedJob, Asleep, Awake, WillLook, YieldPCs, NoJobSeen
  <1>12. JobsInOrder' BY DEF JobsInOrder
  <1>13. TimedJobCovered' BY FrontKept DEF TimedJobCovered, Asleep, Awake
  <1>14. NowPast' BY DEF NowPast, Times
  <1> QED
    BY <1>1, <1>2, <1>3, <1>4, <1>5, <1>6, <1>7, <1>8, <1>9, <1>10, <1>11, <1>12, <1>13, <1>14

LEMMA SpawnDoneKeeps ==
    ASSUME IInv, NEW c \in Clients, SpawnDone(c) PROVE IInv'
  <1> USE WorkersAssumption DEF SpawnDone, Acquire, Release, Holding, Goto, OnlyMutex, OnlyPc, Section, pool_vars, queue_vars, wait_vars, work_vars, IInv, TypeOK, Threads
  <1>1. TypeOK' BY DEF Times, Never, WorkerPCs, YieldPCs, ClientPCs
  <1>2. PlaceOK' BY DEF PlaceOK, WorkerPCs, YieldPCs, ClientPCs
  <1>3. MutexHeld' BY DEF MutexHeld, Locked
  <1>4. VictimOK' BY DEF PlaceOK, WorkerPCs, ClientPCs, YieldPCs, VictimOK
  <1>5. YieldOK' BY DEF YieldOK, PlaceOK, WorkerPCs, YieldPCs
  <1>6. CountExact' BY CountKept DEF Counted
  <1>7. PendingSeen' BY DEF PendingSeen, MutexHeld, Locked
  <1>8. NotShutDown' BY DEF NotShutDown, MutexHeld, Locked
  <1>9. ShutdownNotLost' BY DEF ShutdownNotLost, Asleep, NotShutDown
  <1>10. NoJobSeen' BY DEF NoJobSeen, YieldOK, MutexHeld, Locked
  <1>11. NoStrandedJobUnlessYielding'
    BY DEF NoStrandedJobUnlessYielding, NoStrandedJob, Asleep, Awake, WillLook, YieldPCs, NoJobSeen
  <1>12. JobsInOrder' BY DEF JobsInOrder
  <1>13. TimedJobCovered' BY FrontKept DEF TimedJobCovered, Asleep, Awake
  <1>14. NowPast' BY DEF NowPast, Times
  <1> QED
    BY <1>1, <1>2, <1>3, <1>4, <1>5, <1>6, <1>7, <1>8, <1>9, <1>10, <1>11, <1>12, <1>13, <1>14

LEMMA RegisterSchedulerKeeps ==
    ASSUME IInv, NEW c \in Clients, RegisterScheduler(c) PROVE IInv'
  <1> USE WorkersAssumption DEF RegisterScheduler, Acquire, Release, Holding, Goto, OnlyMutex, OnlyPc, Section, pool_vars, queue_vars, wait_vars, work_vars, IInv, TypeOK, Threads
  <1>1. TypeOK' BY SMTT(30) DEF Times, Never, WorkerPCs, YieldPCs, ClientPCs
  <1>2. PlaceOK' BY DEF PlaceOK, WorkerPCs, YieldPCs, ClientPCs
  <1>3. MutexHeld' BY DEF MutexHeld, Locked
  <1>4. VictimOK' BY DEF PlaceOK, WorkerPCs, ClientPCs, YieldPCs, VictimOK
  <1>5. YieldOK' BY DEF YieldOK, PlaceOK, WorkerPCs, YieldPCs
  <1>6. CountExact' BY CountKept DEF Counted
  <1>7. PendingSeen' BY DEF PendingSeen, MutexHeld, Locked
  <1>8. NotShutDown' BY DEF NotShutDown, MutexHeld, Locked
  <1>9. ShutdownNotLost' BY DEF ShutdownNotLost, Asleep, NotShutDown
  <1>10. NoJobSeen' BY DEF NoJobSeen, YieldOK, MutexHeld, Locked
  <1>11. NoStrandedJobUnlessYielding'
    BY DEF NoStrandedJobUnlessYielding, NoStrandedJob, Asleep, Awake, WillLook, YieldPCs, NoJobSeen
  <1>12. JobsInOrder' BY DEF JobsInOrder
  <1>13. TimedJobCovered' BY FrontKept DEF TimedJobCovered, Asleep, Awake
  <1>14. NowPast' BY DEF NowPast, Times
  <1> QED
    BY <1>1, <1>2, <1>3, <1>4, <1>5, <1>6, <1>7, <1>8, <1>9, <1>10, <1>11, <1>12, <1>13, <1>14

LEMMA CallOnSignalKeeps ==
    ASSUME IInv, NEW c \in Clients, CallOnSignal(c) PROVE IInv'
  <1> USE WorkersAssumption DEF CallOnSignal, Acquire, Release, Holding, Goto, OnlyMutex, OnlyPc, Section, pool_vars, queue_vars, wait_vars, work_vars, IInv, TypeOK, Threads
  <1>a. \/ pc' = pc /\ \A v \in Workers : pc[v] # "sleep"
        \/ \E v \in Workers : pc[v] = "sleep" /\ pc' = [pc EXCEPT ![v] = "woken"]
    BY SignalWakes
  <1>1. TypeOK'
    <2>1. pc' \in [Threads -> WorkerPCs \cup YieldPCs \cup ClientPCs]
      BY <1>a DEF WorkerPCs, YieldPCs, ClientPCs
    <2>2. schedulers' \in Nat
      OBVIOUS
    <2> QED
      BY <2>1, <2>2
  <1>2. PlaceOK' BY <1>a DEF PlaceOK, WorkerPCs, YieldPCs, ClientPCs
  <1>3. MutexHeld' BY <1>a DEF MutexHeld, Locked
  <1>4. VictimOK' BY <1>a DEF PlaceOK, WorkerPCs, ClientPCs, YieldPCs, VictimOK
  <1>5. YieldOK' BY <1>a DEF YieldOK, PlaceOK, WorkerPCs, YieldPCs
  <1>6. CountExact' BY CountKept, <1>a DEF Counted
  <1>7. PendingSeen' BY <1>a DEF PendingSeen, MutexHeld, Locked
  <1>8. NotShutDown' BY <1>a DEF NotShutDown, MutexHeld, Locked
  <1>9. ShutdownNotLost'
    <2>1. \A v \in Workers : pc'[v] = "sleep" => pc[v] = "sleep"
      BY <1>a
    <2>2. \A d \in Clients : pc[d] \in {"dload", "dbcast"} => pc'[d] = pc[d]
      BY <1>a
    <2> QED
      BY <2>1, <2>2, ShutdownKept
  <1>10. NoJobSeen' BY <1>a DEF NoJobSeen, YieldOK, MutexHeld, Locked
  <1>11. NoStrandedJobUnlessYielding'
    BY <1>a DEF NoStrandedJobUnlessYielding, NoStrandedJob, Asleep, Awake, WillLook, YieldPCs, NoJobSeen
  <1>12. JobsInOrder' BY <1>a DEF JobsInOrder
  <1>13. TimedJobCovered' BY FrontKept, <1>a DEF TimedJobCovered, Asleep, Awake
  <1>14. NowPast' BY <1>a DEF NowPast, Times
  <1> QED
    BY <1>1, <1>2, <1>3, <1>4, <1>5, <1>6, <1>7, <1>8, <1>9, <1>10, <1>11, <1>12, <1>13, <1>14

LEMMA IncrPendingKeeps ==
    ASSUME IInv, NEW c \in Clients, IncrPending(c) PROVE IInv'
  <1> USE WorkersAssumption DEF IncrPending, Acquire, Release, Holding, Goto, OnlyMutex, OnlyPc, Section, pool_vars, queue_vars, wait_vars, work_vars, IInv, TypeOK, Threads
  <1>1. TypeOK'
    <2>1. pc' \in [Threads -> WorkerPCs \cup YieldPCs \cup ClientPCs]
      BY DEF WorkerPCs, YieldPCs, ClientPCs
    <2>2. pending' \in Nat
      OBVIOUS
    <2> QED
      BY <2>1, <2>2
  <1>2. PlaceOK' BY DEF PlaceOK, WorkerPCs, YieldPCs, ClientPCs
  <1>3. MutexHeld' BY DEF MutexHeld, Locked
  <1>4. VictimOK' BY DEF PlaceOK, WorkerPCs, ClientPCs, YieldPCs, VictimOK
  <1>5. YieldOK' BY DEF YieldOK, PlaceOK, WorkerPCs, YieldPCs
  <1>6. CountExact' BY CountKept DEF Counted
  <1>7. PendingSeen' BY DEF PendingSeen, MutexHeld, Locked
  <1>8. NotShutDown' BY DEF NotShutDown, MutexHeld, Locked
  <1>9. ShutdownNotLost' BY DEF ShutdownNotLost, Asleep, NotShutDown
  <1>10. NoJobSeen' BY DEF NoJobSeen, YieldOK, MutexHeld, Locked
  <1>11. NoStrandedJobUnlessYielding'
    BY DEF NoStrandedJobUnlessYielding, NoStrandedJob, Asleep, Awake, WillLook, YieldPCs, NoJobSeen
  <1>12. JobsInOrder' BY DEF JobsInOrder
  <1>13. TimedJobCovered' BY FrontKept DEF TimedJobCovered, Asleep, Awake
  <1>14. NowPast' BY DEF NowPast, Times
  <1> QED
    BY <1>1, <1>2, <1>3, <1>4, <1>5, <1>6, <1>7, <1>8, <1>9, <1>10, <1>11, <1>12, <1>13, <1>14

LEMMA YieldKeeps ==
    ASSUME IInv, NEW c \in Clients, Yield(c) PROVE IInv'
  <1> USE WorkersAssumption DEF Yield, Acquire, Release, Holding, Goto, OnlyMutex, OnlyPc, Section, pool_vars, queue_vars, wait_vars, work_vars, IInv, TypeOK, Threads
  <1>1. TypeOK' BY DEF Times, Never, WorkerPCs, YieldPCs, ClientPCs
  <1>2. PlaceOK' BY DEF PlaceOK, WorkerPCs, YieldPCs, ClientPCs
  <1>3. MutexHeld' BY DEF MutexHeld, Locked
  <1>4. VictimOK' BY DEF PlaceOK, WorkerPCs, ClientPCs, YieldPCs, VictimOK
  <1>5. YieldOK' BY DEF YieldOK, PlaceOK, WorkerPCs, YieldPCs
  <1>6. CountExact' BY CountKept DEF Counted
  <1>7. PendingSeen' BY DEF PendingSeen, MutexHeld, Locked
  <1>8. NotShutDown' BY DEF NotShutDown, MutexHeld, Locked
  <1>9. ShutdownNotLost' BY DEF ShutdownNotLost, Asleep, NotShutDown
  <1>10. NoJobSeen' BY DEF NoJobSeen, YieldOK, MutexHeld, Locked
  <1>11. NoStrandedJobUnlessYielding'
    BY DEF NoStrandedJobUnlessYielding, NoStrandedJob, Asleep, Awake, WillLook, YieldPCs, NoJobSeen
  <1>12. JobsInOrder' BY DEF JobsInOrder
  <1>13. TimedJobCovered' BY FrontKept DEF TimedJobCovered, Asleep, Awake
  <1>14. NowPast' BY DEF NowPast, Times
  <1> QED
    BY <1>1, <1>2, <1>3, <1>4, <1>5, <1>6, <1>7, <1>8, <1>9, <1>10, <1>11, <1>12, <1>13, <1>14

LEMMA CallKeeps ==
    ASSUME IInv, NEW c \in Clients, NEW j \in Jobs, Call(c, j) PROVE IInv'
  <1> USE WorkersAssumption DEF Call, Acquire, Release, Holding, Goto, OnlyMutex, OnlyPc, Section, pool_vars, queue_vars, wait_vars, work_vars, IInv, TypeOK, Threads
  <1>a. \/ pc' = pc /\ \A v \in Workers : pc[v] # "sleep"
        \/ \E v \in Workers : pc[v] = "sleep" /\ pc' = [pc EXCEPT ![v] = "woken"]
    BY SignalWakes
  <1>1. TypeOK'
    <2>1. pc' \in [Threads -> WorkerPCs \cup YieldPCs \cup ClientPCs]
      BY <1>a DEF WorkerPCs, YieldPCs, ClientPCs
    <2>2. nowlist' \in Seq(Jobs) /\ called' \in Seq(Jobs)
      OBVIOUS
    <2> QED
      BY <2>1, <2>2
  <1>2. PlaceOK' BY <1>a DEF PlaceOK, WorkerPCs, YieldPCs, ClientPCs
  <1>3. MutexHeld' BY <1>a DEF MutexHeld, Locked
  <1>4. VictimOK' BY <1>a DEF PlaceOK, WorkerPCs, ClientPCs, YieldPCs, VictimOK
  <1>5. YieldOK' BY <1>a DEF YieldOK, PlaceOK, WorkerPCs, YieldPCs
  <1>6. CountExact' BY CountKept, <1>a DEF Counted
  <1>7. PendingSeen' BY <1>a DEF PendingSeen, MutexHeld, Locked
  <1>8. NotShutDown' BY <1>a DEF NotShutDown, MutexHeld, Locked
  <1>9. ShutdownNotLost'
    <2>1. \A v \in Workers : pc'[v] = "sleep" => pc[v] = "sleep"
      BY <1>a
    <2>2. \A d \in Clients : pc[d] \in {"dload", "dbcast"} => pc'[d] = pc[d]
      BY <1>a
    <2> QED
      BY <2>1, <2>2, ShutdownKept
  <1>10. NoJobSeen' BY <1>a DEF NoJobSeen, YieldOK, MutexHeld, Locked
  <1>11. NoStrandedJobUnlessYielding'
    BY ZenonT(30), <1>a DEF NoStrandedJobUnlessYielding, NoStrandedJob, Asleep, Awake, WillLook, YieldPCs, NoJobSeen
  <1>12. JobsInOrder'
    <2>1. called' = Append(started \o nowlist, j) /\ started' = started
      BY DEF JobsInOrder
    <2>2. started \in Seq(Jobs) /\ nowlist \in Seq(Jobs) /\ nowlist' = Append(nowlist, j)
      OBVIOUS
    <2>3. Append(started \o nowlist, j) = started \o Append(nowlist, j)
      BY ONLY <2>2, j \in Jobs, AppendAssoc
    <2> QED
      BY ONLY <2>1, <2>2, <2>3 DEF JobsInOrder
  <1>13. TimedJobCovered' BY FrontKept, <1>a DEF TimedJobCovered, Asleep, Awake
  <1>14. NowPast' BY <1>a DEF NowPast, Times
  <1> QED
    BY <1>1, <1>2, <1>3, <1>4, <1>5, <1>6, <1>7, <1>8, <1>9, <1>10, <1>11, <1>12, <1>13, <1>14

LEMMA CallAtKeeps ==
    ASSUME IInv, NEW c \in Clients, NEW j \in AtJobs, NEW tm \in Times, CallAt(c, j, tm) PROVE IInv'
  <1> USE WorkersAssumption DEF CallAt, Acquire, Release, Holding, Goto, OnlyMutex, OnlyPc, Section, pool_vars, queue_vars, wait_vars, work_vars, IInv, TypeOK, Threads
  <1>a. \/ pc' = pc /\ \A v \in Workers : pc[v] # "sleep"
        \/ \E v \in Workers : pc[v] = "sleep" /\ pc' = [pc EXCEPT ![v] = "woken"]
        \/ pc' = pc /\ atq # {} /\ ~(tm < FrontTime)
    BY SignalWakes
  <1>1. TypeOK'
    <2>1. pc' \in [Threads -> WorkerPCs \cup YieldPCs \cup ClientPCs]
      BY <1>a DEF WorkerPCs, YieldPCs, ClientPCs
    <2>2. atq' \subseteq AtJobs \X Times /\ at_called' \subseteq AtJobs
      OBVIOUS
    <2> QED
      BY <2>1, <2>2
  <1>2. PlaceOK' BY <1>a DEF PlaceOK, WorkerPCs, YieldPCs, ClientPCs
  <1>3. MutexHeld' BY <1>a DEF MutexHeld, Locked
  <1>4. VictimOK' BY <1>a DEF PlaceOK, WorkerPCs, ClientPCs, YieldPCs, VictimOK
  <1>5. YieldOK' BY <1>a DEF YieldOK, PlaceOK, WorkerPCs, YieldPCs
  <1>6. CountExact' BY CountKept, <1>a DEF Counted
  <1>7. PendingSeen' BY <1>a DEF PendingSeen, MutexHeld, Locked
  <1>8. NotShutDown' BY <1>a DEF NotShutDown, MutexHeld, Locked
  <1>9. ShutdownNotLost'
    <2>1. \A v \in Workers : pc'[v] = "sleep" => pc[v] = "sleep"
      BY <1>a
    <2>2. \A d \in Clients : pc[d] \in {"dload", "dbcast"} => pc'[d] = pc[d]
      BY <1>a
    <2> QED
      BY <2>1, <2>2, ShutdownKept
  <1>10. NoJobSeen' BY <1>a DEF NoJobSeen, YieldOK, MutexHeld, Locked
  <1>11. NoStrandedJobUnlessYielding'
    BY ZenonT(30), <1>a DEF NoStrandedJobUnlessYielding, NoStrandedJob, Asleep, Awake, WillLook, YieldPCs, NoJobSeen
  <1>12. JobsInOrder' BY <1>a DEF JobsInOrder
  <1>13. TimedJobCovered'
    <2>1. CASE \A v \in Workers : pc'[v] # "sleep"
      BY <2>1 DEF TimedJobCovered, Asleep
    <2>2. CASE \E v \in Workers : pc'[v] = "woken"
      BY <2>2, AwakeCovers
    <2>3. CASE pc' = pc /\ atq # {} /\ ~(tm < FrontTime)
      <3>1. FrontTime' = FrontTime
        BY <2>3, FrontStays
      <3> QED
        BY <2>3, <3>1 DEF TimedJobCovered, Asleep, Awake
    <2> QED
      BY <1>a, <2>1, <2>2, <2>3
  <1>14. NowPast' BY <1>a DEF NowPast, Times
  <1> QED
    BY <1>1, <1>2, <1>3, <1>4, <1>5, <1>6, <1>7, <1>8, <1>9, <1>10, <1>11, <1>12, <1>13, <1>14

LEMMA DropKeeps ==
    ASSUME IInv, NEW c \in Clients, NEW n \in Targets, Drop(c, n) PROVE IInv'
  <1> USE WorkersAssumption DEF Drop, PopWorker, Acquire, Release, Holding, Goto, OnlyMutex, OnlyPc, Section, pool_vars, queue_vars, wait_vars, work_vars, IInv, TypeOK, Threads
  <1>a. PopWorker(c, n) /\ workers_count > n /\ n \in Nat
    OBVIOUS
  <1>1. TypeOK'
    <2>1. pc' \in [Threads -> WorkerPCs \cup YieldPCs \cup ClientPCs]
      BY DEF WorkerPCs, YieldPCs, ClientPCs
    <2>2. workers_list' \in Seq(Workers) /\ workers_count' \in Nat
      BY <1>a
    <2>3. victim' \in [Clients -> Workers \cup {NoThread}]
      BY <1>a
    <2>4. target' \in [Clients -> Nat] /\ last_count' \in [Clients -> Nat]
      BY <1>a
    <2>5. workers_mutex' \in Clients \cup {NoThread}
      BY <1>a
    <2> QED
      BY <2>1, <2>2, <2>3, <2>4, <2>5
  <1>2. PlaceOK' BY DEF PlaceOK, WorkerPCs, YieldPCs, ClientPCs
  <1>3. MutexHeld' BY DEF MutexHeld, Locked
  <1>4. VictimOK' BY SMTT(30) DEF PlaceOK, WorkerPCs, ClientPCs, YieldPCs, VictimOK
  <1>5. YieldOK' BY DEF YieldOK, PlaceOK, WorkerPCs, YieldPCs
  <1>6. CountExact' BY CountKept DEF Counted
  <1>7. PendingSeen' BY DEF PendingSeen, MutexHeld, Locked
  <1>8. NotShutDown' BY DEF NotShutDown, MutexHeld, Locked
  <1>9. ShutdownNotLost' BY DEF ShutdownNotLost, Asleep, NotShutDown
  <1>10. NoJobSeen' BY DEF NoJobSeen, YieldOK, MutexHeld, Locked
  <1>11. NoStrandedJobUnlessYielding'
    BY DEF NoStrandedJobUnlessYielding, NoStrandedJob, Asleep, Awake, WillLook, YieldPCs, NoJobSeen
  <1>12. JobsInOrder' BY DEF JobsInOrder
  <1>13. TimedJobCovered' BY SMTT(30), FrontKept DEF TimedJobCovered, Asleep, Awake
  <1>14. NowPast' BY DEF NowPast, Times
  <1> QED
    BY <1>1, <1>2, <1>3, <1>4, <1>5, <1>6, <1>7, <1>8, <1>9, <1>10, <1>11, <1>12, <1>13, <1>14

LEMMA SpawnKeeps ==
    ASSUME IInv, NEW c \in Clients, NEW n \in Targets, Spawn(c, n) PROVE IInv'
  <1> USE WorkersAssumption DEF Spawn, Acquire, Release, Holding, Goto, OnlyMutex, OnlyPc, Section, pool_vars, queue_vars, wait_vars, work_vars, IInv, TypeOK, Threads
  <1>1. TypeOK' BY DEF Times, Never, WorkerPCs, YieldPCs, ClientPCs
  <1>2. PlaceOK' BY DEF PlaceOK, WorkerPCs, YieldPCs, ClientPCs
  <1>3. MutexHeld' BY DEF MutexHeld, Locked
  <1>4. VictimOK' BY DEF PlaceOK, WorkerPCs, ClientPCs, YieldPCs, VictimOK
  <1>5. YieldOK' BY DEF YieldOK, PlaceOK, WorkerPCs, YieldPCs
  <1>6. CountExact' BY CountKept DEF Counted
  <1>7. PendingSeen' BY DEF PendingSeen, MutexHeld, Locked
  <1>8. NotShutDown' BY DEF NotShutDown, MutexHeld, Locked
  <1>9. ShutdownNotLost' BY DEF ShutdownNotLost, Asleep, NotShutDown
  <1>10. NoJobSeen' BY DEF NoJobSeen, YieldOK, MutexHeld, Locked
  <1>11. NoStrandedJobUnlessYielding'
    BY DEF NoStrandedJobUnlessYielding, NoStrandedJob, Asleep, Awake, WillLook, YieldPCs, NoJobSeen
  <1>12. JobsInOrder' BY DEF JobsInOrder
  <1>13. TimedJobCovered' BY FrontKept DEF TimedJobCovered, Asleep, Awake
  <1>14. NowPast' BY DEF NowPast, Times
  <1> QED
    BY <1>1, <1>2, <1>3, <1>4, <1>5, <1>6, <1>7, <1>8, <1>9, <1>10, <1>11, <1>12, <1>13, <1>14

LEMMA TickKeeps ==
    ASSUME IInv, Tick PROVE IInv'
  <1> USE WorkersAssumption DEF Tick, Acquire, Release, Holding, Goto, OnlyMutex, OnlyPc, Section, pool_vars, queue_vars, wait_vars, work_vars, IInv, TypeOK, Threads
  <1>1. TypeOK' BY SMTT(30) DEF Times, Never, WorkerPCs, YieldPCs, ClientPCs
  <1>2. PlaceOK' BY DEF PlaceOK, WorkerPCs, YieldPCs, ClientPCs
  <1>3. MutexHeld' BY DEF MutexHeld, Locked
  <1>4. VictimOK' BY DEF PlaceOK, WorkerPCs, ClientPCs, YieldPCs, VictimOK
  <1>5. YieldOK' BY DEF YieldOK, PlaceOK, WorkerPCs, YieldPCs
  <1>6. CountExact' BY CountKept DEF Counted
  <1>7. PendingSeen' BY DEF PendingSeen, MutexHeld, Locked
  <1>8. NotShutDown' BY DEF NotShutDown, MutexHeld, Locked
  <1>9. ShutdownNotLost' BY DEF ShutdownNotLost, Asleep, NotShutDown
  <1>10. NoJobSeen' BY DEF NoJobSeen, YieldOK, MutexHeld, Locked
  <1>11. NoStrandedJobUnlessYielding'
    BY DEF NoStrandedJobUnlessYielding, NoStrandedJob, Asleep, Awake, WillLook, YieldPCs, NoJobSeen
  <1>12. JobsInOrder' BY DEF JobsInOrder
  <1>13. TimedJobCovered' BY FrontKept DEF TimedJobCovered, Asleep, Awake
  <1>14. NowPast' BY DEF NowPast, Times
  <1> QED
    BY <1>1, <1>2, <1>3, <1>4, <1>5, <1>6, <1>7, <1>8, <1>9, <1>10, <1>11, <1>12, <1>13, <1>14

-----------------------------------------------------------------------------
LEMMA InitInv == Init => IInv
  <1> SUFFICES ASSUME Init PROVE IInv
    OBVIOUS
  <1> USE WorkersAssumption DEF Init
  <1>1. TypeOK
    BY DEF TypeOK, Threads, Times, Never, WorkerPCs, ClientPCs
  <1>2. MutexHeld /\ PlaceOK /\ VictimOK /\ YieldOK /\ NotShutDown
    BY DEF MutexHeld, PlaceOK, VictimOK, YieldOK, NotShutDown, Threads, Locked,
           WorkerPCs, ClientPCs, YieldPCs
  <1>3. CountExact
    <2>1. Waiting = {}
      BY DEF Waiting, Counted, Threads
    <2> QED
      BY <2>1, FS_EmptySet DEF CountExact
  <1>4. PendingSeen /\ NoJobSeen /\ NowPast /\ JobsInOrder
    BY DEF PendingSeen, NoJobSeen, NowPast, JobsInOrder, Times
  <1>5. Asleep = {}
    BY DEF Asleep, Threads
  <1>6. ShutdownNotLost /\ NoStrandedJobUnlessYielding /\ TimedJobCovered
    BY <1>5 DEF ShutdownNotLost, NoStrandedJobUnlessYielding, NoStrandedJob, TimedJobCovered
  <1> QED
    BY <1>1, <1>2, <1>3, <1>4, <1>6 DEF IInv

\* A step that changes nothing keeps everything.
LEMMA StutterKeeps == IInv /\ UNCHANGED vars => IInv'
  <1> SUFFICES ASSUME IInv, UNCHANGED vars PROVE IInv'
    OBVIOUS
  <1> USE DEF IInv, vars, pool_vars, queue_vars, wait_vars
  <1>1. TypeOK' /\ MutexHeld' /\ PlaceOK' /\ VictimOK' /\ CountExact'
    BY DEF TypeOK, MutexHeld, PlaceOK, VictimOK, CountExact, Waiting
  <1>2. PendingSeen' /\ NotShutDown' /\ ShutdownNotLost' /\ YieldOK' /\ NoJobSeen'
    BY DEF PendingSeen, NotShutDown, ShutdownNotLost, YieldOK, NoJobSeen, Asleep
  <1>3. NoStrandedJobUnlessYielding' /\ JobsInOrder' /\ NowPast'
    BY StrandedKept DEF JobsInOrder, NowPast
  <1>4. TimedJobCovered'
    BY TimedKept
  <1> QED
    BY <1>1, <1>2, <1>3, <1>4

LEMMA NextKeeps == IInv /\ [Next]_vars => IInv'
  <1> SUFFICES ASSUME IInv, [Next]_vars PROVE IInv'
    OBVIOUS
  <1>1. ASSUME NEW t \in Threads, YieldStep(t) PROVE IInv'
    BY <1>1, YieldCallKeeps, RunSchedulerKeeps, YieldLockKeeps, YieldDoneKeeps DEF YieldStep
  <1>2. ASSUME NEW w \in Workers, WorkerStep(w) PROVE IInv'
    BY <1>1, <1>2, WorkerLockKeeps, TopShutdownKeeps, TopJobKeeps, TopIdleKeeps, PreWaitKeeps,
       CountKeeps, CheckPendingKeeps, SleepKeeps, WokenKeeps, TimeOutKeeps, TimedOutKeeps,
       AtRunJobKeeps, AtLockKeeps, AtRunDoneKeeps, UncountKeeps, ExitKeeps
       DEF WorkerStep, Threads
  <1>3. ASSUME NEW c \in Clients, ClientStep(c) PROVE IInv'
    BY <1>1, <1>3, LoadWaitingKeeps, BroadcastKeeps, YieldEnterKeeps, SetShutdownKeeps,
       JoinKeeps, DropAgainKeeps, SpawnOneKeeps, SpawnDoneKeeps
       DEF ClientStep, Threads
  <1>4. ASSUME NEW c \in Clients, ClientCall(c) PROVE IInv'
    BY <1>4, CallKeeps, CallAtKeeps, RegisterSchedulerKeeps, CallOnSignalKeeps,
       IncrPendingKeeps, YieldKeeps, DropKeeps, SpawnKeeps
       DEF ClientCall
  <1> QED
    BY <1>2, <1>3, <1>4, SpuriousWakeupKeeps, TickKeeps, StutterKeeps DEF Next

\* The inductive invariant of the pool.
THEOREM PoolInvariant == Spec => []IInv
  BY InitInv, NextKeeps, PTL DEF Spec

(* Every variable has its type in every state of the pool.                 *)
THEOREM TypeCorrect == Spec => []TypeOK
  <1>1. IInv => TypeOK
    BY DEF IInv
  <1> QED
    BY <1>1, PoolInvariant, PTL

(* Whenever a worker sleeps while scheduler work is pending, the client    *)
(* that raised it still has its broadcast ahead: the count of waiting      *)
(* workers it reads is exact, and so a zero means that no worker is past   *)
(* its second look at the pending work.                                    *)
THEOREM PendingIsSeen == Spec => []NoSleepOnPending
  <1>1. IInv => NoSleepOnPending
    BY DEF IInv, PendingSeen, NoSleepOnPending, Asleep
  <1> QED
    BY <1>1, PoolInvariant, PTL

(* A worker that is shut down does not sleep with nobody to wake it: its   *)
(* do_shutdown is set under the mutex, so that it is not between its test  *)
(* and its wait.                                                           *)
THEOREM ShutdownIsSeen == Spec => []ShutdownNotLost
  <1>1. IInv => ShutdownNotLost
    BY DEF IInv
  <1> QED
    BY <1>1, PoolInvariant, PTL

(* Without a scheduler no queued job is left to sleeping workers, though   *)
(* a signal may go to a worker that leaves or has woken by itself.         *)
THEOREM JobsAreServed == Spec => []NoStrandedJobUnlessYielding
  <1>1. IInv => NoStrandedJobUnlessYielding
    BY DEF IInv
  <1> QED
    BY <1>1, PoolInvariant, PTL

(* Jobs are started in the order of the calls, each once.                  *)
THEOREM JobsStartInOrder == Spec => []JobsInOrder
  <1>1. IInv => JobsInOrder
    BY DEF IInv
  <1> QED
    BY <1>1, PoolInvariant, PTL

(* While there are timed jobs, not all workers sleep beyond the first.     *)
THEOREM TimedJobsCovered == Spec => []TimedJobCovered
  <1>1. IInv => TimedJobCovered
    BY DEF IInv
  <1> QED
    BY <1>1, PoolInvariant, PTL

(* No timed job is started before its time: the time that _worker_atrun    *)
(* compares with has passed, though it is read once for a run of jobs.     *)
THEOREM TimedJobsNotEarly == Spec => NotEarly
  <1> DEFINE OnTime == \A e \in atq \ atq' : e[2] <= clock
  <1>1. ASSUME IInv, NEW w \in Workers, AtRunJob(w) PROVE OnTime
    <2>1. \A e \in atq \ atq' : e[2] = FrontTime
      BY <1>1 DEF AtRunJob, Fronts
    <2>2. FrontTime \in Nat /\ now[w] \in Nat /\ clock \in Nat
      BY <1>1, FrontLeast, WorkersAssumption DEF AtRunJob, IInv, TypeOK, Times
    <2>3. FrontTime <= now[w] /\ now[w] <= clock
      BY <1>1 DEF AtRunJob, IInv, NowPast
    <2> QED
      BY <2>1, <2>2, <2>3
  <1>2. ASSUME NEW w \in Workers, WorkerStep(w), ~AtRunJob(w) PROVE atq \subseteq atq'
    BY <1>2 DEF WorkerStep, YieldStep, queue_vars, OnlyPc, OnlyMutex,
       WorkerLock, TopShutdown, TopJob, TopIdle, PreWait, Count, CheckPending, Sleep, Woken,
       TimeOut, TimedOut, AtLock, AtRunDone, Uncount, Exit,
       YieldCall, RunScheduler, YieldLock, YieldDone
  <1>3. ASSUME NEW c \in Clients, ClientStep(c) PROVE atq \subseteq atq'
    BY <1>3 DEF ClientStep, YieldStep, queue_vars, work_vars, OnlyPc, OnlyMutex,
       LoadWaiting, Broadcast, YieldEnter, SetShutdown, Join, DropAgain, SpawnOne, SpawnDone,
       YieldCall, RunScheduler, YieldLock, YieldDone
  <1>4. ASSUME NEW c \in Clients, ClientCall(c) PROVE atq \subseteq atq'
    BY <1>4 DEF ClientCall, queue_vars, work_vars, OnlyPc, OnlyMutex,
       Call, CallAt, RegisterScheduler, CallOnSignal, IncrPending, Yield, Drop, Spawn
  <1>5. ASSUME (\E w \in Workers : SpuriousWakeup(w)) \/ Tick \/ UNCHANGED vars
        PROVE  atq \subseteq atq'
    BY <1>5 DEF SpuriousWakeup, OnlyPc, OnlyMutex, Tick, vars, queue_vars
  <1>6. IInv /\ [Next]_vars => [OnTime]_vars
    BY <1>1, <1>2, <1>3, <1>4, <1>5 DEF Next
  <1> QED
    BY <1>6, PoolInvariant, PTL DEF Spec, NotEarly
=============================================================================
