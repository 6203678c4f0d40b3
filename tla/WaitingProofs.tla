--------------------------- MODULE WaitingProofs ---------------------------
(***************************************************************************)
(* Proofs about what a thread waits for: counters (Cdisj), promises and    *)
(* read-write locks, for any finite set of threads, any counters and       *)
(* stripes, and any computations of which PromiseAssumption holds.         *)
(***************************************************************************)
EXTENDS MCWaiting, FiniteSetTheorems, SequenceTheorems, WellFoundedInduction, TLAPS

-----------------------------------------------------------------------------
(* Counters.                                                               *)

\* The program counters at which a thread holds its stripe's mutex.
HoldPCs == {"count", "test", "wait", "uncount", "unlock", "bcast", "release"}

\* The program counters at which a thread is counted in waiting_count.
CountedPCs == {"test", "wait", "sleep", "woken", "uncount"}

MutexHeld == \A t \in Threads : pc[t] \in HoldPCs => mutex[Stripe(t)] = t

\* NoLostWakeup, extended to a thread which has decided to sleep but still
\* holds the mutex.
WakeupComing ==
    \A t \in Threads :
        pc[t] \in {"wait", "sleep"} /\ ~cond[t] /\ cdisj[arg[t]] = 0
            => \E u \in Threads : WillBroadcast(u, Stripe(t))

\* The inductive invariant of Cdisj.
IInv == TypeOK /\ MutexHeld /\ WaitingCountExact /\ WakeupComing

-----------------------------------------------------------------------------
LEMMA StripeType == TypeOK => \A t \in Threads : Stripe(t) \in Stripes
  BY CdisjAssumption DEF TypeOK, Stripe

LEMMA CountedFinite == \A s : IsFiniteSet(Counted(s))
  <1>1. \A s : Counted(s) \subseteq Threads
    BY DEF Counted
  <1> QED
    BY <1>1, ThreadsFinite, FS_Subset

LEMMA CountedMember ==
    \A s : \A t \in Threads :
        t \in Counted(s) <=> pc[t] \in CountedPCs /\ Stripe(t) = s
  BY DEF Counted, CountedPCs

\* A step which moves no thread into or out of the counted set of any
\* stripe, and writes no waiting_count, keeps the counts exact.
LEMMA CountUnmoved ==
    ASSUME WaitingCountExact, UNCHANGED waiting_count,
           \A t \in Threads : \A s \in Stripes :
               (pc[t] \in CountedPCs /\ Stripe(t) = s)
               <=> (pc'[t] \in CountedPCs /\ Stripe(t)' = s)
    PROVE  WaitingCountExact'
  <1>1. \A s \in Stripes : Counted(s)' = Counted(s)
    BY DEF Counted, CountedPCs
  <1> QED
    BY <1>1 DEF WaitingCountExact

\* Initially nobody is counted, holds a mutex or sleeps.
LEMMA InitIInv == Init => IInv
  <1> SUFFICES ASSUME Init PROVE IInv
    OBVIOUS
  <1>1. TypeOK
    BY CdisjAssumption DEF Init, TypeOK, PCs
  <1>2. MutexHeld /\ WakeupComing
    BY DEF Init, MutexHeld, WakeupComing, HoldPCs
  <1>3. WaitingCountExact
    <2>1. \A s \in Stripes : Counted(s) = {}
      BY DEF Init, Counted
    <2> QED
      BY <2>1, FS_EmptySet DEF Init, WaitingCountExact
  <1> QED
    BY <1>1, <1>2, <1>3 DEF IInv

-----------------------------------------------------------------------------
\* Every step preserves the types; Uncount needs the counts to be exact, to
\* know that it does not take a waiting_count below zero.
LEMMA TypeStep == IInv /\ [Next]_vars => TypeOK'
  <1> SUFFICES ASSUME IInv, [Next]_vars PROVE TypeOK'
    OBVIOUS
  <1> USE CdisjAssumption
  <1>0. TypeOK /\ \A t \in Threads : Stripe(t) \in Stripes
    BY StripeType DEF IInv
  <1>1. ASSUME NEW t \in Threads, Call(t) PROVE TypeOK'
    BY <1>0, <1>1 DEF TypeOK, Call, Add1, Sub1, WaitCall, Goto, PCs, WaitPCs, BcastPCs
  <1>2. ASSUME NEW t \in Threads, Uncount(t) PROVE TypeOK'
    <2>1. t \in Counted(Stripe(t))
      BY <1>2 DEF Uncount, Counted
    <2>2. Cardinality(Counted(Stripe(t))) # 0
      BY <2>1, CountedFinite, FS_EmptySet
    <2>3. waiting_count[Stripe(t)] \in Nat \ {0}
      BY <1>0, <2>2 DEF IInv, WaitingCountExact, TypeOK
    <2> QED
      BY <1>0, <1>2, <2>3 DEF TypeOK, Uncount, Goto, PCs, WaitPCs
  <1>3. ASSUME NEW t \in Threads,
               \/ LoadWaiting(t) \/ BcastLock(t) \/ BcastUnlock(t)
               \/ Yield(t) \/ WaitLock(t) \/ Count(t) \/ Test(t) \/ CondWait(t)
               \/ Relock(t) \/ WaitUnlock(t) \/ Return(t) \/ SpuriousWakeup(t)
        PROVE  TypeOK'
    BY <1>0, <1>3 DEF TypeOK, LoadWaiting, BcastLock, BcastUnlock, Yield,
        WaitLock, Count, Test, CondWait, Relock, WaitUnlock, Return,
        SpuriousWakeup, Lock, Unlock, Goto, PCs, WaitPCs, BcastPCs
  <1>4. ASSUME NEW t \in Threads, Broadcast(t) PROVE TypeOK'
    BY <1>0, <1>4 DEF TypeOK, Broadcast, PCs, WaitPCs, BcastPCs
  <1>5. CASE UNCHANGED vars
    BY <1>0, <1>5 DEF TypeOK, vars
  <1> QED
    BY <1>1, <1>2, <1>3, <1>4, <1>5 DEF Next, Step

\* A mutex is given up only by its holder, so two threads never hold one.
LEMMA MutexStep == IInv /\ [Next]_vars => MutexHeld'
  <1> SUFFICES ASSUME IInv, [Next]_vars PROVE MutexHeld'
    OBVIOUS
  <1> USE CdisjAssumption
  <1>0. TypeOK /\ MutexHeld /\ \A t \in Threads : Stripe(t) \in Stripes
    BY StripeType DEF IInv
  <1>1. ASSUME NEW t \in Threads, Call(t) PROVE MutexHeld'
    BY <1>0, <1>1 DEF TypeOK, MutexHeld, HoldPCs, Stripe,
        Call, Add1, Sub1, WaitCall, Goto
  <1>2. ASSUME NEW t \in Threads,
               BcastLock(t) \/ WaitLock(t) \/ Relock(t)
        PROVE  MutexHeld'
    BY <1>0, <1>2 DEF TypeOK, MutexHeld, HoldPCs, Stripe,
        BcastLock, WaitLock, Relock, Lock, Goto
  <1>3. ASSUME NEW t \in Threads,
               BcastUnlock(t) \/ WaitUnlock(t) \/ CondWait(t)
        PROVE  MutexHeld'
    BY <1>0, <1>3 DEF TypeOK, MutexHeld, HoldPCs, Stripe,
        BcastUnlock, WaitUnlock, CondWait, Unlock, Goto
  <1>4. ASSUME NEW t \in Threads,
               \/ LoadWaiting(t) \/ Yield(t) \/ Count(t) \/ Test(t)
               \/ Uncount(t) \/ Return(t) \/ SpuriousWakeup(t)
        PROVE  MutexHeld'
    BY <1>0, <1>4 DEF TypeOK, MutexHeld, HoldPCs, Stripe,
        LoadWaiting, Yield, Count, Test, Uncount, Return, SpuriousWakeup, Goto
  <1>5. ASSUME NEW t \in Threads, Broadcast(t) PROVE MutexHeld'
    BY <1>0, <1>5 DEF TypeOK, MutexHeld, HoldPCs, Stripe, Broadcast
  <1>6. CASE UNCHANGED vars
    BY <1>0, <1>6 DEF MutexHeld, Stripe, vars
  <1> QED
    BY <1>1, <1>2, <1>3, <1>4, <1>5, <1>6 DEF Next, Step

\* Only Count and Uncount move a thread into and out of the counted set.
LEMMA CountStep == IInv /\ [Next]_vars => WaitingCountExact'
  <1> SUFFICES ASSUME IInv, [Next]_vars PROVE WaitingCountExact'
    OBVIOUS
  <1> USE CdisjAssumption
  <1>0. /\ TypeOK /\ WaitingCountExact
        /\ \A t \in Threads : Stripe(t) \in Stripes
    BY StripeType DEF IInv
  <1>1. ASSUME NEW t \in Threads, Call(t) PROVE WaitingCountExact'
    <2>1. UNCHANGED waiting_count
      BY <1>1 DEF Call, Add1, Sub1, WaitCall
    <2>2. \A u \in Threads : \A s \in Stripes :
               (pc[u] \in CountedPCs /\ Stripe(u) = s)
               <=> (pc'[u] \in CountedPCs /\ Stripe(u)' = s)
      BY <1>0, <1>1 DEF Call, Add1, Sub1, WaitCall, Goto, TypeOK, CountedPCs, Stripe
    <2> QED
      BY <1>0, <2>1, <2>2, CountUnmoved
  <1>2. ASSUME NEW t \in Threads, Count(t) PROVE WaitingCountExact'
    <2>1. ASSUME NEW s \in Stripes, s # Stripe(t)
          PROVE  waiting_count'[s] = waiting_count[s] /\ Counted(s)' = Counted(s)
      BY <1>0, <1>2, <2>1 DEF Count, Goto, TypeOK, Counted, Stripe
    <2>2. waiting_count'[Stripe(t)] = waiting_count[Stripe(t)] + 1
      BY <1>0, <1>2 DEF Count, TypeOK
    <2>3. /\ t \notin Counted(Stripe(t))
          /\ Counted(Stripe(t))' = Counted(Stripe(t)) \cup {t}
      BY <1>0, <1>2 DEF Count, Goto, TypeOK, Counted, Stripe
    <2>4. Cardinality(Counted(Stripe(t)) \cup {t})
            = Cardinality(Counted(Stripe(t))) + 1
      BY <2>3, CountedFinite, FS_AddElement
    <2>5. Stripe(t)' = Stripe(t)
      BY <1>2 DEF Count, Stripe
    <2> QED
      BY <1>0, <2>1, <2>2, <2>3, <2>4, <2>5 DEF WaitingCountExact
  <1>3. ASSUME NEW t \in Threads, Uncount(t) PROVE WaitingCountExact'
    <2>1. ASSUME NEW s \in Stripes, s # Stripe(t)
          PROVE  waiting_count'[s] = waiting_count[s] /\ Counted(s)' = Counted(s)
      BY <1>0, <1>3, <2>1 DEF Uncount, Goto, TypeOK, Counted, Stripe
    <2>2. waiting_count'[Stripe(t)] = waiting_count[Stripe(t)] - 1
      BY <1>0, <1>3 DEF Uncount, TypeOK
    <2>3. /\ t \in Counted(Stripe(t))
          /\ Counted(Stripe(t))' = Counted(Stripe(t)) \ {t}
      BY <1>0, <1>3 DEF Uncount, Goto, TypeOK, Counted, Stripe
    <2>4. Cardinality(Counted(Stripe(t)) \ {t})
            = Cardinality(Counted(Stripe(t))) - 1
      BY <2>3, CountedFinite, FS_RemoveElement
    <2>5. Stripe(t)' = Stripe(t)
      BY <1>3 DEF Uncount, Stripe
    <2> QED
      BY <1>0, <2>1, <2>2, <2>3, <2>4, <2>5 DEF WaitingCountExact
  <1>4. ASSUME NEW t \in Threads,
               \/ LoadWaiting(t) \/ BcastLock(t) \/ BcastUnlock(t)
               \/ Yield(t) \/ WaitLock(t) \/ Test(t) \/ CondWait(t)
               \/ Relock(t) \/ WaitUnlock(t) \/ Return(t) \/ SpuriousWakeup(t)
        PROVE  WaitingCountExact'
    <2>1. UNCHANGED <<waiting_count, arg>>
      BY <1>4 DEF LoadWaiting, BcastLock, BcastUnlock, Yield, WaitLock, Test,
        CondWait, Relock, WaitUnlock, Return, SpuriousWakeup, Lock, Unlock
    <2>2. \A u \in Threads : pc[u] \in CountedPCs <=> pc'[u] \in CountedPCs
      BY <1>0, <1>4 DEF LoadWaiting, BcastLock, BcastUnlock, Yield, WaitLock,
        Test, CondWait, Relock, WaitUnlock, Return, SpuriousWakeup, Lock,
        Unlock, Goto, TypeOK, CountedPCs
    <2> QED
      BY <1>0, <2>1, <2>2, CountUnmoved DEF Stripe
  <1>5. ASSUME NEW t \in Threads, Broadcast(t) PROVE WaitingCountExact'
    <2>1. UNCHANGED <<waiting_count, arg>>
      BY <1>5 DEF Broadcast
    <2>2. \A u \in Threads : pc[u] \in CountedPCs <=> pc'[u] \in CountedPCs
      BY <1>0, <1>5 DEF Broadcast, TypeOK, CountedPCs
    <2> QED
      BY <1>0, <2>1, <2>2, CountUnmoved DEF Stripe
  <1>6. CASE UNCHANGED vars
    BY <1>0, <1>6, CountUnmoved DEF vars, Stripe
  <1> QED
    BY <1>1, <1>2, <1>3, <1>4, <1>5, <1>6 DEF Next, Step

\* The interesting steps: LoadWaiting may give up only if nobody is counted
\* (WaitingCountExact), and Broadcast reaches every sleeper because nobody
\* stands between its test and its sleep while the mutex is held (MutexHeld).
LEMMA WakeupStep == IInv /\ [Next]_vars => WakeupComing'
  <1> SUFFICES ASSUME IInv, [Next]_vars PROVE WakeupComing'
    OBVIOUS
  <1> USE CdisjAssumption
  <1>0. /\ TypeOK /\ WakeupComing /\ MutexHeld
        /\ \A t \in Threads : Stripe(t) \in Stripes
    BY StripeType DEF IInv
  <1>1. ASSUME NEW t \in Threads, NEW c \in Cdisjs, Add1(t, c)
        PROVE  WakeupComing'
    BY <1>0, <1>1 DEF Add1, TypeOK, WakeupComing, WillBroadcast, Stripe
  <1>2. ASSUME NEW t \in Threads, NEW c \in Cdisjs, Sub1(t, c)
        PROVE  WakeupComing'
    <2> SUFFICES ASSUME NEW w \in Threads, pc'[w] \in {"wait", "sleep"},
                        ~cond'[w], cdisj'[arg'[w]] = 0
                 PROVE  \E u \in Threads : WillBroadcast(u, Stripe(w))'
      BY DEF WakeupComing
    <2>1. w # t /\ arg'[w] = arg[w] /\ pc'[w] = pc[w] /\ cond'[w] = cond[w]
      BY <1>0, <1>2 DEF Sub1, Goto, TypeOK
    <2>2. CASE arg[w] = c
      <3>1. cdisj[c] = 1
        BY <1>0, <1>2, <2>1, <2>2 DEF Sub1, TypeOK
      <3>2. pc'[t] = "load" /\ arg'[t] = c
        BY <1>0, <1>2, <3>1 DEF Sub1, Goto, TypeOK
      <3> QED
        BY <2>1, <2>2, <3>2 DEF WillBroadcast, Stripe
    <2>3. CASE arg[w] # c
      <3>1. cdisj[arg[w]] = 0
        BY <1>0, <1>2, <2>1, <2>3 DEF Sub1, TypeOK
      <3>2. PICK u \in Threads : WillBroadcast(u, Stripe(w))
        BY <1>0, <2>1, <3>1 DEF WakeupComing
      <3>3. u # t /\ pc'[u] = pc[u] /\ arg'[u] = arg[u]
        BY <1>0, <1>2, <3>2 DEF Sub1, Goto, TypeOK, WillBroadcast
      <3> QED
        BY <2>1, <3>2, <3>3 DEF WillBroadcast, Stripe
    <2> QED
      BY <2>2, <2>3
  <1>3. ASSUME NEW t \in Threads, NEW c \in Cdisjs, NEW w \in CondVals,
               WaitCall(t, c, w)
        PROVE  WakeupComing'
    BY <1>0, <1>3 DEF WaitCall, Goto, TypeOK, WakeupComing, WillBroadcast, Stripe
  <1>4. ASSUME NEW t \in Threads, LoadWaiting(t) PROVE WakeupComing'
    <2>1. CASE waiting_count[Stripe(t)] # 0
      BY <1>0, <1>4, <2>1
      DEF LoadWaiting, Goto, TypeOK, WakeupComing, WillBroadcast, Stripe
    <2>2. CASE waiting_count[Stripe(t)] = 0
      <3>1. Counted(Stripe(t)) = {}
        BY <1>0, <2>2, CountedFinite, FS_EmptySet DEF IInv, WaitingCountExact
      <3>2. \A w \in Threads : pc[w] \in {"wait", "sleep"} => Stripe(w) # Stripe(t)
        BY <3>1 DEF Counted
      <3> QED
        BY <1>0, <1>4, <3>2
        DEF LoadWaiting, Goto, TypeOK, WakeupComing, WillBroadcast, Stripe
    <2> QED
      BY <2>1, <2>2
  <1>5. ASSUME NEW t \in Threads, Broadcast(t) PROVE WakeupComing'
    <2> SUFFICES ASSUME NEW w \in Threads, pc'[w] \in {"wait", "sleep"},
                        ~cond'[w], cdisj'[arg'[w]] = 0
                 PROVE  \E u \in Threads : WillBroadcast(u, Stripe(w))'
      BY DEF WakeupComing
    <2>1. w # t /\ pc[w] = pc'[w]
      BY <1>0, <1>5 DEF Broadcast, TypeOK
    <2>2. Stripe(w) # Stripe(t)
      <3>1. pc[w] = "sleep" => Stripe(w) # Stripe(t)
        BY <1>0, <1>5, <2>1 DEF Broadcast, TypeOK
      <3>2. pc[w] = "wait" => Stripe(w) # Stripe(t)
        BY <1>0, <1>5, <2>1 DEF Broadcast, MutexHeld, HoldPCs
      <3> QED
        BY <2>1, <3>1, <3>2
    <2>3. PICK u \in Threads : WillBroadcast(u, Stripe(w))
      BY <1>0, <1>5, <2>1 DEF WakeupComing, Broadcast
    <2>4. pc'[u] = pc[u] /\ UNCHANGED arg
      BY <1>0, <1>5, <2>2, <2>3 DEF Broadcast, WillBroadcast, TypeOK
    <2> QED
      BY <2>3, <2>4 DEF WillBroadcast, Stripe
  <1>6. ASSUME NEW t \in Threads,
               \/ BcastLock(t) \/ BcastUnlock(t) \/ Yield(t) \/ WaitLock(t)
               \/ Count(t) \/ CondWait(t) \/ Relock(t) \/ Uncount(t)
               \/ WaitUnlock(t) \/ Return(t) \/ SpuriousWakeup(t)
        PROVE  WakeupComing'
    BY <1>0, <1>6 DEF BcastLock, BcastUnlock, Yield, WaitLock, Count, CondWait,
        Relock, Uncount, WaitUnlock, Return, SpuriousWakeup, Lock, Unlock, Goto,
        TypeOK, WakeupComing, WillBroadcast, Stripe
  <1>7. ASSUME NEW t \in Threads, Test(t) PROVE WakeupComing'
    BY <1>0, <1>7 DEF Test, Goto, TypeOK, WakeupComing, WillBroadcast, Stripe
  <1>8. CASE UNCHANGED vars
    BY <1>0, <1>8 DEF vars, WakeupComing, WillBroadcast, Stripe
  <1> QED
    BY <1>1, <1>2, <1>3, <1>4, <1>5, <1>6, <1>7, <1>8 DEF Next, Call, Step

-----------------------------------------------------------------------------
(* IInv is an invariant of the specification.                              *)
THEOREM Inductive == Spec => []IInv
  <1>1. IInv /\ [Next]_vars => IInv'
    BY TypeStep, MutexStep, CountStep, WakeupStep DEF IInv
  <1> QED
    BY InitIInv, <1>1, PTL DEF Spec

(* Every state has the declared types; in particular waiting_count is      *)
(* never decremented below zero.                                           *)
THEOREM TypeCorrect == Spec => []TypeOK
  <1>1. IInv => TypeOK
    BY DEF IInv
  <1> QED
    BY Inductive, <1>1, PTL

(* waiting_count of a stripe is exactly the number of threads inside       *)
(* cuflowP_cdisj_wait_while between its increment and its decrement.       *)
THEOREM CountsExact == Spec => []WaitingCountExact
  <1>1. IInv => WaitingCountExact
    BY DEF IInv
  <1> QED
    BY Inductive, <1>1, PTL

(* No wakeup is lost: a thread asleep in wait_while on a counter that is   *)
(* zero has some thread on its way to broadcast on its stripe.             *)
THEOREM NoWakeupIsLost == Spec => []NoLostWakeup
  <1>1. IInv => NoLostWakeup
    BY DEF IInv, WakeupComing, NoLostWakeup
  <1> QED
    BY Inductive, <1>1, PTL

-----------------------------------------------------------------------------
(* Promises.                                                               *)

\* The threads that carry the computation on: one runs the initiator, or a
\* job, and no job is queued meanwhile.
Carriers == {t \in Threads : ppc[t] \in PR!JobPCs \cup {"initiator"}}

\* Those whose transition of the state is still to be made.
Pending == {t \in Threads : ppc[t] \in {"job", "setlock", "store"}}

PromiseTypes ==
    /\ plan \in Plans
    /\ state \in Nat /\ done \in Nat
    /\ queued \in BOOLEAN /\ linked \in BOOLEAN
    /\ pmutex \in Threads \cup {NoThread}
    /\ ppc \in [Threads -> {"idle", "read", "scan", "done"} \cup PR!WaitPCs \cup PR!JobPCs]
    /\ old \in [Threads -> Nat]
    /\ resume \in [Threads -> {"idle", "relock"}]
    /\ DOMAIN value = Threads

OneCarrier ==
    /\ \A t, u \in Carriers : t = u
    /\ queued => Carriers = {} /\ linked /\ done < Len(plan)
    /\ state = PR!latent => Carriers = {} /\ ~ queued /\ done = 0
    /\ done <= Len(plan)

\* What holds where a thread is.
PromiseAt(t) ==
    /\ ppc[t] \in {"enter", "test", "yield"} => pmutex = t
    /\ ppc[t] = "initiator" => done = 0
    /\ ppc[t] \in PR!JobPCs => done >= 1
    /\ ppc[t] \in {"setlock", "store"} => PR!Step[1] # "inc" /\ state < PR!Target
    /\ ppc[t] = "store" => PR!Target < Fulfilled \/ state >= Fulfilled
    /\ ppc[t] = "setlock" => PR!Target >= Fulfilled
    /\ ppc[t] = "incbroadcast" => PR!Step[1] = "inc" /\ old[t] = state
    /\ ppc[t] \in {"return", "done"} => state >= Want[t]

PromiseLocal == \A t \in Threads : PromiseAt(t)

\* The transitions still to come keep the state below fulfilled, so that it is
\* set_fulfilled that passes to it, with the mutex, after the value.
StateBound ==
    /\ state + (Len(plan) - done) <= Fulfilled
    /\ Pending # {} => state + (Len(plan) - done) < Fulfilled
    /\ state >= Fulfilled => u0 = plan[Len(plan)][2]

ValueAt(t) ==
    /\ ppc[t] # "unlink"
    /\ Want[t] = Fulfilled =>
        /\ ppc[t] = "yield" => state < Fulfilled
        /\ ppc[t] = "sleep" /\ state >= Fulfilled => \E u \in Threads : ppc[u] = "broadcast"
        /\ ppc[t] = "done" => value[t] = plan[Len(plan)][2]

ValueComing == PR!HasValue => StateBound /\ \A t \in Threads : ValueAt(t)

\* The hint and the copies of it.
HintTypes ==
    /\ hint \in Int /\ slip \in BOOLEAN
    /\ gp \in [Threads -> Int] /\ cutoff \in [Threads -> Int]

PromiseInv == PromiseTypes /\ OneCarrier /\ PromiseLocal /\ ValueComing

LEMMA PlanFacts ==
    ASSUME PromiseTypes, PromiseLocal, OneCarrier
    PROVE  /\ Fulfilled \in Nat /\ \A t \in Threads : Want[t] \in Nat
           /\ Len(plan) \in Nat /\ Len(plan) >= 1 /\ state \in Nat /\ done \in Nat
           /\ PR!HasValue => Len(plan) < Fulfilled
           /\ PR!latent = 0 /\ PR!initiated = 1
           /\ NoThread \notin Threads
  <1>1. Fulfilled \in Nat /\ Want \in [Threads -> Nat]
    BY PromiseAssumption
  <1>2. plan \in Plans /\ state \in Nat /\ done \in Nat
    BY DEF PromiseTypes
  <1>3. Len(plan) \in Nat \ {0} /\ (PR!HasValue => Len(plan) < Fulfilled)
    BY <1>2, PromiseAssumption DEF PR!HasValue
  <1> QED
    BY <1>1, <1>2, <1>3, CdisjAssumption DEF PR!latent, PR!initiated

\* The transition of a job.
LEMMA StepFacts ==
    ASSUME PromiseTypes, done >= 1, done <= Len(plan)
    PROVE  /\ PR!Step[1] \in {"set", "inc", "fulfil"}
           /\ PR!Step[1] # "inc" => PR!Target \in Nat
           /\ PR!Step[1] = "fulfil" => PR!Target = Fulfilled
           /\ PR!HasValue =>
                /\ done = Len(plan) => PR!Step[1] = "fulfil" /\ PR!Step[2] = plan[Len(plan)][2]
                /\ PR!Step[1] = "fulfil" => done = Len(plan)
                /\ PR!Step[1] = "set" => PR!Target + (Len(plan) - done) <= Fulfilled
  <1>1. plan \in Plans /\ done \in Nat /\ Fulfilled \in Nat
    BY PromiseAssumption DEF PromiseTypes
  <1>2. Len(plan) \in Nat \ {0}
    BY <1>1, PromiseAssumption
  <1>3. done \in 1 .. Len(plan)
    BY <1>1, <1>2
  <1>4. /\ plan[done][1] \in {"set", "inc", "fulfil"}
        /\ plan[done][1] = "set" => plan[done][2] \in Nat
        /\ plan[Len(plan)][1] = "fulfil" /\ done < Len(plan) =>
              /\ plan[done][1] # "fulfil"
              /\ plan[done][1] = "set" => plan[done][2] + (Len(plan) - done) <= Fulfilled
    BY <1>1, <1>3, PromiseAssumption
  <1> QED
    BY <1>1, <1>2, <1>3, <1>4 DEF PR!Step, PR!Target, PR!HasValue

\* The others stay where they are, but those who are woken.
Beside(t) ==
    \A u \in Threads : u # t =>
        /\ ppc'[u] = ppc[u] \/ (ppc[u] = "sleep" /\ ppc'[u] = "woken")
        /\ old'[u] = old[u] /\ value'[u] = value[u]

LEMMA CarriersBeside ==
    ASSUME NEW t \in Threads, Beside(t)
    PROVE  \A u \in Threads : u # t =>
                /\ u \in Carriers' <=> u \in Carriers
                /\ u \in Pending' <=> u \in Pending
  BY DEF Beside, Carriers, Pending, PR!JobPCs

LEMMA OthersAt ==
    ASSUME PromiseInv, PromiseTypes', NEW t \in Threads, NEW u \in Threads, u # t, UNCHANGED plan, Beside(t),
           pmutex' = pmutex \/ pmutex \in {t, NoThread},
           state' >= state,
           (state' = state /\ done' = done) \/ u \notin Carriers
    PROVE  PromiseAt(u)'
  <1>1. PromiseAt(u) /\ state \in Nat /\ state' \in Nat /\ Want[u] \in Nat
    BY PromiseAssumption DEF PromiseInv, PromiseLocal, PromiseTypes
  <1>2. ppc'[u] = ppc[u] \/ ppc'[u] = "woken"
    BY DEF Beside
  <1>3. CASE ppc'[u] = "woken"
    BY <1>3 DEF PromiseAt, PR!JobPCs
  <1>4. CASE ppc'[u] = ppc[u]
    <2>1. ppc'[u] \in {"enter", "test", "yield"} => pmutex' = u
      BY <1>1, <1>4, CdisjAssumption DEF PromiseAt
    <2>2. ppc'[u] \in {"return", "done"} => state' >= Want[u]
      BY <1>1, <1>4 DEF PromiseAt
    <2>4. u \in Carriers => state' = state /\ done' = done /\ old'[u] = old[u]
      BY DEF Beside
    <2>5. CASE u \notin Carriers
      <3>1. ppc'[u] \notin PR!JobPCs /\ ppc'[u] # "initiator"
        BY <1>4, <2>5 DEF Carriers
      <3> QED
        BY <2>1, <2>2, <3>1 DEF PromiseAt, PR!JobPCs
    <2>6. CASE u \in Carriers
      <3>1. PR!Step' = PR!Step /\ PR!Target' = PR!Target
        BY <2>4, <2>6 DEF PR!Step, PR!Target
      <3> QED
        BY <1>1, <1>4, <2>1, <2>2, <2>4, <2>6, <3>1 DEF PromiseAt
    <2> QED
      BY <2>5, <2>6
  <1> QED
    BY <1>2, <1>3, <1>4

LEMMA OthersValue ==
    ASSUME PromiseInv, PR!HasValue, PromiseTypes', NEW t \in Threads, NEW u \in Threads, u # t, Beside(t),
           state' >= Fulfilled => state' = state \/ ppc[u] # "yield",
           state' >= Fulfilled => \/ ppc'[t] = "broadcast"
                                  \/ state' = state /\ ppc[t] # "broadcast"
                                  \/ ppc'[u] # "sleep",
           UNCHANGED plan
    PROVE  ValueAt(u)'
  <1>1. ValueAt(u) /\ state \in Nat /\ state' \in Nat /\ Fulfilled \in Nat
    BY PromiseAssumption DEF PromiseInv, ValueComing, PromiseTypes
  <1>2. (ppc'[u] = ppc[u] \/ ppc'[u] = "woken") /\ value'[u] = value[u]
    BY DEF Beside
  <1>3. ppc'[u] # "unlink"
    BY <1>1, <1>2 DEF ValueAt
  <1>4. ASSUME Want[u] = Fulfilled, ppc'[u] = "yield" PROVE state' < Fulfilled
    BY <1>1, <1>2, <1>4 DEF ValueAt
  <1>5. ASSUME Want[u] = Fulfilled, ppc'[u] = "done" PROVE value'[u] = plan'[Len(plan')][2]
    BY <1>1, <1>2, <1>5 DEF ValueAt
  <1>6. ASSUME Want[u] = Fulfilled, ppc'[u] = "sleep", state' >= Fulfilled
        PROVE  \E x \in Threads : ppc'[x] = "broadcast"
    <2>1. CASE ppc'[t] = "broadcast"
      BY <2>1
    <2>2. CASE state' = state /\ ppc[t] # "broadcast"
      <3>1. ppc[u] = "sleep"
        BY <1>2, <1>6
      <3>2. PICK x \in Threads : ppc[x] = "broadcast"
        BY <1>1, <1>6, <2>2, <3>1 DEF ValueAt
      <3>3. ppc'[x] = "broadcast"
        BY <2>2, <3>2 DEF Beside
      <3> QED
        BY <3>3
    <2> QED
      BY <1>6, <2>1, <2>2
  <1> QED
    BY <1>3, <1>4, <1>5, <1>6 DEF ValueAt

\* What a step has to show.
LEMMA PromiseStep ==
    ASSUME PromiseInv, NEW t \in Threads, PromiseTypes', UNCHANGED plan, Beside(t),
           pmutex' = pmutex \/ pmutex \in {t, NoThread},
           state' >= state,
           (state' = state /\ done' = done) \/ Carriers \subseteq {t},
           OneCarrier', PromiseAt(t)',
           PR!HasValue => StateBound' /\ ValueAt(t)',
           PR!HasValue /\ state' >= Fulfilled =>
                state' = state \/ \A u \in Threads : u # t => ppc[u] # "yield",
           PR!HasValue /\ state' >= Fulfilled =>
                \/ ppc'[t] = "broadcast"
                \/ state' = state /\ ppc[t] # "broadcast"
                \/ \A u \in Threads : u # t => ppc'[u] # "sleep"
    PROVE  PromiseInv'
  <1>1. PromiseLocal'
    <2>1. ASSUME NEW u \in Threads, u # t PROVE PromiseAt(u)'
      BY <2>1, OthersAt
    <2> QED
      BY <2>1 DEF PromiseLocal
  <1>2. PR!HasValue' <=> PR!HasValue
    BY DEF PR!HasValue
  <1>3. ValueComing'
    <2> SUFFICES ASSUME PR!HasValue PROVE StateBound' /\ \A u \in Threads : ValueAt(u)'
      BY <1>2 DEF ValueComing
    <2>1. ASSUME NEW u \in Threads, u # t PROVE ValueAt(u)'
      BY <2>1, OthersValue
    <2> QED
      BY <2>1
  <1> QED
    BY <1>1, <1>3 DEF PromiseInv

\* A step which leaves the computation where it is.
LEMMA QuietStep ==
    ASSUME PromiseInv, NEW t \in Threads, PromiseTypes', UNCHANGED <<plan, state, u0, done, queued>>,
           Beside(t),
           pmutex' = pmutex \/ pmutex \in {t, NoThread},
           linked' = linked \/ (~ linked' /\ ~ queued),
           t \in Carriers' <=> t \in Carriers,
           t \in Pending' => t \in Pending,
           PromiseAt(t)', PR!HasValue => ValueAt(t)',
           ppc[t] # "broadcast" \/ \A u \in Threads : u # t => ppc'[u] # "sleep"
    PROVE  PromiseInv'
  <1>1. \A u \in Threads : u # t =>
            /\ u \in Carriers' <=> u \in Carriers
            /\ u \in Pending' <=> u \in Pending
    BY CarriersBeside
  <1>2. Carriers \subseteq Threads /\ Pending \subseteq Threads
        /\ Carriers' \subseteq Threads /\ Pending' \subseteq Threads
    BY DEF Carriers, Pending
  <1>3. Carriers' = Carriers /\ Pending' \subseteq Pending
    BY <1>1, <1>2
  <1>4. OneCarrier'
    BY <1>3 DEF PromiseInv, OneCarrier, PR!latent
  <1>5. PR!HasValue => StateBound'
    BY <1>3 DEF PromiseInv, ValueComing, StateBound
  <1>6. state \in Nat
    BY DEF PromiseInv, PromiseTypes
  <1> QED
    BY <1>4, <1>5, <1>6, PromiseStep

\* Facts about a thread which every step uses.
LEMMA ThreadFacts ==
    ASSUME PromiseInv, NEW t \in Threads
    PROVE  /\ PromiseAt(t) /\ DOMAIN ppc = Threads /\ DOMAIN old = Threads /\ DOMAIN resume = Threads
           /\ DOMAIN value = Threads /\ state \in Nat /\ done \in Nat
           /\ PR!HasValue => ValueAt(t) /\ StateBound
           /\ Fulfilled \in Nat /\ Want[t] \in Nat /\ PR!latent = 0 /\ PR!initiated = 1
           /\ Len(plan) \in Nat /\ Len(plan) >= 1 /\ NoThread \notin Threads
           /\ PR!HasValue => Len(plan) < Fulfilled
  BY PlanFacts DEF PromiseInv, PromiseTypes, PromiseLocal, ValueComing

\* The steps which take the mutex.
LEMMA MutexTaken ==
    ASSUME PromiseInv, NEW t \in Threads, PR!ProcessLock(t) \/ PR!Relock(t) \/ PR!Woken(t)
    PROVE  PromiseInv'
  <1>1. PICK l \in {"enter", "test"} :
            /\ ppc[t] \in {"lock", "relock", "woken"} /\ pmutex = NoThread /\ pmutex' = t
            /\ ppc' = [ppc EXCEPT ![t] = l]
            /\ UNCHANGED <<plan, state, u0, done, queued, linked, old, resume, value>>
    BY DEF PR!ProcessLock, PR!Relock, PR!Woken, PR!Lock, PR!Goto, PR!promise, PR!queue, PR!local
  <1>2. ppc'[t] = l
    BY <1>1, ThreadFacts
  <1>3. Beside(t)
    BY <1>1, ThreadFacts DEF Beside
  <1>4. PromiseTypes'
    BY <1>1 DEF PromiseInv, PromiseTypes, PR!WaitPCs, PR!JobPCs
  <1>5. t \notin Carriers /\ t \notin Carriers' /\ t \notin Pending'
    BY <1>1, <1>2 DEF Carriers, Pending, PR!JobPCs
  <1>6. PromiseAt(t)'
    BY <1>1, <1>2 DEF PromiseAt, PR!JobPCs
  <1>7. ValueAt(t)'
    BY <1>2 DEF ValueAt
  <1> QED
    BY <1>1, <1>3, <1>4, <1>5, <1>6, <1>7, QuietStep

\* The steps of a thread by itself which read at most the state.
LEMMA LocalSteps ==
    ASSUME PromiseInv, NEW t \in Threads,
           PR!Process(t) \/ PR!Test(t) \/ PR!SpuriousWakeup(t) \/ PR!Return(t)
    PROVE  PromiseInv'
  <1>1. /\ UNCHANGED <<plan, state, u0, done, queued, linked, old, resume>>
        /\ \/ /\ ppc[t] = "idle" /\ UNCHANGED <<pmutex, value>>
              /\ ppc' = [ppc EXCEPT ![t] = IF state < Want[t] THEN "lock" ELSE "return"]
           \/ /\ ppc[t] = "test" /\ state < Want[t] /\ UNCHANGED <<pmutex, value>>
              /\ ppc' = [ppc EXCEPT ![t] = "yield"]
           \/ /\ ppc[t] = "test" /\ ~ (state < Want[t]) /\ pmutex' = NoThread /\ UNCHANGED value
              /\ ppc' = [ppc EXCEPT ![t] = "return"]
           \/ /\ ppc[t] = "sleep" /\ UNCHANGED <<pmutex, value>>
              /\ ppc' = [ppc EXCEPT ![t] = "woken"]
           \/ /\ ppc[t] = "return" /\ UNCHANGED pmutex
              /\ value' = [value EXCEPT ![t] = IF Want[t] = Fulfilled THEN u0 ELSE "none"]
              /\ ppc' = [ppc EXCEPT ![t] = "done"]
    BY DEF PR!Process, PR!Test, PR!SpuriousWakeup, PR!Return, PR!Goto, PR!promise, PR!queue, PR!local
  <1>2. \/ ppc[t] = "idle" /\ pmutex' = pmutex /\ state < Want[t] /\ ppc'[t] = "lock"
        \/ ppc[t] = "idle" /\ pmutex' = pmutex /\ ~ (state < Want[t]) /\ ppc'[t] = "return"
        \/ ppc[t] = "test" /\ pmutex' = pmutex /\ state < Want[t] /\ ppc'[t] = "yield"
        \/ ppc[t] = "test" /\ pmutex' = NoThread /\ ~ (state < Want[t]) /\ ppc'[t] = "return"
        \/ ppc[t] = "sleep" /\ pmutex' = pmutex /\ ppc'[t] = "woken"
        \/ /\ ppc[t] = "return" /\ pmutex' = pmutex /\ ppc'[t] = "done"
           /\ Want[t] = Fulfilled => value'[t] = u0
    BY <1>1, ThreadFacts
  <1>3. Beside(t)
    BY <1>1, ThreadFacts DEF Beside
  <1>4. PromiseTypes'
    BY <1>1 DEF PromiseInv, PromiseTypes, PR!WaitPCs, PR!JobPCs
  <1>5. t \notin Carriers /\ t \notin Carriers' /\ t \notin Pending'
    BY <1>2 DEF Carriers, Pending, PR!JobPCs
  <1>6. PromiseAt(t)'
    <2>1. PromiseAt(t) /\ state \in Nat /\ Want[t] \in Nat
      BY ThreadFacts
    <2> QED
      BY <1>1, <1>2, <2>1 DEF PromiseAt, PR!JobPCs
  <1>7. PR!HasValue => ValueAt(t)'
    <2> SUFFICES ASSUME PR!HasValue PROVE ValueAt(t)'
      OBVIOUS
    <2>1. /\ PromiseAt(t) /\ StateBound /\ state \in Nat /\ Fulfilled \in Nat /\ Want[t] \in Nat
      BY ThreadFacts
    <2>2. ppc'[t] # "unlink" /\ ppc'[t] # "sleep"
      BY <1>2
    <2>3. Want[t] = Fulfilled /\ ppc'[t] = "yield" => state' < Fulfilled
      BY <1>1, <1>2, <2>1
    <2>4. Want[t] = Fulfilled /\ ppc'[t] = "done" => value'[t] = plan'[Len(plan')][2]
      BY <1>1, <1>2, <2>1 DEF PromiseAt, StateBound
    <2> QED
      BY <2>2, <2>3, <2>4 DEF ValueAt
  <1>8. ppc[t] # "broadcast"
    BY <1>2
  <1>9. /\ pmutex' = pmutex \/ pmutex \in {t, NoThread}
        /\ UNCHANGED <<plan, state, u0, done, queued>> /\ linked' = linked
    <2>1. PromiseAt(t)
      BY ThreadFacts
    <2>2. ppc[t] = "test" => pmutex = t
      BY <2>1 DEF PromiseAt
    <2> QED
      BY <1>1, <1>2, <2>2
  <1> QED
    BY ONLY <1>9, PromiseInv, <1>3, <1>4, <1>5, <1>6, <1>7, <1>8, t \in Threads, QuietStep

\* The steps of a helper which read the hint.
LEMMA HintRead ==
    ASSUME PromiseInv, NEW t \in Threads, PR!Help(t) \/ PR!ReadHint(t)
    PROVE  PromiseInv'
  <1>1. PICK l \in {"read", "scan"} :
            /\ ppc[t] \in {"idle", "read"} /\ ppc' = [ppc EXCEPT ![t] = l]
            /\ UNCHANGED <<plan, state, u0, done, queued, linked, pmutex, old, resume, value>>
    BY DEF PR!Help, PR!ReadHint, PR!Goto, PR!promise, PR!queue
  <1>2. ppc'[t] = l
    BY <1>1, ThreadFacts
  <1>3. Beside(t)
    BY <1>1, ThreadFacts DEF Beside
  <1>4. PromiseTypes'
    BY <1>1 DEF PromiseInv, PromiseTypes
  <1>5. t \notin Carriers /\ t \notin Carriers' /\ t \notin Pending'
    BY <1>1, <1>2 DEF Carriers, Pending, PR!JobPCs
  <1>6. PromiseAt(t)'
    BY <1>2 DEF PromiseAt, PR!JobPCs
  <1>7. ValueAt(t)'
    BY <1>2 DEF ValueAt
  <1> QED
    BY <1>1, <1>3, <1>4, <1>5, <1>6, <1>7, QuietStep

\* The steps which find no job, and may unlink the queue then.
LEMMA QueueUnlinked ==
    ASSUME PromiseInv, HintTypes, NEW t \in Threads, PR!CondWait(t) \/ PR!HelpNone(t)
    PROVE  PromiseInv'
  <1>1. /\ \E from \in Int : (QPri <= from => ~ queued) /\ linked' = (linked /\ from < QPri)
        /\ UNCHANGED <<plan, state, u0, done, queued, old, resume, value>>
        /\ \/ ppc[t] = "yield" /\ pmutex' = NoThread /\ ppc' = [ppc EXCEPT ![t] = "sleep"]
           \/ ppc[t] = "scan" /\ UNCHANGED pmutex /\ ppc' = [ppc EXCEPT ![t] = "idle"]
    <2>1. hint \in Int /\ gp[t] \in Int
      BY DEF HintTypes
    <2>2. CASE PR!CondWait(t)
      BY <2>1, <2>2 DEF PR!CondWait, PR!NoJob, PR!Goto, PR!local
    <2>3. CASE PR!HelpNone(t)
      BY <2>1, <2>3 DEF PR!HelpNone, PR!NoJob, PR!Goto
    <2> QED
      BY <2>2, <2>3
  <1>0. linked' = linked \/ (~ linked' /\ ~ queued)
    <2>1. PICK from \in Int : (QPri <= from => ~ queued) /\ linked' = (linked /\ from < QPri)
      BY <1>1
    <2>2. QPri <= from \/ from < QPri
      BY PromiseAssumption
    <2>3. linked \in BOOLEAN
      BY DEF PromiseInv, PromiseTypes
    <2> QED
      BY <2>1, <2>2, <2>3
  <1>2. \/ ppc[t] = "yield" /\ ppc'[t] = "sleep"
        \/ ppc[t] = "scan" /\ ppc'[t] = "idle"
    BY <1>1, ThreadFacts
  <1>3. Beside(t)
    BY <1>1, ThreadFacts DEF Beside
  <1>4. PromiseTypes'
    <2>1. linked' \in BOOLEAN
      BY <1>1
    <2> QED
      BY <1>1, <2>1 DEF PromiseInv, PromiseTypes, PR!WaitPCs
  <1>5. t \notin Carriers /\ t \notin Carriers' /\ t \notin Pending'
    BY <1>2 DEF Carriers, Pending, PR!JobPCs
  <1>6. PromiseAt(t)'
    BY <1>1, <1>2 DEF PromiseAt, PR!JobPCs
  <1>7. PR!HasValue => ValueAt(t)'
    <2>1. PR!HasValue => ValueAt(t) /\ state \in Nat /\ Fulfilled \in Nat
      BY ThreadFacts
    <2> QED
      BY <1>1, <1>2, <2>1 DEF ValueAt
  <1>8. ppc[t] # "broadcast"
    BY <1>2
  <1>9. /\ pmutex' = pmutex \/ pmutex \in {t, NoThread}
        /\ UNCHANGED <<plan, state, u0, done, queued>>
    <2>1. PromiseAt(t)
      BY ThreadFacts
    <2>2. ppc[t] = "yield" => pmutex = t
      BY <2>1 DEF PromiseAt
    <2> QED
      BY <1>1, <1>2, <2>2
  <1> QED
    BY ONLY <1>0, <1>9, PromiseInv, <1>3, <1>4, <1>5, <1>6, <1>7, <1>8, t \in Threads, QuietStep

\* A job reads the state, or tells the others of its transition.
LEMMA StateRead ==
    ASSUME PromiseInv, NEW t \in Threads, PR!LoadState(t)
    PROVE  PromiseInv'
  <1>1. PICK l \in {"setlock", "store", "next"} :
            /\ ppc[t] = "job" /\ PR!Step[1] # "inc" /\ ppc' = [ppc EXCEPT ![t] = l]
            /\ UNCHANGED <<plan, state, u0, done, queued, linked, pmutex, old, resume, value>>
            /\ l = IF PR!Target >= Fulfilled /\ state < Fulfilled THEN "setlock"
                   ELSE IF state < PR!Target THEN "store" ELSE "next"
    BY DEF PR!LoadState, PR!Goto, PR!promise, PR!queue, PR!local
  <1>2. /\ ppc'[t] = l /\ PromiseAt(t) /\ state \in Nat /\ Fulfilled \in Nat
        /\ done \in Nat /\ Len(plan) \in Nat
    BY <1>1, ThreadFacts
  <1>3. Beside(t)
    BY <1>1, ThreadFacts DEF Beside
  <1>4. PromiseTypes'
    BY <1>1 DEF PromiseInv, PromiseTypes, PR!WaitPCs, PR!JobPCs
  <1>5. t \in Carriers /\ t \in Carriers' /\ t \in Pending
    BY <1>1, <1>2 DEF Carriers, Pending, PR!JobPCs
  <1>6. done >= 1 /\ done <= Len(plan)
    BY <1>1, <1>2 DEF PromiseInv, OneCarrier, PromiseAt, PR!JobPCs
  <1>7. PR!Target \in Nat
    BY <1>1, <1>6, StepFacts DEF PromiseInv
  <1>8. PR!Step' = PR!Step /\ PR!Target' = PR!Target
    BY <1>1 DEF PR!Step, PR!Target
  <1>9. PromiseAt(t)'
    <2>1. /\ l = "setlock" => state < PR!Target /\ PR!Target >= Fulfilled
          /\ l = "store" => state < PR!Target /\ (PR!Target < Fulfilled \/ state >= Fulfilled)
      BY <1>1, <1>2, <1>7
    <2> QED
      BY <1>1, <1>2, <1>6, <1>8, <2>1 DEF PromiseAt, PR!JobPCs
  <1>10. ValueAt(t)'
    BY <1>2 DEF ValueAt
  <1>11. ppc[t] # "broadcast"
    BY <1>1
  <1> QED
    BY <1>1, <1>3, <1>4, <1>5, <1>9, <1>10, <1>11, QuietStep

\* A broadcast leaves nobody asleep but, maybe, the one who calls.
LEMMA Awake ==
    ASSUME PromiseInv, NEW t \in Threads, NEW l, l # "sleep", PR!Broadcast(t, l), UNCHANGED <<old, value>>
    PROVE  /\ ppc'[t] = l /\ Beside(t)
           /\ \A u \in Threads : ppc'[u] # "sleep"
  BY DEF PR!Broadcast, Beside

LEMMA BroadcastTypes ==
    ASSUME PromiseInv, NEW t \in Threads,
           NEW l \in {"idle", "read", "scan", "done"} \cup PR!WaitPCs \cup PR!JobPCs, PR!Broadcast(t, l)
    PROVE  ppc' \in [Threads -> {"idle", "read", "scan", "done"} \cup PR!WaitPCs \cup PR!JobPCs]
  BY DEF PromiseInv, PromiseTypes, PR!Broadcast, PR!WaitPCs

LEMMA Announced ==
    ASSUME PromiseInv, NEW t \in Threads, PR!Announce(t) \/ PR!IncrementAnnounce(t)
    PROVE  PromiseInv'
  <1>1. PICK l \in {"next", "unlink"} :
            /\ ppc[t] \in {"broadcast", "incbroadcast"} /\ PR!Broadcast(t, l)
            /\ UNCHANGED <<plan, state, u0, done, queued, linked, pmutex, old, resume, value>>
            /\ l = "unlink" => ppc[t] = "incbroadcast" /\ old[t] = Fulfilled
    BY DEF PR!Announce, PR!IncrementAnnounce, PR!promise, PR!queue, PR!local
  <1>2. ppc'[t] = l /\ Beside(t) /\ \A u \in Threads : ppc'[u] # "sleep"
    BY <1>1, Awake
  <1>3. PromiseTypes'
    <2>1. l \in {"idle", "read", "scan", "done"} \cup PR!WaitPCs \cup PR!JobPCs
      BY DEF PR!JobPCs
    <2>2. ppc' \in [Threads -> {"idle", "read", "scan", "done"} \cup PR!WaitPCs \cup PR!JobPCs]
      BY <1>1, <2>1, BroadcastTypes
    <2> QED
      BY <1>1, <2>2 DEF PromiseInv, PromiseTypes, PR!WaitPCs, PR!JobPCs
  <1>4. t \in Carriers /\ t \in Carriers' /\ t \notin Pending'
    BY <1>1, <1>2 DEF Carriers, Pending, PR!JobPCs
  <1>5. PromiseAt(t) /\ state \in Nat /\ Fulfilled \in Nat /\ done \in Nat /\ Len(plan) \in Nat
        /\ done <= Len(plan)
    BY ThreadFacts DEF PromiseInv, OneCarrier
  <1>6. PromiseAt(t)'
    BY <1>1, <1>2, <1>5 DEF PromiseAt, PR!JobPCs
  <1>7. PR!HasValue => ValueAt(t)'
    <2> SUFFICES ASSUME PR!HasValue PROVE ppc'[t] # "unlink"
      BY <1>2 DEF ValueAt
    <2> SUFFICES ASSUME ppc[t] = "incbroadcast", old[t] = Fulfilled PROVE FALSE
      BY <1>1, <1>2
    <2>1. PR!Step[1] = "inc" /\ state = Fulfilled /\ done >= 1
      BY <1>5 DEF PromiseAt, PR!JobPCs
    <2>2. done # Len(plan)
      BY <1>5, <2>1, StepFacts DEF PromiseInv
    <2>3. state + (Len(plan) - done) <= Fulfilled
      BY ThreadFacts DEF StateBound
    <2> QED
      BY <1>5, <2>1, <2>2, <2>3
  <1> QED
    BY <1>1, <1>2, <1>3, <1>4, <1>6, <1>7, QuietStep

\* The thread which carries the computation on is the only one.
LEMMA SoleCarrier ==
    ASSUME NEW t \in Threads, Beside(t), Carriers \subseteq {t}
    PROVE  /\ Carriers' \subseteq {t} /\ (t \notin Carriers' => Carriers' = {})
           /\ Pending' \subseteq {t} /\ (t \notin Pending' => Pending' = {})
  <1>1. \A u \in Threads : u # t =>
            /\ u \in Carriers' <=> u \in Carriers
            /\ u \in Pending' <=> u \in Pending
    BY CarriersBeside
  <1>2. /\ Pending \subseteq Carriers /\ Carriers \subseteq Threads
        /\ Carriers' \subseteq Threads /\ Pending' \subseteq Threads
    BY DEF Carriers, Pending, PR!JobPCs
  <1> QED
    BY <1>1, <1>2

LEMMA CarrierAlone ==
    ASSUME PromiseInv, NEW t \in Carriers
    PROVE  /\ Carriers \subseteq {t} /\ ~ queued /\ state # PR!latent /\ done <= Len(plan) /\ t \in Threads
  BY DEF PromiseInv, OneCarrier, Carriers

LEMMA Entered ==
    ASSUME PromiseInv, NEW t \in Threads, PR!Enter(t)
    PROVE  PromiseInv'
  <1>1. /\ ppc[t] = "enter" /\ UNCHANGED <<plan, done, queued, linked, old, resume, value>>
        /\ \/ /\ state = 0 /\ u0' = "gflexq" /\ state' = 1 /\ pmutex' = NoThread
              /\ ppc' = [ppc EXCEPT ![t] = "initiator"]
           \/ /\ UNCHANGED <<u0, state, pmutex>> /\ ppc' = [ppc EXCEPT ![t] = "test"]
    BY ThreadFacts DEF PR!Enter, PR!Goto, PR!queue, PR!local
  <1>2. /\ PromiseAt(t) /\ state \in Nat /\ done \in Nat /\ Len(plan) \in Nat /\ Len(plan) >= 1
        /\ Fulfilled \in Nat /\ PR!latent = 0 /\ DOMAIN ppc = Threads
    BY ThreadFacts
  <1>3. Beside(t)
    BY <1>1, <1>2 DEF Beside
  <1>4. PromiseTypes'
    BY <1>1 DEF PromiseInv, PromiseTypes, PR!WaitPCs, PR!JobPCs
  <1>5. CASE /\ state = 0 /\ u0' = "gflexq" /\ state' = 1 /\ pmutex' = NoThread
             /\ ppc' = [ppc EXCEPT ![t] = "initiator"]
    <2>1. ppc'[t] = "initiator"
      BY <1>2, <1>5
    <2>2. Carriers = {} /\ ~ queued /\ done = 0
      BY <1>2, <1>5 DEF PromiseInv, OneCarrier
    <2>3. Carriers' \subseteq {t} /\ Pending' = {}
      <3>1. t \notin Pending'
        BY <2>1 DEF Pending
      <3> QED
        BY <1>3, <2>2, <3>1, SoleCarrier
    <2>4. OneCarrier'
      BY <1>1, <1>2, <1>5, <2>2, <2>3 DEF OneCarrier, PR!latent
    <2>5. PromiseAt(t)'
      BY <1>1, <2>1, <2>2 DEF PromiseAt, PR!JobPCs
    <2>6. ASSUME PR!HasValue PROVE StateBound' /\ ValueAt(t)' /\ ~ (state' >= Fulfilled)
      <3>1. Len(plan) < Fulfilled
        BY <2>6, ThreadFacts
      <3> QED
        BY <1>1, <1>2, <1>5, <2>1, <2>2, <2>3, <3>1 DEF StateBound, ValueAt
    <2>7. /\ UNCHANGED plan /\ pmutex = t /\ state' >= state /\ Carriers \subseteq {t}
          /\ linked' = linked
      BY <1>1, <1>2, <1>5, <2>2 DEF PromiseAt
    <2> QED
      BY ONLY PromiseInv, t \in Threads, <1>3, <1>4, <2>4, <2>5, <2>6, <2>7, PromiseStep
  <1>6. CASE UNCHANGED <<u0, state, pmutex>> /\ ppc' = [ppc EXCEPT ![t] = "test"]
    <2>1. ppc'[t] = "test"
      BY <1>2, <1>6
    <2>2. t \notin Carriers /\ t \notin Carriers' /\ t \notin Pending'
      BY <1>1, <2>1 DEF Carriers, Pending, PR!JobPCs
    <2>3. PromiseAt(t)'
      BY <1>1, <1>2, <1>6, <2>1 DEF PromiseAt, PR!JobPCs
    <2>4. ValueAt(t)' /\ ppc[t] # "broadcast"
      BY <1>1, <2>1 DEF ValueAt
    <2>5. UNCHANGED <<plan, state, u0, done, queued>> /\ pmutex' = pmutex /\ linked' = linked
      BY <1>1, <1>6
    <2> QED
      BY ONLY PromiseInv, t \in Threads, <1>3, <1>4, <2>2, <2>3, <2>4, <2>5, QuietStep
  <1> QED
    BY <1>1, <1>5, <1>6

\* The initiator and a job that is not the last put the next one on the queue.
LEMMA Scheduled ==
    ASSUME PromiseInv, NEW t \in Threads, NEW l \in {"relock", "idle"}, PR!Schedule(t, l),
           ppc[t] \in {"initiator", "next"}, done < Len(plan),
           UNCHANGED <<plan, state, u0, done, pmutex, old, value>>,
           resume' \in [Threads -> {"idle", "relock"}]
    PROVE  PromiseInv'
  <1>1. /\ PromiseAt(t) /\ state \in Nat /\ done \in Nat /\ Len(plan) \in Nat
        /\ Fulfilled \in Nat /\ DOMAIN ppc = Threads
    BY ThreadFacts
  <1>2. /\ queued' = TRUE /\ linked' = TRUE
        /\ \/ linked /\ ppc' = [ppc EXCEPT ![t] = l]
           \/ ~ linked /\ PR!Broadcast(t, l)
    BY DEF PR!Schedule, PR!Goto
  <1>3. ppc'[t] = l /\ Beside(t)
    <2>1. CASE linked /\ ppc' = [ppc EXCEPT ![t] = l]
      BY <1>1, <2>1 DEF Beside
    <2>2. CASE ~ linked /\ PR!Broadcast(t, l)
      BY <2>2, Awake
    <2> QED
      BY <1>2, <2>1, <2>2
  <1>4. PromiseTypes'
    <2>1. l \in {"idle", "read", "scan", "done"} \cup PR!WaitPCs \cup PR!JobPCs
      BY DEF PR!WaitPCs
    <2>2. ppc' \in [Threads -> {"idle", "read", "scan", "done"} \cup PR!WaitPCs \cup PR!JobPCs]
      <3>1. CASE ppc' = [ppc EXCEPT ![t] = l]
        BY <2>1, <3>1 DEF PromiseInv, PromiseTypes
      <3>2. CASE PR!Broadcast(t, l)
        BY <2>1, <3>2, BroadcastTypes
      <3> QED
        BY <1>2, <3>1, <3>2
    <2> QED
      BY <1>2, <2>2 DEF PromiseInv, PromiseTypes
  <1>5. t \in Carriers /\ t \notin Carriers' /\ t \notin Pending'
    BY <1>3 DEF Carriers, Pending, PR!JobPCs
  <1>6. Carriers \subseteq {t} /\ state # PR!latent
    BY <1>5, CarrierAlone
  <1>7. Carriers' = {} /\ Pending' = {}
    BY <1>3, <1>5, <1>6, SoleCarrier
  <1>8. OneCarrier'
    BY <1>1, <1>2, <1>6, <1>7 DEF OneCarrier, PR!latent
  <1>9. PromiseAt(t)'
    BY <1>3 DEF PromiseAt, PR!JobPCs
  <1>10. PR!HasValue => StateBound' /\ ValueAt(t)'
    <2>1. PR!HasValue => StateBound
      BY ThreadFacts
    <2> QED
      BY <1>3, <1>7, <2>1 DEF StateBound, ValueAt
  <1>11. ppc[t] # "broadcast" /\ state' = state /\ done' = done /\ UNCHANGED plan /\ pmutex' = pmutex
         /\ state' >= state
    BY <1>1
  <1> QED
    BY ONLY PromiseInv, t \in Threads, <1>3, <1>4, <1>8, <1>9, <1>10, <1>11, PromiseStep

LEMMA InitiatorRuns ==
    ASSUME PromiseInv, NEW t \in Threads, PR!Initiator(t)
    PROVE  PromiseInv'
  <1>1. ppc[t] = "initiator" /\ PR!Schedule(t, "relock")
        /\ UNCHANGED <<plan, state, u0, done, pmutex, old, resume, value>>
    BY DEF PR!Initiator, PR!local
  <1>2. done < Len(plan)
    BY <1>1, ThreadFacts DEF PromiseAt
  <1>3. resume' \in [Threads -> {"idle", "relock"}]
    BY <1>1 DEF PromiseInv, PromiseTypes
  <1> QED
    BY <1>1, <1>2, <1>3, Scheduled

LEMMA JobEnds ==
    ASSUME PromiseInv, NEW t \in Threads, PR!JobEnd(t)
    PROVE  PromiseInv'
  <1>1. /\ PromiseAt(t) /\ state \in Nat /\ done \in Nat /\ Len(plan) \in Nat
        /\ Fulfilled \in Nat /\ DOMAIN ppc = Threads
    BY ThreadFacts
  <1>2. PICK l \in {"relock", "idle"} : l = resume[t]
    BY DEF PromiseInv, PromiseTypes
  <1>3. /\ ppc[t] = "next" /\ UNCHANGED <<plan, state, u0, done, pmutex, old, value>>
        /\ resume' = [resume EXCEPT ![t] = "idle"]
        /\ \/ done < Len(plan) /\ PR!Schedule(t, l)
           \/ ~ (done < Len(plan)) /\ UNCHANGED <<queued, linked>> /\ ppc' = [ppc EXCEPT ![t] = l]
    BY <1>2 DEF PR!JobEnd, PR!Goto, PR!queue
  <1>0. resume' \in [Threads -> {"idle", "relock"}]
    BY <1>3 DEF PromiseInv, PromiseTypes
  <1>4. CASE done < Len(plan) /\ PR!Schedule(t, l)
    BY <1>0, <1>3, <1>4, Scheduled
  <1>5. CASE ~ (done < Len(plan)) /\ UNCHANGED <<queued, linked>> /\ ppc' = [ppc EXCEPT ![t] = l]
    <2>1. ppc'[t] = l
      BY <1>1, <1>5
    <2>2. Beside(t)
      BY <1>1, <1>3, <1>5 DEF Beside
    <2>3. PromiseTypes'
      BY <1>0, <1>3, <1>5 DEF PromiseInv, PromiseTypes, PR!WaitPCs, PR!JobPCs
    <2>4. t \in Carriers /\ t \notin Carriers' /\ t \notin Pending'
      BY <1>3, <2>1 DEF Carriers, Pending, PR!JobPCs
    <2>5. Carriers \subseteq {t} /\ state # PR!latent /\ ~ queued /\ done <= Len(plan)
      BY <2>4, CarrierAlone
    <2>6. Carriers' = {} /\ Pending' = {}
      BY <2>2, <2>4, <2>5, SoleCarrier
    <2>7. OneCarrier'
      BY <1>3, <1>5, <2>5, <2>6 DEF OneCarrier, PR!latent
    <2>8. PromiseAt(t)'
      BY <2>1 DEF PromiseAt, PR!JobPCs
    <2>9. PR!HasValue => StateBound' /\ ValueAt(t)'
      <3>1. PR!HasValue => StateBound
        BY ThreadFacts
      <3> QED
        BY <1>3, <2>1, <2>6, <3>1 DEF StateBound, ValueAt
    <2>10. /\ ppc[t] # "broadcast" /\ state' = state /\ done' = done /\ UNCHANGED plan
           /\ pmutex' = pmutex /\ linked' = linked /\ state' >= state
      BY <1>1, <1>3, <1>5
    <2> QED
      BY ONLY PromiseInv, t \in Threads, <2>2, <2>3, <2>7, <2>8, <2>9, <2>10, PromiseStep
  <1> QED
    BY <1>3, <1>4, <1>5

\* A job is taken, by a thread which waits or by one which helps.
LEMMA JobTaken ==
    ASSUME PromiseInv, NEW t \in Threads, PR!YieldJob(t) \/ PR!HelpJob(t)
    PROVE  PromiseInv'
  <1>1. PICK l \in {"relock", "idle"} :
            /\ ppc[t] \in {"yield", "scan"} /\ queued /\ queued' = FALSE /\ done' = done + 1
            /\ pmutex' = pmutex \/ pmutex' = NoThread
            /\ resume' = [resume EXCEPT ![t] = l] /\ ppc' = [ppc EXCEPT ![t] = "job"]
            /\ UNCHANGED <<plan, state, u0, linked, old, value>>
    BY DEF PR!YieldJob, PR!HelpJob, PR!TakeJob, PR!Goto
  <1>2. /\ PromiseAt(t) /\ state \in Nat /\ done \in Nat /\ Len(plan) \in Nat
        /\ Fulfilled \in Nat /\ DOMAIN ppc = Threads
    BY ThreadFacts
  <1>3. ppc'[t] = "job"
    BY <1>1, <1>2
  <1>4. Beside(t)
    BY <1>1, <1>2 DEF Beside
  <1>5. PromiseTypes'
    <2>1. resume' \in [Threads -> {"idle", "relock"}]
      BY <1>1 DEF PromiseInv, PromiseTypes
    <2>2. pmutex' \in Threads \cup {NoThread}
      BY <1>1 DEF PromiseInv, PromiseTypes
    <2>3. ppc' \in [Threads -> {"idle", "read", "scan", "done"} \cup PR!WaitPCs \cup PR!JobPCs]
      BY <1>1 DEF PromiseInv, PromiseTypes, PR!JobPCs
    <2>4. done' \in Nat /\ queued' \in BOOLEAN
      <3>1. done' = done + 1
        BY <1>1
      <3>2. done' \in Nat
        BY <1>2, <3>1
      <3>3. queued' = FALSE
        BY <1>1
      <3>4. queued' \in BOOLEAN
        BY ONLY <3>3
      <3> QED
        BY <3>2, <3>4
    <2>5. /\ plan' \in Plans /\ state' \in Nat /\ linked' \in BOOLEAN /\ old' \in [Threads -> Nat]
          /\ DOMAIN value' = Threads
      BY <1>1 DEF PromiseInv, PromiseTypes
    <2> QED
      BY ONLY <2>1, <2>2, <2>3, <2>4, <2>5 DEF PromiseTypes
  <1>6. Carriers = {} /\ done < Len(plan) /\ state # PR!latent
    BY <1>1 DEF PromiseInv, OneCarrier
  <1>7. Carriers' \subseteq {t}
    BY <1>4, <1>6, SoleCarrier
  <1>8. OneCarrier'
    BY <1>1, <1>2, <1>6, <1>7 DEF OneCarrier, PR!latent
  <1>9. PromiseAt(t)'
    BY <1>1, <1>2, <1>3 DEF PromiseAt
  <1>10. PR!HasValue => StateBound' /\ ValueAt(t)'
    <2>1. PR!HasValue => StateBound
      BY ThreadFacts
    <2> QED
      BY <1>1, <1>2, <1>3, <2>1 DEF StateBound, ValueAt
  <1>11. UNCHANGED plan /\ linked' = linked /\ state' = state /\ ppc[t] # "broadcast"
    BY <1>1
  <1>12. pmutex' = pmutex \/ pmutex \in {t, NoThread}
    BY <1>1, <1>2 DEF PromiseAt, PR!YieldJob, PR!HelpJob
  <1>13. state' >= state /\ Carriers \subseteq {t}
    BY <1>2, <1>6, <1>11
  <1> QED
    BY ONLY PromiseInv, t \in Threads, <1>4, <1>5, <1>8, <1>9, <1>10, <1>11, <1>12, <1>13, PromiseStep

-----------------------------------------------------------------------------
(* The transitions.                                                        *)

\* A transition leaves the thread the one which carries the computation on.
LEMMA Transition ==
    ASSUME PromiseInv, NEW t \in Threads, PromiseTypes',
           ppc[t] \in {"setlock", "store", "job"}, NEW l \in {"broadcast", "incbroadcast"},
           ppc' = [ppc EXCEPT ![t] = l], \A u \in Threads : u # t => old'[u] = old[u],
           UNCHANGED <<plan, done, queued, linked, pmutex, value>>,
           state' > state, PromiseAt(t)',
           PR!HasValue => /\ state' + (Len(plan) - done) <= Fulfilled
                          /\ state' >= Fulfilled =>
                                l = "broadcast" /\ u0' = plan[Len(plan)][2] /\ pmutex = NoThread
    PROVE  PromiseInv'
  <1>1. /\ state \in Nat /\ done \in Nat /\ Len(plan) \in Nat /\ Fulfilled \in Nat
        /\ DOMAIN ppc = Threads /\ PR!latent = 0 /\ NoThread \notin Threads
    BY ThreadFacts
  <1>2. ppc'[t] = l
    BY <1>1
  <1>3. Beside(t)
    BY <1>1 DEF Beside
  <1>4. t \in Carriers /\ t \in Carriers' /\ t \notin Pending'
    BY <1>2 DEF Carriers, Pending, PR!JobPCs
  <1>5. Carriers \subseteq {t} /\ ~ queued /\ done <= Len(plan)
    BY <1>4, CarrierAlone
  <1>6. Carriers' \subseteq {t} /\ Pending' = {}
    BY <1>3, <1>4, <1>5, SoleCarrier
  <1>7. state' # 0 /\ state' >= state
    BY <1>1 DEF PromiseTypes
  <1>8. OneCarrier'
    BY <1>5, <1>6, <1>7 DEF OneCarrier, PR!latent
  <1>9. ASSUME PR!HasValue PROVE StateBound' /\ ValueAt(t)'
    <2>1. StateBound'
      BY <1>1, <1>6, <1>9 DEF StateBound
    <2> QED
      BY <1>2, <2>1 DEF ValueAt
  <1>10. PR!HasValue /\ state' >= Fulfilled =>
            ppc'[t] = "broadcast" /\ \A u \in Threads : u # t => ppc[u] # "yield"
    <2>1. pmutex = NoThread => \A u \in Threads : ppc[u] # "yield"
      BY <1>1 DEF PromiseInv, PromiseLocal, PromiseAt
    <2> QED
      BY <1>2, <2>1
  <1>11. UNCHANGED plan /\ pmutex' = pmutex /\ linked' = linked
    OBVIOUS
  <1> QED
    BY ONLY PromiseInv, t \in Threads, PromiseTypes', <1>3, <1>5, <1>7, <1>8, PromiseAt(t)', <1>9, <1>10,
            <1>11, PromiseStep

LEMMA StateStored ==
    ASSUME PromiseInv, NEW t \in Threads, PR!StoreFulfilled(t) \/ PR!StoreState(t)
    PROVE  PromiseInv'
  <1>1. /\ PromiseAt(t) /\ state \in Nat /\ done \in Nat /\ Len(plan) \in Nat
        /\ Fulfilled \in Nat /\ DOMAIN ppc = Threads
    BY ThreadFacts
  <1>2. PICK l \in {"broadcast", "incbroadcast"} : l = "broadcast"
    OBVIOUS
  <1>3. /\ state' = PR!Target /\ ppc' = [ppc EXCEPT ![t] = l]
        /\ UNCHANGED <<plan, done, queued, linked, pmutex, old, resume, value>>
        /\ \/ /\ ppc[t] = "setlock" /\ pmutex = NoThread
              /\ PR!Step[1] = "fulfil" => u0' = PR!Step[2]
           \/ ppc[t] = "store" /\ UNCHANGED u0
    BY <1>2 DEF PR!StoreFulfilled, PR!StoreState, PR!Goto, PR!queue, PR!local
  <1>4. ppc'[t] = "broadcast" /\ ppc[t] \in {"setlock", "store"}
    BY <1>1, <1>2, <1>3
  <1>5. /\ PR!Step[1] # "inc" /\ state < PR!Target /\ done >= 1
        /\ ppc[t] = "store" => PR!Target < Fulfilled \/ state >= Fulfilled
        /\ ppc[t] = "setlock" => PR!Target >= Fulfilled
    BY <1>1, <1>4 DEF PromiseAt, PR!JobPCs
  <1>6. done <= Len(plan) /\ t \in Pending
    BY <1>4 DEF PromiseInv, OneCarrier, Pending
  <1>7. PR!Target \in Nat
    BY <1>5, <1>6, StepFacts DEF PromiseInv
  <1>8. PromiseTypes'
    <2>1. state' \in Nat
      BY <1>3, <1>7
    <2> QED
      BY <1>3, <2>1 DEF PromiseInv, PromiseTypes, PR!JobPCs
  <1>9. PromiseAt(t)'
    BY <1>3, <1>4, <1>5 DEF PromiseAt, PR!JobPCs
  <1>10. state' > state
    BY <1>1, <1>3, <1>5, <1>7
  <1>11. ASSUME PR!HasValue
         PROVE  /\ state' + (Len(plan) - done) <= Fulfilled
                /\ state' >= Fulfilled =>
                      l = "broadcast" /\ u0' = plan[Len(plan)][2] /\ pmutex = NoThread
    <2>1. state + (Len(plan) - done) < Fulfilled
      BY <1>6, <1>11, ThreadFacts DEF StateBound
    <2>2. /\ done = Len(plan) => PR!Step[1] = "fulfil" /\ PR!Step[2] = plan[Len(plan)][2]
          /\ PR!Step[1] = "fulfil" => done = Len(plan)
          /\ PR!Step[1] = "fulfil" => PR!Target = Fulfilled
          /\ PR!Step[1] = "set" => PR!Target + (Len(plan) - done) <= Fulfilled
          /\ PR!Step[1] \in {"set", "fulfil"}
      BY <1>5, <1>6, <1>11, StepFacts DEF PromiseInv
    <2>3. PR!Target + (Len(plan) - done) <= Fulfilled
      BY <1>1, <2>2
    <2>4. CASE ppc[t] = "setlock"
      <3>1. PR!Step[1] = "fulfil"
        BY <1>1, <1>5, <1>6, <1>7, <2>2, <2>4
      <3> QED
        BY <1>2, <1>3, <2>2, <2>3, <2>4, <3>1
    <2>5. CASE ppc[t] = "store"
      <3>1. PR!Target < Fulfilled
        BY <1>1, <1>5, <1>6, <2>1, <2>5
      <3> QED
        BY <1>1, <1>3, <1>7, <2>3, <3>1
    <2> QED
      BY <1>4, <2>4, <2>5
  <1>12. /\ ppc[t] \in {"setlock", "store", "job"}
         /\ \A u \in Threads : u # t => old'[u] = old[u]
         /\ ppc' = [ppc EXCEPT ![t] = l]
         /\ UNCHANGED <<plan, done, queued, linked, pmutex, value>>
    BY <1>3, <1>4
  <1> QED
    BY ONLY PromiseInv, t \in Threads, l \in {"broadcast", "incbroadcast"}, <1>8, <1>9, <1>10, <1>11, <1>12,
            Transition

LEMMA Incremented ==
    ASSUME PromiseInv, NEW t \in Threads, PR!Increment(t)
    PROVE  PromiseInv'
  <1>1. /\ PromiseAt(t) /\ state \in Nat /\ done \in Nat /\ Len(plan) \in Nat
        /\ Fulfilled \in Nat /\ DOMAIN ppc = Threads /\ DOMAIN old = Threads
    BY ThreadFacts
  <1>2. PICK l \in {"broadcast", "incbroadcast"} : l = "incbroadcast"
    OBVIOUS
  <1>3. /\ ppc[t] = "job" /\ PR!Step[1] = "inc" /\ state' = state + 1
        /\ old' = [old EXCEPT ![t] = state + 1] /\ ppc' = [ppc EXCEPT ![t] = l]
        /\ UNCHANGED <<plan, u0, done, queued, linked, pmutex, resume, value>>
    BY <1>2 DEF PR!Increment, PR!Goto, PR!queue
  <1>4. ppc'[t] = "incbroadcast" /\ old'[t] = state' /\ state' > state
    BY <1>1, <1>2, <1>3
  <1>5. done >= 1 /\ done <= Len(plan) /\ t \in Pending
    BY <1>1, <1>3 DEF PromiseInv, OneCarrier, Pending, PromiseAt, PR!JobPCs
  <1>6. PromiseTypes'
    <2>1. state' \in Nat /\ old' \in [Threads -> Nat]
      BY <1>1, <1>3 DEF PromiseInv, PromiseTypes
    <2> QED
      BY <1>3, <2>1 DEF PromiseInv, PromiseTypes, PR!JobPCs
  <1>7. PromiseAt(t)'
    <2>1. PR!Step' = PR!Step /\ done' = done
      BY <1>3 DEF PR!Step
    <2> QED
      BY <1>3, <1>4, <1>5, <2>1 DEF PromiseAt, PR!JobPCs
  <1>8. ASSUME PR!HasValue
        PROVE  /\ state' + (Len(plan) - done) <= Fulfilled
               /\ ~ (state' >= Fulfilled)
    <2>1. state + (Len(plan) - done) < Fulfilled
      BY <1>5, <1>8, ThreadFacts DEF StateBound
    <2>2. done # Len(plan)
      BY <1>3, <1>5, <1>8, StepFacts DEF PromiseInv
    <2> QED
      BY <1>1, <1>3, <1>5, <2>1, <2>2
  <1>9. /\ ppc[t] \in {"setlock", "store", "job"}
        /\ \A u \in Threads : u # t => old'[u] = old[u]
        /\ ppc' = [ppc EXCEPT ![t] = l]
        /\ UNCHANGED <<plan, done, queued, linked, pmutex, value>>
    BY <1>1, <1>3
  <1> QED
    BY ONLY PromiseInv, t \in Threads, l \in {"broadcast", "incbroadcast"}, <1>4, <1>6, <1>7, <1>8, <1>9,
            Transition

LEMMA QueueTakenOut ==
    ASSUME PromiseInv, NEW t \in Threads, PR!IncrementUnlink(t)
    PROVE  PromiseInv'
  <1>1. /\ ppc[t] = "unlink" /\ ppc' = [ppc EXCEPT ![t] = "next"]
        /\ UNCHANGED <<plan, state, done, queued, linked, pmutex, old, resume, value>>
    BY DEF PR!IncrementUnlink, PR!Goto, PR!queue, PR!local
  <1>2. PromiseAt(t) /\ DOMAIN ppc = Threads /\ state \in Nat
    BY ThreadFacts
  <1>3. ppc'[t] = "next"
    BY <1>1, <1>2
  <1>4. ~ PR!HasValue
    BY <1>1, ThreadFacts DEF ValueAt
  <1>5. Beside(t)
    BY <1>1, <1>2 DEF Beside
  <1>6. PromiseTypes'
    BY <1>1 DEF PromiseInv, PromiseTypes, PR!JobPCs
  <1>7. t \in Carriers /\ t \in Carriers'
    BY <1>1, <1>3 DEF Carriers, PR!JobPCs
  <1>8. Carriers \subseteq {t} /\ ~ queued /\ state # PR!latent /\ done <= Len(plan)
    BY <1>7, CarrierAlone
  <1>9. Carriers' \subseteq {t}
    BY <1>5, <1>8, SoleCarrier
  <1>10. OneCarrier'
    BY <1>1, <1>8, <1>9 DEF OneCarrier, PR!latent
  <1>11. PromiseAt(t)'
    BY <1>1, <1>2, <1>3 DEF PromiseAt, PR!JobPCs
  <1>12. /\ UNCHANGED plan /\ pmutex' = pmutex /\ linked' = linked /\ state' >= state
    BY <1>1, <1>2
  <1> QED
    BY ONLY PromiseInv, t \in Threads, <1>4, <1>5, <1>6, <1>8, <1>10, <1>11, <1>12, PromiseStep

-----------------------------------------------------------------------------
LEMMA PromiseInit == WaitingInit => PromiseInv
  <1> SUFFICES ASSUME WaitingInit PROVE PromiseInv
    OBVIOUS
  <1>1. /\ plan \in Plans /\ state = 0 /\ u0 = "initiator" /\ done = 0 /\ queued = FALSE /\ linked = FALSE
        /\ pmutex = NoThread /\ ppc = [t \in Threads |-> "idle"] /\ old = [t \in Threads |-> 0]
        /\ resume = [t \in Threads |-> "idle"] /\ value = [t \in Threads |-> "none"]
    BY DEF WaitingInit, PR!Init, PR!latent
  <1>2. PromiseTypes
    BY <1>1 DEF PromiseTypes
  <1>3. Carriers = {} /\ Pending = {}
    BY <1>1 DEF Carriers, Pending, PR!JobPCs
  <1>4. Len(plan) \in Nat /\ Len(plan) >= 1 /\ Fulfilled \in Nat /\ (PR!HasValue => Len(plan) < Fulfilled)
    BY <1>1, PromiseAssumption DEF PR!HasValue
  <1>5. OneCarrier
    BY <1>1, <1>3, <1>4 DEF OneCarrier
  <1>6. PromiseLocal
    BY <1>1 DEF PromiseLocal, PromiseAt, PR!JobPCs
  <1>7. ValueComing
    BY <1>1, <1>3, <1>4 DEF ValueComing, StateBound, ValueAt
  <1> QED
    BY <1>2, <1>5, <1>6, <1>7 DEF PromiseInv

LEMMA PromiseNext == PromiseInv /\ HintTypes /\ [WaitingNext]_allvars => PromiseInv'
  <1> SUFFICES ASSUME PromiseInv, HintTypes, [WaitingNext]_allvars PROVE PromiseInv'
    OBVIOUS
  <1>1. CASE UNCHANGED promisevars
    <2>1. UNCHANGED <<plan, state, u0, done, queued, linked, pmutex, ppc, old, resume, value>>
      BY <1>1 DEF promisevars
    <2>2. Carriers' = Carriers /\ Pending' = Pending
      BY <2>1 DEF Carriers, Pending, PR!JobPCs
    <2>3. PromiseTypes' /\ OneCarrier'
      BY <2>1, <2>2 DEF PromiseInv, PromiseTypes, OneCarrier, PR!WaitPCs, PR!JobPCs, PR!latent
    <2>4. PromiseLocal'
      BY <2>1 DEF PromiseInv, PromiseLocal, PromiseAt, PR!JobPCs, PR!Step, PR!Target
    <2>5. ValueComing'
      BY <2>1, <2>2 DEF PromiseInv, ValueComing, StateBound, ValueAt, PR!HasValue
    <2> QED
      BY <2>3, <2>4, <2>5 DEF PromiseInv
  <1>2. ASSUME NEW t \in Threads,
               \/ PR!Process(t) \/ PR!Wait(t) \/ PR!Help(t) \/ PR!Helping(t) \/ PR!Job(t)
               \/ PR!SpuriousWakeup(t)
        PROVE  PromiseInv'
    <2>1. CASE PR!ProcessLock(t) \/ PR!Relock(t) \/ PR!Woken(t)
      BY <2>1, MutexTaken
    <2>2. CASE PR!Process(t) \/ PR!Test(t) \/ PR!SpuriousWakeup(t) \/ PR!Return(t)
      BY <2>2, LocalSteps
    <2>3. CASE PR!CondWait(t) \/ PR!HelpNone(t)
      BY <2>3, QueueUnlinked
    <2>4. CASE PR!Enter(t)
      BY <2>4, Entered
    <2>5. CASE PR!Initiator(t)
      BY <2>5, InitiatorRuns
    <2>6. CASE PR!YieldJob(t) \/ PR!HelpJob(t)
      BY <2>6, JobTaken
    <2>7. CASE PR!LoadState(t)
      BY <2>7, StateRead
    <2>8. CASE PR!StoreFulfilled(t) \/ PR!StoreState(t)
      BY <2>8, StateStored
    <2>9. CASE PR!Announce(t) \/ PR!IncrementAnnounce(t)
      BY <2>9, Announced
    <2>10. CASE PR!Increment(t)
      BY <2>10, Incremented
    <2>11. CASE PR!IncrementUnlink(t)
      BY <2>11, QueueTakenOut
    <2>12. CASE PR!JobEnd(t)
      BY <2>12, JobEnds
    <2>13. CASE PR!Help(t) \/ PR!ReadHint(t)
      BY <2>13, HintRead
    <2> QED
      BY <1>2, <2>1, <2>2, <2>3, <2>4, <2>5, <2>6, <2>7, <2>8, <2>9, <2>10, <2>11, <2>12, <2>13
         DEF PR!Wait, PR!Helping, PR!Job
  <1>3. CASE PR!Next
    <2>1. CASE PR!Finished
      <3>1. UNCHANGED promisevars
        BY <2>1 DEF PR!Finished, PR!vars, promisevars
      <3> QED
        BY <1>1, <3>1
    <2> QED
      BY <1>2, <1>3, <2>1 DEF PR!Next
  <1>4. PR!Next \/ UNCHANGED promisevars
    BY DEF WaitingNext, allvars
  <1> QED
    BY <1>1, <1>3, <1>4

-----------------------------------------------------------------------------
(* The hint of the work queue.                                             *)

\* While the hint is not spoilt, it covers a queue that is linked, and nobody
\* sleeps then: the search before the sleep has looked at the queue, and has
\* unlinked it.
HintCovers ==
    ~ slip => /\ linked => QPri <= hint
              /\ \A t \in Threads : ppc[t] = "sleep" => ~ linked

HintInv == HintTypes /\ HintCovers

LEMMA HintInit == WaitingInit => HintInv
  <1> SUFFICES ASSUME WaitingInit PROVE HintInv
    OBVIOUS
  <1>1. /\ linked = FALSE /\ hint = 0 /\ slip = FALSE
        /\ cutoff = [t \in Threads |-> 0] /\ gp = [t \in Threads |-> 0]
        /\ ppc = [t \in Threads |-> "idle"]
    BY DEF WaitingInit, PR!Init
  <1>2. HintTypes
    <2>1. hint \in Int /\ cutoff \in [Threads -> Int] /\ gp \in [Threads -> Int]
      BY <1>1
    <2>2. slip \in BOOLEAN
      BY ONLY <1>1
    <2> QED
      BY <2>1, <2>2 DEF HintTypes
  <1>3. ~ linked /\ \A t \in Threads : ppc[t] # "sleep"
    BY <1>1
  <1> QED
    BY <1>2, <1>3 DEF HintInv, HintCovers

\* The steps which leave the queue as it is, and put nobody to sleep.
LEMMA HintKept ==
    ASSUME HintInv, UNCHANGED <<linked, hint, slip>>, HintTypes',
           \A u \in Threads : ppc'[u] = "sleep" => ppc[u] = "sleep"
    PROVE  HintInv'
  BY DEF HintInv, HintCovers

\* A queue that is linked is covered from then on, and nobody is asleep.
LEMMA HintScheduled ==
    ASSUME PromiseInv, HintInv, NEW t \in Threads, NEW l, l # "sleep", PR!Schedule(t, l),
           UNCHANGED <<gp, cutoff>>
    PROVE  HintInv'
  <1>1. QPri \in Nat /\ hint \in Int /\ slip \in BOOLEAN /\ DOMAIN ppc = Threads
    BY PromiseAssumption DEF HintInv, HintTypes, PromiseInv, PromiseTypes
  <1>2. /\ hint' = IF hint = -1 \/ hint > QPri THEN hint ELSE QPri
        /\ slip' = (slip \/ hint = -1)
        /\ \/ linked /\ ppc' = [ppc EXCEPT ![t] = l]
           \/ PR!Broadcast(t, l)
    BY DEF PR!Schedule, PR!Goto
  <1>3. HintTypes'
    <2>1. hint' \in Int /\ slip' \in BOOLEAN
      BY <1>1, <1>2
    <2> QED
      BY <2>1 DEF HintInv, HintTypes
  <1>4. ASSUME ~ slip' PROVE QPri <= hint' /\ ~ slip
    <2>1. ~ slip /\ hint # -1
      BY <1>2, <1>4
    <2>2. hint' = IF hint > QPri THEN hint ELSE QPri
      BY <1>2, <2>1
    <2> QED
      BY <1>1, <2>1, <2>2
  <1>5. ASSUME ~ slip, NEW u \in Threads PROVE ppc'[u] # "sleep"
    <2>1. CASE linked /\ ppc' = [ppc EXCEPT ![t] = l]
      BY <1>1, <1>5, <2>1 DEF HintInv, HintCovers
    <2>2. CASE PR!Broadcast(t, l)
      BY <2>2 DEF PR!Broadcast
    <2> QED
      BY <1>2, <2>1, <2>2
  <1> QED
    BY <1>3, <1>4, <1>5 DEF HintInv, HintCovers

\* A job that is taken leaves the hint where the queue is.
LEMMA HintTaken ==
    ASSUME PromiseInv, HintInv, NEW t \in Threads, PR!YieldJob(t) \/ PR!HelpJob(t)
    PROVE  HintInv'
  <1>1. QPri \in Nat /\ DOMAIN ppc = Threads
    BY PromiseAssumption DEF PromiseInv, PromiseTypes
  <1>2. /\ hint' = QPri /\ UNCHANGED <<linked, slip>> /\ ppc' = [ppc EXCEPT ![t] = "job"]
        /\ cutoff' = [cutoff EXCEPT ![t] = 0] /\ gp' = [gp EXCEPT ![t] = 0]
    BY DEF PR!YieldJob, PR!HelpJob, PR!TakeJob, PR!Forget, PR!Goto
  <1>3. HintTypes'
    BY <1>1, <1>2 DEF HintInv, HintTypes
  <1>4. \A u \in Threads : ppc'[u] = "sleep" => ppc[u] = "sleep"
    BY <1>1, <1>2
  <1> QED
    BY <1>1, <1>2, <1>3, <1>4 DEF HintInv, HintCovers

\* A search that finds nothing has looked at a queue that is linked, unless
\* the copy it started from is older than the last raise.
LEMMA HintLowered ==
    ASSUME PromiseInv, HintInv, NEW t \in Threads, PR!CondWait(t) \/ PR!HelpNone(t)
    PROVE  HintInv'
  <1>1. /\ QPri \in Nat /\ DOMAIN ppc = Threads /\ HintTypes /\ linked \in BOOLEAN
        /\ hint \in Int /\ gp[t] \in Int /\ cutoff[t] \in Int
    BY PromiseAssumption DEF HintInv, HintTypes, PromiseInv, PromiseTypes
  <1> DEFINE Search(from, down_to) ==
        /\ linked' = (linked /\ from < QPri)
        /\ hint' = IF down_to <= from THEN down_to - 1 ELSE from
        /\ ~ slip' => ~ slip /\ hint <= from
  <1>2. PICK from \in Int, down_to \in Int : Search(from, down_to)
    <2>1. CASE PR!CondWait(t)
      <3>1. hint <= hint
        BY <1>1
      <3>2. Search(hint, QPri)
        BY <2>1, <3>1 DEF PR!CondWait, PR!NoJob
      <3> HIDE DEF Search
      <3> QED
        BY <1>1, <3>2
    <2>2. CASE PR!HelpNone(t)
      <3>1. ~ (gp[t] < hint) => hint <= gp[t]
        BY <1>1
      <3>2. ~ slip' => ~ slip /\ ~ (gp[t] < hint)
        BY <2>2 DEF PR!HelpNone
      <3>3. Search(gp[t], cutoff[t])
        BY <2>2, <3>1, <3>2 DEF PR!HelpNone, PR!NoJob
      <3> HIDE DEF Search
      <3> QED
        BY <1>1, <3>3
    <2> QED
      BY <2>1, <2>2
  <1>3. HintTypes'
    <2>1. hint' \in Int
      BY <1>1, <1>2
    <2>2. slip' \in BOOLEAN
      BY <1>1 DEF HintTypes, PR!CondWait, PR!HelpNone
    <2>3. gp' \in [Threads -> Int] /\ cutoff' \in [Threads -> Int]
      BY <1>1 DEF HintTypes, PR!CondWait, PR!HelpNone, PR!Forget, PR!local
    <2> QED
      BY <2>1, <2>2, <2>3 DEF HintTypes
  <1>4. ASSUME ~ slip' PROVE ~ linked'
    <2>1. ~ slip /\ hint <= from
      BY <1>1, <1>2, <1>4
    <2>2. linked => QPri <= from
      BY <1>1, <2>1 DEF HintInv, HintCovers
    <2>3. ~ (linked /\ from < QPri)
      BY <1>1, <2>2
    <2> QED
      BY <1>2, <2>3
  <1> QED
    BY <1>3, <1>4 DEF HintInv, HintCovers

LEMMA HintNext == PromiseInv /\ HintInv /\ [WaitingNext]_allvars => HintInv'
  <1> SUFFICES ASSUME PromiseInv, HintInv, [WaitingNext]_allvars PROVE HintInv'
    OBVIOUS
  <1>0. DOMAIN ppc = Threads /\ hint \in Int
    BY DEF PromiseInv, PromiseTypes, HintInv, HintTypes
  <1>1. CASE UNCHANGED promisevars
    BY <1>1 DEF promisevars, HintInv, HintTypes, HintCovers
  <1>2. ASSUME NEW t \in Threads,
               \/ PR!Process(t) \/ PR!Wait(t) \/ PR!Help(t) \/ PR!Helping(t) \/ PR!Job(t)
               \/ PR!SpuriousWakeup(t)
        PROVE  HintInv'
    <2>1. ASSUME UNCHANGED <<linked, hint, slip, gp, cutoff>>,
                 \A u \in Threads : ppc'[u] = "sleep" => ppc[u] = "sleep"
          PROVE  HintInv'
      <3>1. HintTypes'
        BY <2>1 DEF HintInv, HintTypes
      <3> QED
        BY <2>1, <3>1, HintKept
    <2>2. CASE PR!ProcessLock(t) \/ PR!Relock(t) \/ PR!Woken(t)
      BY <1>0, <2>1, <2>2 DEF PR!ProcessLock, PR!Relock, PR!Woken, PR!Lock, PR!Goto, PR!promise, PR!queue, PR!local
    <2>3. CASE PR!Process(t) \/ PR!Test(t) \/ PR!SpuriousWakeup(t) \/ PR!Return(t)
      BY <1>0, <2>1, <2>3 DEF PR!Process, PR!Test, PR!SpuriousWakeup, PR!Return, PR!Goto,
                              PR!promise, PR!queue, PR!local
    <2>4. CASE PR!CondWait(t) \/ PR!HelpNone(t)
      BY <2>4, HintLowered
    <2>5. CASE PR!Enter(t)
      BY <1>0, <2>1, <2>5 DEF PR!Enter, PR!Goto, PR!queue, PR!local
    <2>6. CASE PR!Initiator(t)
      BY <2>6, HintScheduled DEF PR!Initiator, PR!local
    <2>7. CASE PR!YieldJob(t) \/ PR!HelpJob(t)
      BY <2>7, HintTaken
    <2>8. CASE PR!LoadState(t) \/ PR!StoreFulfilled(t) \/ PR!StoreState(t) \/ PR!Increment(t)
               \/ PR!IncrementUnlink(t)
      BY <1>0, <2>1, <2>8 DEF PR!LoadState, PR!StoreFulfilled, PR!StoreState, PR!Increment,
                              PR!IncrementUnlink, PR!Goto, PR!promise, PR!queue, PR!local
    <2>9. CASE PR!Announce(t) \/ PR!IncrementAnnounce(t)
      <3>1. PICK l \in {"next", "unlink"} : PR!Broadcast(t, l) /\ UNCHANGED <<linked, hint, slip, gp, cutoff>>
        BY <2>9 DEF PR!Announce, PR!IncrementAnnounce, PR!promise, PR!queue, PR!local
      <3>2. \A u \in Threads : ppc'[u] # "sleep"
        BY <3>1 DEF PR!Broadcast
      <3> QED
        BY <2>1, <3>1, <3>2
    <2>10. CASE PR!JobEnd(t)
      <3>1. resume[t] # "sleep" /\ UNCHANGED <<gp, cutoff>>
        BY <2>10 DEF PR!JobEnd, PromiseInv, PromiseTypes
      <3>2. CASE PR!Schedule(t, resume[t])
        BY <3>1, <3>2, HintScheduled
      <3>3. CASE ppc' = [ppc EXCEPT ![t] = resume[t]] /\ UNCHANGED <<queued, linked, hint, slip>>
        BY <1>0, <2>1, <3>1, <3>3
      <3> QED
        BY <2>10, <3>2, <3>3 DEF PR!JobEnd, PR!Goto, PR!queue
    <2>11. CASE PR!Help(t) \/ PR!ReadHint(t)
      <3>1. UNCHANGED <<linked, hint, slip>> /\ \A u \in Threads : ppc'[u] = "sleep" => ppc[u] = "sleep"
        BY <1>0, <2>11 DEF PR!Help, PR!ReadHint, PR!Goto, PR!promise, PR!queue
      <3>2. HintTypes'
        <4>1. \A c \in Cutoffs : c \in Int
          BY PromiseAssumption
        <4>2. CASE PR!Help(t)
          BY <1>0, <3>1, <4>1, <4>2 DEF PR!Help, HintInv, HintTypes
        <4>3. CASE PR!ReadHint(t)
          BY <1>0, <3>1, <4>3 DEF PR!ReadHint, HintInv, HintTypes
        <4> QED
          BY <2>11, <4>2, <4>3
      <3> QED
        BY <3>1, <3>2, HintKept
    <2> QED
      BY <1>2, <2>2, <2>3, <2>4, <2>5, <2>6, <2>7, <2>8, <2>9, <2>10, <2>11
         DEF PR!Wait, PR!Helping, PR!Job
  <1>3. CASE PR!Next
    <2>1. CASE PR!Finished
      <3>1. UNCHANGED promisevars
        BY <2>1 DEF PR!Finished, PR!vars, promisevars
      <3> QED
        BY <1>1, <3>1
    <2> QED
      BY <1>2, <1>3, <2>1 DEF PR!Next
  <1>4. PR!Next \/ UNCHANGED promisevars
    BY DEF WaitingNext, allvars
  <1> QED
    BY <1>1, <1>3, <1>4

LEMMA PromiseAlways == WaitingSpec => [](PromiseInv /\ HintInv)
  <1>1. WaitingInit => PromiseInv /\ HintInv
    BY PromiseInit, HintInit
  <1>2. HintInv => HintTypes
    BY DEF HintInv
  <1>3. PromiseInv /\ HintInv /\ [WaitingNext]_allvars => (PromiseInv /\ HintInv)'
    BY <1>2, PromiseNext, HintNext
  <1> QED
    BY <1>1, <1>3, PTL DEF WaitingSpec

\* The initiator runs once, whatever the number of threads that ask for the
\* promise at the same time: the state is tested again with the mutex.
THEOREM InitiatorRunsOnce == WaitingSpec => []InitiatedOnce
  <1>1. PromiseInv => InitiatedOnce
    <2> SUFFICES ASSUME PromiseInv PROVE InitiatedOnce
      OBVIOUS
    <2> DEFINE I == {t \in Threads : ppc[t] = "initiator"}
    <2>1. I \subseteq Carriers /\ \A t, u \in Carriers : t = u
      BY DEF Carriers, PromiseInv, OneCarrier
    <2>2. \A t \in I : ~ queued /\ done = 0
      BY <2>1 DEF PromiseInv, OneCarrier, PromiseLocal, PromiseAt
    <2>3. CASE I = {}
      <3>1. PR!Cardinality(I) = 0
        BY <2>3, FS_EmptySet DEF PR!Cardinality, Cardinality, PR!IsFiniteSet, IsFiniteSet
      <3> QED
        BY <3>1 DEF InitiatedOnce, PR!InitiatedOnce
    <2>4. CASE I # {}
      <3>1. PICK t \in I : TRUE
        BY <2>4
      <3>2. I = {t}
        BY <2>1, <3>1
      <3>3. PR!Cardinality(I) = 1
        <4>1. Cardinality({t}) = 1
          BY FS_Singleton
        <4>2. PR!Cardinality({t}) = Cardinality({t})
          BY DEF PR!Cardinality, Cardinality, PR!IsFiniteSet, IsFiniteSet
        <4> QED
          BY <3>2, <4>1, <4>2
      <3>4. ~ (queued \/ done > 0)
        BY <2>2, <3>1
      <3> QED
        BY <3>3, <3>4 DEF InitiatedOnce, PR!InitiatedOnce
    <2> QED
      BY <2>3, <2>4
  <1> QED
    BY <1>1, PromiseAlways, PTL

\* Who returns from cuflow_promise_process finds the state it asked for
\* reached, and it stays so, as the state only grows.
THEOREM ReturnedReady == WaitingSpec => []ReturnsReady
  <1>1. PromiseInv => ReturnsReady
    BY DEF PromiseInv, PromiseLocal, PromiseAt, ReturnsReady, PR!ReturnsReady
  <1> QED
    BY <1>1, PromiseAlways, PTL

\* Who waits for a value gets the one that was set: the state becomes
\* fulfilled after the value is stored, and no other transition reaches it.
THEOREM RightValue == WaitingSpec => []ValueRight
  <1>1. PromiseInv => ValueRight
    BY DEF PromiseInv, ValueComing, ValueAt, ValueRight, PR!ValueRight
  <1> QED
    BY <1>1, PromiseAlways, PTL

\* No thread sleeps on a promise that is fulfilled with nobody about to wake
\* it up, or on one that has work for it while the hint is not spoilt.
LEMMA PromiseForgetsNobody == PromiseInv /\ HintInv => PR!NoLostWakeup
  <1> SUFFICES ASSUME PromiseInv, HintInv, NEW t \in Threads, ppc[t] = "sleep"
               PROVE  /\ PR!HasValue /\ Want[t] = Fulfilled /\ state = Fulfilled => PR!WillBroadcast # {}
                      /\ queued => slip
    BY DEF PR!NoLostWakeup
  <1>1. queued => slip
    BY DEF PromiseInv, OneCarrier, HintInv, HintCovers
  <1>2. ASSUME PR!HasValue, Want[t] = Fulfilled, state = Fulfilled PROVE PR!WillBroadcast # {}
    <2>1. state >= Fulfilled
      BY <1>2, PromiseAssumption
    <2>2. PICK u \in Threads : ppc[u] = "broadcast"
      BY <1>2, <2>1 DEF PromiseInv, ValueComing, ValueAt
    <2> QED
      BY <2>2 DEF PR!WillBroadcast
  <1> QED
    BY <1>1, <1>2

-----------------------------------------------------------------------------
(* Read-write locks.                                                       *)

\* The threads counted in the word as readers, and as writers, those of them
\* that are jammed, and the others, who have access or are on their way.
CountedReaders ==
    {t \in Threads : depth[t] = 1 \/ rpc[t] \in {"read_slow", "reader_dorm", "reader_test", "undo"}}
CountedWriters ==
    {t \in Threads : rpc[t] \in {"write_slow", "writer_dorm", "writer_test", "write"}}
JammedOnes == {t \in Threads : jam[t] # "no"}
Unjammed == (CountedReaders \cup CountedWriters) \ JammedOnes
Wakers == {t \in Threads : rpc[t] = "wake_up"}

\* The threads that have access, or have been released to have it.
Reads(t) == depth[t] = 1 \/ (rpc[t] \in {"reader_dorm", "reader_test"} /\ jam[t] = "no")
Writes(t) == rpc[t] = "write" \/ (rpc[t] \in {"writer_dorm", "writer_test"} /\ jam[t] = "no")

RarexTypes ==
    /\ word \in Nat
    /\ chain \in Seq(Threads)
    /\ jam \in [Threads -> {"no", "read", "write"}]
    /\ rpc \in [Threads -> {"idle", "read_slow", "reader_dorm", "reader_test", "undo", "wake_up",
                            "write_slow", "writer_dorm", "writer_test", "write"}]
    /\ depth \in [Threads -> {0, 1}]

\* What a thread is about agrees with what it is jammed on and with the
\* chain.
LocalAt(t) ==
    /\ depth[t] = 1 => rpc[t] = "idle"
    /\ jam[t] = "read" => rpc[t] \in {"reader_dorm", "reader_test"}
    /\ jam[t] = "write" => rpc[t] \in {"writer_dorm", "writer_test"}
    /\ rpc[t] = "reader_dorm" => jam[t] = "read"
    /\ rpc[t] = "writer_dorm" => jam[t] = "write"
    /\ depth[t] = 1 \/ rpc[t] # "idle" => t \in RX!Running

RarexLocal == \A t \in Threads : LocalAt(t)

WordExact == word = Cardinality(CountedReaders) + WRITE_MULTIPLIER * Cardinality(CountedWriters)

AccessRight ==
    /\ \A t, u \in Threads : Writes(t) /\ Writes(u) => t = u
    /\ \A t, u \in Threads : ~ (Writes(t) /\ Reads(u))

\* The jammed threads have someone to release them: one who has yet to leave
\* the lock, with a writer around, or one who is about to wake up others.
ReleaseComing ==
    JammedOnes # {} /\ (Unjammed = {} \/ CountedWriters = {}) => Wakers # {}

RarexInv ==
    RarexTypes /\ RarexLocal /\ WordExact /\ AccessRight /\ ReleaseComing /\ asserts

-----------------------------------------------------------------------------
(* Counting.                                                               *)

LEMMA CardinalityInRX == \A S : RX!Cardinality(S) = Cardinality(S)
  BY DEF RX!Cardinality, Cardinality, RX!IsFiniteSet, IsFiniteSet

LEMMA Multiples ==
    /\ WRITE_MULTIPLIER \in Nat /\ WRITE_MULTIPLIER > Cardinality(Threads)
    /\ Cardinality(Threads) \in Nat
    /\ \A n \in Nat : /\ WRITE_MULTIPLIER * n \in Nat
                      /\ n = 0 => WRITE_MULTIPLIER * n = 0
                      /\ n = 1 => WRITE_MULTIPLIER * n = WRITE_MULTIPLIER
                      /\ n >= 1 => WRITE_MULTIPLIER * n >= WRITE_MULTIPLIER
                      /\ n >= 2 => WRITE_MULTIPLIER * n > WRITE_MULTIPLIER
                      /\ WRITE_MULTIPLIER * (n + 1) = WRITE_MULTIPLIER * n + WRITE_MULTIPLIER
  <1>1. IsFiniteSet(Threads)
    BY ThreadsFinite
  <1>2. Cardinality(Threads) \in Nat
    BY <1>1, FS_CardinalityType
  <1>3. WRITE_MULTIPLIER \in Nat /\ WRITE_MULTIPLIER > Cardinality(Threads)
    BY RarexAssumption
  <1>4. ASSUME NEW n \in Nat
        PROVE  /\ WRITE_MULTIPLIER * n \in Nat
               /\ n = 0 => WRITE_MULTIPLIER * n = 0
               /\ n = 1 => WRITE_MULTIPLIER * n = WRITE_MULTIPLIER
               /\ n >= 1 => WRITE_MULTIPLIER * n >= WRITE_MULTIPLIER
               /\ n >= 2 => WRITE_MULTIPLIER * n > WRITE_MULTIPLIER
               /\ WRITE_MULTIPLIER * (n + 1) = WRITE_MULTIPLIER * n + WRITE_MULTIPLIER
    <2>1. PICK m \in Nat : m = WRITE_MULTIPLIER /\ m > 0
      BY <1>2, <1>3
    <2>2. /\ m * n \in Nat /\ (n = 0 => m * n = 0) /\ (n = 1 => m * n = m)
          /\ m * (n + 1) = m * n + m
      BY <2>1
    <2>3. n >= 1 => m * n >= m
      BY <2>1
    <2>4. n >= 2 => m * n > m
      BY <2>1
    <2> QED
      BY <2>1, <2>2, <2>3, <2>4
  <1> QED
    BY <1>2, <1>3, <1>4

LEMMA Quotient ==
    ASSUME NEW m \in Nat, NEW r \in Nat, NEW n \in Nat, r < m
    PROVE  (r + m * n) \div m = n /\ (r + m * n) % m = r
  <1>1. PICK x \in Nat : x = r + m * n
    OBVIOUS
  <1>2. PICK q \in Int : q = x \div m
    BY <1>1
  <1>3. PICK s \in Int : s = x % m
    BY <1>1
  <1>4. x = m * q + s /\ 0 <= s /\ s < m
    BY <1>1, <1>2, <1>3
  <1>5. m * n + r = m * q + s
    BY <1>1, <1>4
  <1>6. ~ (q >= n + 1)
    <2>1. q >= n + 1 => m * q >= m * (n + 1)
      OBVIOUS
    <2>2. m * (n + 1) = m * n + m
      OBVIOUS
    <2> QED
      BY <1>4, <1>5, <2>1, <2>2
  <1>7. ~ (n >= q + 1)
    <2>1. n >= q + 1 => m * n >= m * (q + 1)
      OBVIOUS
    <2>2. m * (q + 1) = m * q + m
      OBVIOUS
    <2> QED
      BY <1>4, <1>5, <2>1, <2>2
  <1>8. q = n /\ s = r
    BY <1>4, <1>5, <1>6, <1>7
  <1> QED
    BY <1>1, <1>2, <1>3, <1>8

LEMMA RunningThreads == RarexTypes => RX!Running \subseteq Threads
  BY DEF RarexTypes, RX!Running

LEMMA JammedSame ==
    ASSUME RarexTypes, RarexLocal
    PROVE  RX!Jammed = JammedOnes
  <1>1. RX!Running \subseteq Threads
    BY RunningThreads
  <1>2. ASSUME NEW t \in Threads, jam[t] # "no" PROVE t \in RX!Running
    <2>1. jam[t] = "read" \/ jam[t] = "write"
      BY <1>2 DEF RarexTypes
    <2>2. rpc[t] # "idle"
      BY <2>1 DEF RarexLocal, LocalAt
    <2> QED
      BY <2>2 DEF RarexLocal, LocalAt
  <1> QED
    BY <1>1, <1>2 DEF RX!Jammed, JammedOnes

LEMMA Finite ==
    /\ IsFiniteSet(CountedReaders) /\ IsFiniteSet(CountedWriters)
    /\ IsFiniteSet(JammedOnes) /\ IsFiniteSet(Unjammed)
    /\ Cardinality(CountedReaders) \in Nat /\ Cardinality(CountedWriters) \in Nat
    /\ Cardinality(JammedOnes) \in Nat /\ Cardinality(Unjammed) \in Nat
  <1>1. /\ CountedReaders \subseteq Threads /\ CountedWriters \subseteq Threads
        /\ JammedOnes \subseteq Threads /\ Unjammed \subseteq Threads
    BY DEF CountedReaders, CountedWriters, JammedOnes, Unjammed
  <1>2. /\ IsFiniteSet(CountedReaders) /\ IsFiniteSet(CountedWriters)
        /\ IsFiniteSet(JammedOnes) /\ IsFiniteSet(Unjammed)
    BY <1>1, ThreadsFinite, FS_Subset
  <1> QED
    BY <1>2, FS_CardinalityType

LEMMA Kinds ==
    ASSUME RarexTypes, RarexLocal
    PROVE  /\ CountedReaders \cap CountedWriters = {}
           /\ JammedOnes \subseteq CountedReaders \cup CountedWriters
           /\ \A t \in JammedOnes : jam[t] = "write" <=> t \in CountedWriters
           /\ \A t \in JammedOnes : jam[t] = "read" <=> t \in CountedReaders
           /\ \A t \in Threads : Reads(t) => t \in CountedReaders /\ t \in Unjammed
           /\ \A t \in Threads : Writes(t) => t \in CountedWriters /\ t \in Unjammed
  <1>1. CountedReaders \cap CountedWriters = {}
    BY DEF CountedReaders, CountedWriters, RarexLocal, LocalAt
  <1>2. ASSUME NEW t \in Threads, jam[t] # "no"
        PROVE  \/ jam[t] = "read" /\ t \in CountedReaders /\ t \notin CountedWriters
               \/ jam[t] = "write" /\ t \in CountedWriters /\ t \notin CountedReaders
    <2>1. jam[t] = "read" \/ jam[t] = "write"
      BY <1>2 DEF RarexTypes
    <2> QED
      BY <2>1, <1>1 DEF RarexLocal, LocalAt, CountedReaders, CountedWriters
  <1>3. \A t \in JammedOnes : t \in Threads /\ jam[t] # "no"
    BY DEF JammedOnes
  <1>4. ASSUME NEW t \in Threads, Reads(t) PROVE t \in CountedReaders /\ t \in Unjammed
    BY <1>4 DEF Reads, CountedReaders, Unjammed, JammedOnes, RarexLocal, LocalAt, RarexTypes
  <1>5. ASSUME NEW t \in Threads, Writes(t) PROVE t \in CountedWriters /\ t \in Unjammed
    BY <1>5 DEF Writes, CountedWriters, Unjammed, JammedOnes, RarexLocal, LocalAt, RarexTypes
  <1> QED
    BY <1>1, <1>2, <1>3, <1>4, <1>5

\* What the word says, and what the slow paths make of it.
LEMMA WordSays ==
    ASSUME RarexTypes, RarexLocal, WordExact
    PROVE  /\ word < WRITE_MULTIPLIER <=> CountedWriters = {}
           /\ word = 0 <=> CountedReaders = {} /\ CountedWriters = {}
           /\ word = 1 => Cardinality(CountedReaders) = 1 /\ CountedWriters = {}
           /\ word \in Int /\ WRITE_MULTIPLIER \in Int
           /\ word > WRITE_MULTIPLIER <=>
                Cardinality(CountedReaders) + Cardinality(CountedWriters) >= 2 /\ CountedWriters # {}
           /\ RX!unaccounted_count = Cardinality(Unjammed)
           /\ RX!CountSane
  <1> DEFINE r == Cardinality(CountedReaders)
             w == Cardinality(CountedWriters)
             j == Cardinality(JammedOnes)
  <1>1. r \in Nat /\ w \in Nat /\ j \in Nat /\ Cardinality(Unjammed) \in Nat
    BY Finite
  <1>2. (r = 0 <=> CountedReaders = {}) /\ (w = 0 <=> CountedWriters = {})
    BY Finite, FS_EmptySet
  <1>3. CountedReaders \cap CountedWriters = {} /\ JammedOnes \subseteq CountedReaders \cup CountedWriters
    BY Kinds
  <1>4. Cardinality(CountedReaders \cup CountedWriters) = r + w
    <2>1. Cardinality(CountedReaders \cup CountedWriters) =
            Cardinality(CountedReaders) + Cardinality(CountedWriters)
                - Cardinality(CountedReaders \cap CountedWriters)
      BY Finite, FS_Union
    <2>2. Cardinality(CountedReaders \cap CountedWriters) = 0
      BY <1>3, FS_EmptySet
    <2> QED
      BY <1>1, <2>1, <2>2
  <1>5. r + w < WRITE_MULTIPLIER
    <2>1. CountedReaders \cup CountedWriters \subseteq Threads
      BY DEF CountedReaders, CountedWriters
    <2>2. Cardinality(CountedReaders \cup CountedWriters) <= Cardinality(Threads)
      BY <2>1, ThreadsFinite, FS_Subset
    <2> QED
      BY <1>1, <1>4, <2>2, Multiples
  <1>6. Cardinality(Unjammed) = r + w - j /\ j <= r + w
    <2>1. IsFiniteSet(CountedReaders \cup CountedWriters)
      BY Finite, FS_Union
    <2>2. Cardinality((CountedReaders \cup CountedWriters) \ JammedOnes) =
            Cardinality(CountedReaders \cup CountedWriters)
                - Cardinality((CountedReaders \cup CountedWriters) \cap JammedOnes)
      BY <2>1, FS_Difference
    <2>3. (CountedReaders \cup CountedWriters) \cap JammedOnes = JammedOnes
      BY <1>3
    <2>a. Cardinality((CountedReaders \cup CountedWriters) \cap JammedOnes) = j
      BY ONLY <2>3
    <2>b. Cardinality(Unjammed) = Cardinality(CountedReaders \cup CountedWriters)
                - Cardinality((CountedReaders \cup CountedWriters) \cap JammedOnes)
      BY ONLY <2>2 DEF Unjammed
    <2>4. Cardinality(Unjammed) = r + w - j
      BY ONLY <1>1, <1>4, <2>a, <2>b
    <2> QED
      BY <1>1, <2>4
  <1>7. word = r + WRITE_MULTIPLIER * w
    BY DEF WordExact
  <1> HIDE DEF r, w, j
  <1>8. PICK M \in Nat : M = WRITE_MULTIPLIER * w
    BY <1>1, Multiples
  <1>9. /\ WRITE_MULTIPLIER \in Nat
        /\ w = 0 => M = 0
        /\ w = 1 => M = WRITE_MULTIPLIER
        /\ w >= 1 => M >= WRITE_MULTIPLIER
        /\ w >= 2 => M > WRITE_MULTIPLIER
    BY <1>1, <1>8, Multiples
  <1>10. word = r + M
    BY <1>7, <1>8
  <1>11. /\ word < WRITE_MULTIPLIER <=> w = 0
         /\ word = 0 <=> r = 0 /\ w = 0
         /\ word = 1 => r = 1 /\ w = 0
         /\ word > WRITE_MULTIPLIER <=> r + w >= 2 /\ w # 0
    <2>1. word < WRITE_MULTIPLIER <=> w = 0
      BY ONLY <1>1, <1>5, <1>9, <1>10
    <2>2. word = 0 <=> r = 0 /\ w = 0
      BY ONLY <1>1, <1>5, <1>9, <1>10
    <2>3. word = 1 => r = 1 /\ w = 0
      BY ONLY <1>1, <1>5, <1>9, <1>10
    <2>4. word > WRITE_MULTIPLIER <=> r + w >= 2 /\ w # 0
      BY ONLY <1>1, <1>5, <1>9, <1>10
    <2> QED
      BY ONLY <2>1, <2>2, <2>3, <2>4
  <1>12. word \div WRITE_MULTIPLIER = w /\ word % WRITE_MULTIPLIER = r
    <2>1. r < WRITE_MULTIPLIER
      BY ONLY <1>1, <1>5, <1>9
    <2> QED
      BY ONLY <1>1, <1>7, <1>9, <2>1, Quotient
  <1>13. RX!TotalCount = r + w
    BY <1>1, <1>12 DEF RX!TotalCount
  <1>14. RX!Cardinality(RX!Jammed) = j
    BY JammedSame, CardinalityInRX DEF j
  <1>15. RX!unaccounted_count = Cardinality(Unjammed)
    BY <1>1, <1>6, <1>13, <1>14 DEF RX!unaccounted_count
  <1>16. RX!CountSane
    BY <1>6, <1>13, <1>14 DEF RX!CountSane
  <1>17. word \in Int
    BY DEF RarexTypes
  <1> QED
    BY <1>2, <1>9, <1>11, <1>15, <1>16, <1>17 DEF r, w

-----------------------------------------------------------------------------
(* Steps of one thread.                                                    *)

\* A step which moves one thread in or out of those counted, and writes the
\* word accordingly, keeps the word exact.
LEMMA WordKept ==
    ASSUME RarexTypes, WordExact, NEW t \in Threads,
           \A u \in Threads : u # t =>
                (u \in CountedReaders' <=> u \in CountedReaders)
                /\ (u \in CountedWriters' <=> u \in CountedWriters),
           \/ /\ word' = word
              /\ t \in CountedReaders' <=> t \in CountedReaders
              /\ t \in CountedWriters' <=> t \in CountedWriters
           \/ /\ word' = word + 1
              /\ t \in CountedReaders' /\ t \notin CountedReaders
              /\ t \in CountedWriters' <=> t \in CountedWriters
           \/ /\ word' = word - 1
              /\ t \notin CountedReaders' /\ t \in CountedReaders
              /\ t \in CountedWriters' <=> t \in CountedWriters
           \/ /\ word' = word + WRITE_MULTIPLIER
              /\ t \in CountedReaders' <=> t \in CountedReaders
              /\ t \in CountedWriters' /\ t \notin CountedWriters
           \/ /\ word' = word - WRITE_MULTIPLIER
              /\ t \in CountedReaders' <=> t \in CountedReaders
              /\ t \notin CountedWriters' /\ t \in CountedWriters
           \/ /\ word' = (word - 1) + WRITE_MULTIPLIER
              /\ t \notin CountedReaders' /\ t \in CountedReaders
              /\ t \in CountedWriters' /\ t \notin CountedWriters
    PROVE  WordExact'
  <1>1. /\ CountedReaders \subseteq Threads /\ CountedWriters \subseteq Threads
        /\ CountedReaders' \subseteq Threads /\ CountedWriters' \subseteq Threads
    BY DEF CountedReaders, CountedWriters
  <1>2. PICK r : r = Cardinality(CountedReaders)
    OBVIOUS
  <1>3. PICK w : w = Cardinality(CountedWriters)
    OBVIOUS
  <1>4. /\ IsFiniteSet(CountedReaders) /\ IsFiniteSet(CountedWriters) /\ r \in Nat /\ w \in Nat
    BY <1>2, <1>3, Finite
  <1>5. word = r + WRITE_MULTIPLIER * w /\ WRITE_MULTIPLIER \in Nat
    BY <1>2, <1>3, Multiples DEF WordExact
  <1>6. /\ t \in CountedReaders' /\ t \notin CountedReaders => Cardinality(CountedReaders') = r + 1
        /\ t \notin CountedReaders' /\ t \in CountedReaders =>
                Cardinality(CountedReaders') = r - 1 /\ r - 1 \in Nat
        /\ (t \in CountedReaders' <=> t \in CountedReaders) => Cardinality(CountedReaders') = r
    <2>1. CASE t \in CountedReaders' /\ t \notin CountedReaders
      <3>1. CountedReaders' = CountedReaders \cup {t}
        BY <1>1, <2>1
      <3> QED
        BY <1>2, <1>4, <2>1, <3>1, FS_AddElement
    <2>2. CASE t \notin CountedReaders' /\ t \in CountedReaders
      <3>1. CountedReaders' = CountedReaders \ {t}
        BY <1>1, <2>2
      <3>2. IsFiniteSet(CountedReaders') /\ Cardinality(CountedReaders') = r - 1
        BY <1>2, <1>4, <2>2, <3>1, FS_RemoveElement
      <3> QED
        BY <2>2, <3>2, FS_CardinalityType
    <2>3. CASE t \in CountedReaders' <=> t \in CountedReaders
      <3>1. CountedReaders' = CountedReaders
        BY <1>1, <2>3
      <3> QED
        BY <1>2, <2>3, <3>1
    <2> QED
      BY <2>1, <2>2, <2>3
  <1>7. /\ t \in CountedWriters' /\ t \notin CountedWriters => Cardinality(CountedWriters') = w + 1
        /\ t \notin CountedWriters' /\ t \in CountedWriters =>
                Cardinality(CountedWriters') = w - 1 /\ w - 1 \in Nat
        /\ (t \in CountedWriters' <=> t \in CountedWriters) => Cardinality(CountedWriters') = w
    <2>1. CASE t \in CountedWriters' /\ t \notin CountedWriters
      <3>1. CountedWriters' = CountedWriters \cup {t}
        BY <1>1, <2>1
      <3> QED
        BY <1>3, <1>4, <2>1, <3>1, FS_AddElement
    <2>2. CASE t \notin CountedWriters' /\ t \in CountedWriters
      <3>1. CountedWriters' = CountedWriters \ {t}
        BY <1>1, <2>2
      <3>2. IsFiniteSet(CountedWriters') /\ Cardinality(CountedWriters') = w - 1
        BY <1>3, <1>4, <2>2, <3>1, FS_RemoveElement
      <3> QED
        BY <2>2, <3>2, FS_CardinalityType
    <2>3. CASE t \in CountedWriters' <=> t \in CountedWriters
      <3>1. CountedWriters' = CountedWriters
        BY <1>1, <2>3
      <3> QED
        BY <1>3, <2>3, <3>1
    <2> QED
      BY <2>1, <2>2, <2>3
  <1>8. PICK M \in Nat : M = WRITE_MULTIPLIER * w
    BY <1>4, Multiples
  <1>9. WRITE_MULTIPLIER * (w + 1) = M + WRITE_MULTIPLIER
    BY <1>4, <1>8, Multiples
  <1>10. w - 1 \in Nat => WRITE_MULTIPLIER * (w - 1) = M - WRITE_MULTIPLIER
    <2> SUFFICES ASSUME w - 1 \in Nat PROVE WRITE_MULTIPLIER * (w - 1) = M - WRITE_MULTIPLIER
      OBVIOUS
    <2>1. PICK n \in Nat : n = w - 1
      OBVIOUS
    <2>2. n + 1 = w
      BY <1>4, <2>1
    <2>3. WRITE_MULTIPLIER * (n + 1) = WRITE_MULTIPLIER * n + WRITE_MULTIPLIER
          /\ WRITE_MULTIPLIER * n \in Nat
      BY <2>1, Multiples
    <2> QED
      BY <1>4, <1>5, <1>8, <2>1, <2>2, <2>3
  <1>11. word = r + M
    BY <1>5, <1>8
  <1> DEFINE Exact == word' = Cardinality(CountedReaders') + WRITE_MULTIPLIER * Cardinality(CountedWriters')
  <1>12. ASSUME word' = word, Cardinality(CountedReaders') = r, Cardinality(CountedWriters') = w PROVE Exact
    BY <1>5, <1>12
  <1>13. ASSUME word' = word + 1, Cardinality(CountedReaders') = r + 1, Cardinality(CountedWriters') = w
         PROVE  Exact
    BY <1>4, <1>8, <1>11, <1>13
  <1>14. ASSUME word' = word - 1, Cardinality(CountedReaders') = r - 1, Cardinality(CountedWriters') = w
         PROVE  Exact
    BY <1>4, <1>8, <1>11, <1>14
  <1>15. ASSUME word' = word + WRITE_MULTIPLIER, Cardinality(CountedReaders') = r,
                Cardinality(CountedWriters') = w + 1
         PROVE  Exact
    <2>1. Cardinality(CountedReaders') + WRITE_MULTIPLIER * Cardinality(CountedWriters')
            = r + (M + WRITE_MULTIPLIER)
      BY <1>9, <1>15
    <2> QED
      BY <1>4, <1>5, <1>11, <1>15, <2>1
  <1>16. ASSUME word' = word - WRITE_MULTIPLIER, Cardinality(CountedReaders') = r,
                Cardinality(CountedWriters') = w - 1, w - 1 \in Nat
         PROVE  Exact
    <2>1. Cardinality(CountedReaders') + WRITE_MULTIPLIER * Cardinality(CountedWriters')
            = r + (M - WRITE_MULTIPLIER)
      BY <1>10, <1>16
    <2> QED
      BY <1>4, <1>5, <1>11, <1>16, <2>1
  <1>17. ASSUME word' = (word - 1) + WRITE_MULTIPLIER, Cardinality(CountedReaders') = r - 1,
                Cardinality(CountedWriters') = w + 1
         PROVE  Exact
    <2>1. Cardinality(CountedReaders') + WRITE_MULTIPLIER * Cardinality(CountedWriters')
            = (r - 1) + (M + WRITE_MULTIPLIER)
      BY <1>9, <1>17
    <2> QED
      BY <1>4, <1>5, <1>11, <1>17, <2>1
  <1>18. WordExact' <=> Exact
    BY DEF WordExact
  <1> HIDE DEF Exact
  <1> QED
    BY <1>6, <1>7, <1>12, <1>13, <1>14, <1>15, <1>16, <1>17, <1>18

\* The others stay as they are.
OthersStay(t) ==
    \A u \in Threads : u # t => rpc'[u] = rpc[u] /\ depth'[u] = depth[u] /\ jam'[u] = jam[u]

LEMMA OthersCounted ==
    ASSUME NEW t \in Threads, OthersStay(t)
    PROVE  \A u \in Threads : u # t =>
                /\ u \in CountedReaders' <=> u \in CountedReaders
                /\ u \in CountedWriters' <=> u \in CountedWriters
                /\ u \in JammedOnes' <=> u \in JammedOnes
                /\ u \in Unjammed' <=> u \in Unjammed
                /\ u \in Wakers' <=> u \in Wakers
                /\ Writes(u)' <=> Writes(u)
                /\ Reads(u)' <=> Reads(u)
  <1> SUFFICES ASSUME NEW u \in Threads, u # t
               PROVE  /\ u \in CountedReaders' <=> u \in CountedReaders
                      /\ u \in CountedWriters' <=> u \in CountedWriters
                      /\ u \in JammedOnes' <=> u \in JammedOnes
                      /\ u \in Unjammed' <=> u \in Unjammed
                      /\ u \in Wakers' <=> u \in Wakers
                      /\ Writes(u)' <=> Writes(u)
                      /\ Reads(u)' <=> Reads(u)
    OBVIOUS
  <1>1. rpc'[u] = rpc[u] /\ depth'[u] = depth[u] /\ jam'[u] = jam[u]
    BY DEF OthersStay
  <1>2. /\ u \in CountedReaders' <=> u \in CountedReaders
        /\ u \in CountedWriters' <=> u \in CountedWriters
        /\ u \in JammedOnes' <=> u \in JammedOnes
        /\ u \in Wakers' <=> u \in Wakers
    BY <1>1 DEF CountedReaders, CountedWriters, JammedOnes, Wakers
  <1>3. u \in Unjammed' <=> u \in Unjammed
    BY <1>2 DEF Unjammed
  <1>4. (Writes(u)' <=> Writes(u)) /\ (Reads(u)' <=> Reads(u))
    BY <1>1 DEF Writes, Reads
  <1> QED
    BY <1>2, <1>3, <1>4

\* What a step of one thread has to show.
LEMMA OwnStep ==
    ASSUME RarexInv, NEW t \in Threads, RarexTypes', UNCHANGED chain, asserts', OthersStay(t),
           LocalAt(t)', WordExact', ReleaseComing',
           Writes(t)' => Writes(t) \/ \A u \in Threads : u # t => ~ Writes(u) /\ ~ Reads(u),
           Reads(t)' => Reads(t) \/ \A u \in Threads : u # t => ~ Writes(u),
           ~ (Writes(t)' /\ Reads(t)')
    PROVE  RarexInv'
  <1>1. RarexLocal'
    <2>1. RX!Running' = RX!Running
      BY DEF RX!Running
    <2>2. ASSUME NEW u \in Threads, u # t PROVE LocalAt(u)'
      <3>1. rpc'[u] = rpc[u] /\ depth'[u] = depth[u] /\ jam'[u] = jam[u]
        BY <2>2 DEF OthersStay
      <3> QED
        BY <2>1, <3>1 DEF RarexInv, RarexLocal, LocalAt
    <2> QED
      BY <2>2 DEF RarexLocal
  <1>2. AccessRight'
    <2>1. \A u, x \in Threads : Writes(u) /\ Writes(x) => u = x
      BY DEF RarexInv, AccessRight
    <2>2. \A u, x \in Threads : ~ (Writes(u) /\ Reads(x))
      BY DEF RarexInv, AccessRight
    <2>3. \A u \in Threads : u # t => (Writes(u)' <=> Writes(u)) /\ (Reads(u)' <=> Reads(u))
      BY OthersCounted
    <2>4. ASSUME NEW u \in Threads, NEW x \in Threads, Writes(u)', Writes(x)' PROVE u = x
      BY <2>1, <2>2, <2>3, <2>4
    <2>5. ASSUME NEW u \in Threads, NEW x \in Threads, Writes(u)', Reads(x)' PROVE FALSE
      BY <2>1, <2>2, <2>3, <2>5
    <2> QED
      BY <2>4, <2>5 DEF AccessRight
  <1> QED
    BY <1>1, <1>2 DEF RarexInv

LEMMA WakerComes ==
    ASSUME NEW t \in Threads, rpc'[t] = "wake_up"
    PROVE  ReleaseComing'
  BY DEF ReleaseComing, Wakers

LEMMA WriterAround ==
    ASSUME NEW t \in Unjammed', NEW u \in CountedWriters'
    PROVE  ReleaseComing'
  BY DEF ReleaseComing

LEMMA ReleaseKept ==
    ASSUME ReleaseComing, NEW t \in Threads, OthersStay(t), rpc[t] # "wake_up",
           t \in JammedOnes' => t \in JammedOnes,
           t \in Unjammed => t \in Unjammed' \/ JammedOnes = {},
           t \in CountedWriters => t \in CountedWriters' \/ JammedOnes = {}
    PROVE  ReleaseComing'
  <1>1. /\ JammedOnes' \subseteq Threads /\ Unjammed \subseteq Threads /\ CountedWriters \subseteq Threads
        /\ Wakers \subseteq Threads
    BY DEF JammedOnes, Unjammed, CountedReaders, CountedWriters, Wakers
  <1>2. \A u \in Threads : u # t =>
            /\ u \in CountedWriters' <=> u \in CountedWriters
            /\ u \in JammedOnes' <=> u \in JammedOnes
            /\ u \in Unjammed' <=> u \in Unjammed
            /\ u \in Wakers' <=> u \in Wakers
    BY OthersCounted
  <1>3. t \notin Wakers
    BY DEF Wakers
  <1>4. JammedOnes' # {} => JammedOnes # {}
    BY <1>1, <1>2
  <1>5. JammedOnes # {} => (Unjammed' = {} => Unjammed = {})
    BY <1>1, <1>2
  <1>6. JammedOnes # {} => (CountedWriters' = {} => CountedWriters = {})
    BY <1>1, <1>2
  <1>7. Wakers # {} => Wakers' # {}
    BY <1>1, <1>2, <1>3
  <1> QED
    BY <1>4, <1>5, <1>6, <1>7 DEF ReleaseComing

\* A thread which is about nothing.
LEMMA IdleThread ==
    ASSUME RarexInv, NEW t \in Threads, rpc[t] = "idle"
    PROVE  /\ jam[t] = "no" /\ depth[t] \in {0, 1}
           /\ depth[t] = 0 => t \notin CountedReaders
           /\ depth[t] = 1 => t \in CountedReaders /\ t \in Unjammed
           /\ t \notin CountedWriters /\ t \notin JammedOnes
           /\ word \in Nat /\ WRITE_MULTIPLIER \in Nat
           /\ DOMAIN rpc = Threads /\ DOMAIN depth = Threads /\ DOMAIN jam = Threads
  <1>1. /\ jam[t] \in {"no", "read", "write"} /\ depth[t] \in {0, 1} /\ word \in Nat
        /\ DOMAIN rpc = Threads /\ DOMAIN depth = Threads /\ DOMAIN jam = Threads
    BY DEF RarexInv, RarexTypes
  <1>2. jam[t] = "no"
    BY <1>1 DEF RarexInv, RarexLocal, LocalAt
  <1>3. WRITE_MULTIPLIER \in Nat
    BY Multiples
  <1> QED
    BY <1>1, <1>2, <1>3 DEF CountedReaders, CountedWriters, JammedOnes, Unjammed

\* Where the writers and the readers stand when the word is small.
LEMMA NoWriters ==
    ASSUME RarexInv, word < WRITE_MULTIPLIER
    PROVE  CountedWriters = {} /\ \A u \in Threads : ~ Writes(u)
  BY WordSays, Kinds DEF RarexInv

LEMMA ReadAttempt ==
    ASSUME RarexInv, NEW t \in Threads, NEW l \in {"read_slow", "undo"},
           t \in RX!Running, rpc[t] = "idle", depth[t] = 0,
           word' = word + 1, UNCHANGED <<chain, jam, asserts>>,
           \/ /\ word >= WRITE_MULTIPLIER
              /\ rpc' = [rpc EXCEPT ![t] = l] /\ UNCHANGED depth
           \/ /\ word < WRITE_MULTIPLIER
              /\ depth' = [depth EXCEPT ![t] = @ + 1] /\ UNCHANGED rpc
    PROVE  RarexInv'
  <1>1. /\ jam[t] = "no" /\ t \notin CountedReaders /\ t \notin CountedWriters /\ t \notin JammedOnes
        /\ word \in Nat /\ DOMAIN rpc = Threads /\ DOMAIN depth = Threads
    BY IdleThread
  <1>2. RarexTypes /\ RarexLocal /\ WordExact /\ AccessRight /\ ReleaseComing /\ asserts
    BY DEF RarexInv
  <1>3. \/ word >= WRITE_MULTIPLIER /\ rpc'[t] = l /\ depth'[t] = 0
        \/ word < WRITE_MULTIPLIER /\ rpc'[t] = "idle" /\ depth'[t] = 1
    BY <1>1
  <1>4. OthersStay(t)
    BY <1>1 DEF OthersStay
  <1>5. RarexTypes'
    <2>1. word' \in Nat
      BY <1>1
    <2>2. depth' \in [Threads -> {0, 1}]
      BY <1>2 DEF RarexTypes
    <2> QED
      BY <1>2, <2>1, <2>2 DEF RarexTypes
  <1>6. t \in CountedReaders' /\ t \notin CountedWriters' /\ t \notin JammedOnes' /\ t \in Unjammed'
    BY <1>1, <1>3 DEF CountedReaders, CountedWriters, JammedOnes, Unjammed
  <1>7. WordExact'
    BY <1>1, <1>2, <1>4, <1>6, OthersCounted, WordKept
  <1>8. ReleaseComing'
    BY <1>1, <1>2, <1>4, <1>6, ReleaseKept
  <1>9. LocalAt(t)'
    <2>1. t \in RX!Running'
      BY DEF RX!Running
    <2> QED
      BY <1>1, <1>3, <2>1 DEF LocalAt
  <1>10. ~ Writes(t)' /\ (Reads(t)' => \A u \in Threads : ~ Writes(u))
    BY <1>3, NoWriters DEF Writes, Reads
  <1> QED
    BY <1>2, <1>4, <1>5, <1>7, <1>8, <1>9, <1>10, OwnStep

LEMMA ReadLocks ==
    ASSUME RarexInv, NEW t \in Threads, RX!lock_read(t) \/ RX!trylock_read(t)
    PROVE  RarexInv'
  <1>1. depth[t] \in {0, 1} /\ word \in Nat /\ WRITE_MULTIPLIER \in Nat
    BY Multiples DEF RarexInv, RarexTypes
  <1>2. /\ t \in RX!Running /\ rpc[t] = "idle" /\ depth[t] = 0 /\ word' = word + 1
        /\ UNCHANGED <<chain, jam, asserts>>
    BY <1>1 DEF RX!lock_read, RX!trylock_read, RX!mutexed
  <1>3. CASE RX!lock_read(t)
    <2>1. \/ /\ word >= WRITE_MULTIPLIER
             /\ rpc' = [rpc EXCEPT ![t] = "read_slow"] /\ UNCHANGED depth
          \/ /\ word < WRITE_MULTIPLIER
             /\ depth' = [depth EXCEPT ![t] = @ + 1] /\ UNCHANGED rpc
      BY <1>1, <1>3 DEF RX!lock_read, RX!Goto, RX!Gets
    <2> QED
      BY <1>2, <2>1, ReadAttempt
  <1>4. CASE RX!trylock_read(t)
    <2>1. \/ /\ word >= WRITE_MULTIPLIER
             /\ rpc' = [rpc EXCEPT ![t] = "undo"] /\ UNCHANGED depth
          \/ /\ word < WRITE_MULTIPLIER
             /\ depth' = [depth EXCEPT ![t] = @ + 1] /\ UNCHANGED rpc
      BY <1>1, <1>4 DEF RX!trylock_read, RX!Goto, RX!Gets
    <2> QED
      BY <1>2, <2>1, ReadAttempt
  <1> QED
    BY <1>3, <1>4

\* A reader, or one who was counted as one, leaves: it wakes up others if a
\* writer is around.
LEMMA ReaderLeaves ==
    ASSUME RarexInv, NEW t \in Threads, RX!unlock_read(t) \/ RX!trylock_read_Undo(t)
    PROVE  RarexInv'
  <1>1. RarexTypes /\ RarexLocal /\ WordExact /\ AccessRight /\ ReleaseComing /\ asserts
    BY DEF RarexInv
  <1>2. /\ word \in Nat /\ WRITE_MULTIPLIER \in Nat /\ depth[t] \in {0, 1}
        /\ DOMAIN rpc = Threads /\ DOMAIN depth = Threads /\ DOMAIN jam = Threads
    BY <1>1, Multiples DEF RarexTypes
  <1>3. /\ word' = word - 1 /\ UNCHANGED <<chain, jam, asserts>>
        /\ \/ rpc[t] = "idle" /\ depth[t] = 1 /\ depth' = [depth EXCEPT ![t] = @ - 1]
           \/ rpc[t] = "undo" /\ UNCHANGED depth
        /\ rpc' = [rpc EXCEPT ![t] = IF word > WRITE_MULTIPLIER THEN "wake_up" ELSE "idle"]
    BY <1>2 DEF RX!unlock_read, RX!trylock_read_Undo, RX!mutexed, RX!Goto
  <1>4. /\ jam[t] = "no" /\ t \in RX!Running /\ rpc[t] \in {"idle", "undo"}
        /\ t \in CountedReaders /\ t \notin CountedWriters /\ t \notin JammedOnes /\ t \in Unjammed
    <2>1. jam[t] \in {"no", "read", "write"} /\ LocalAt(t)
      BY <1>1 DEF RarexTypes, RarexLocal
    <2>2. jam[t] = "no"
      BY <1>3, <2>1 DEF LocalAt
    <2> QED
      BY <1>3, <2>1, <2>2 DEF LocalAt, CountedReaders, CountedWriters, JammedOnes, Unjammed
  <1>5. /\ rpc'[t] = IF word > WRITE_MULTIPLIER THEN "wake_up" ELSE "idle"
        /\ depth'[t] = 0 /\ jam'[t] = "no"
    <2>1. depth[t] = 0 \/ rpc[t] = "idle"
      BY <1>1, <1>2 DEF RarexLocal, LocalAt
    <2> QED
      BY <1>2, <1>3, <1>4, <2>1
  <1>6. OthersStay(t)
    BY <1>2, <1>3 DEF OthersStay
  <1>7. RarexTypes'
    <2>1. word' \in Nat
      <3>1. word # 0
        BY <1>1, <1>4, WordSays
      <3> QED
        BY <1>2, <1>3, <3>1
    <2>2. depth' \in [Threads -> {0, 1}]
      BY <1>1, <1>3 DEF RarexTypes
    <2> QED
      BY <1>1, <1>3, <2>1, <2>2 DEF RarexTypes
  <1>8. t \notin CountedReaders' /\ t \notin CountedWriters' /\ t \notin JammedOnes'
    BY <1>5 DEF CountedReaders, CountedWriters, JammedOnes
  <1>9. WordExact'
    BY <1>1, <1>3, <1>4, <1>6, <1>8, OthersCounted, WordKept
  <1>10. ReleaseComing'
    <2>1. CASE word > WRITE_MULTIPLIER
      BY <1>5, <2>1, WakerComes
    <2>2. CASE ~ (word > WRITE_MULTIPLIER)
      <3>1. CASE CountedWriters = {}
        <4>1. JammedOnes # {} => Wakers # {}
          BY <1>1, <3>1 DEF ReleaseComing
        <4>2. JammedOnes' \subseteq JammedOnes
          BY <1>6, <1>8, OthersCounted DEF JammedOnes
        <4>3. Wakers \subseteq Wakers'
          <5>1. t \notin Wakers
            BY <1>4 DEF Wakers
          <5> QED
            BY <1>6, <5>1, OthersCounted DEF Wakers
        <4> QED
          BY <4>1, <4>2, <4>3 DEF ReleaseComing
      <3>2. CASE CountedWriters # {}
        <4>1. ~ (Cardinality(CountedReaders) + Cardinality(CountedWriters) >= 2)
          BY <1>1, <2>2, <3>2, WordSays
        <4>2. Cardinality(CountedReaders) >= 1 /\ Cardinality(CountedWriters) >= 1
          BY <1>4, <3>2, Finite, FS_EmptySet
        <4> QED
          BY <4>1, <4>2, Finite
      <3> QED
        BY <3>1, <3>2
    <2> QED
      BY <2>1, <2>2
  <1>11. LocalAt(t)'
    <2>1. t \in RX!Running'
      BY <1>3, <1>4 DEF RX!Running
    <2> QED
      BY <1>5, <2>1 DEF LocalAt
  <1>12. ~ Writes(t)' /\ ~ Reads(t)'
    BY <1>5 DEF Writes, Reads
  <1> QED
    BY <1>1, <1>3, <1>6, <1>7, <1>9, <1>10, <1>11, <1>12, OwnStep

LEMMA OnlyOrMore ==
    ASSUME NEW S, IsFiniteSet(S), NEW t \in S
    PROVE  /\ Cardinality(S) <= 1 => S = {t}
           /\ Cardinality(S) > 1 => \E x \in S : x # t
           /\ Cardinality(S) >= 1
  <1>1. IsFiniteSet(S \ {t}) /\ Cardinality(S \ {t}) = Cardinality(S) - 1
    BY FS_RemoveElement
  <1>2. Cardinality(S \ {t}) \in Nat /\ Cardinality(S) \in Nat
    BY <1>1, FS_CardinalityType
  <1>3. Cardinality(S \ {t}) = 0 <=> S \ {t} = {}
    BY <1>1, FS_EmptySet
  <1> QED
    BY <1>1, <1>2, <1>3

LEMMA WriteAttempt ==
    ASSUME RarexInv, NEW t \in Threads, NEW l \in {"write_slow", "write"},
           t \in RX!Running, rpc[t] = "idle", depth[t] = 0,
           word' = word + WRITE_MULTIPLIER, UNCHANGED <<chain, jam, asserts, depth>>,
           rpc' = [rpc EXCEPT ![t] = l],
           l = "write" => word = 0
    PROVE  RarexInv'
  <1>1. /\ jam[t] = "no" /\ t \notin CountedReaders /\ t \notin CountedWriters /\ t \notin JammedOnes
        /\ word \in Nat /\ WRITE_MULTIPLIER \in Nat /\ DOMAIN rpc = Threads /\ DOMAIN depth = Threads
    BY IdleThread
  <1>2. RarexTypes /\ RarexLocal /\ WordExact /\ AccessRight /\ ReleaseComing /\ asserts
    BY DEF RarexInv
  <1>3. rpc'[t] = l /\ depth'[t] = 0 /\ jam'[t] = "no"
    BY <1>1
  <1>4. OthersStay(t)
    BY <1>1 DEF OthersStay
  <1>5. RarexTypes'
    <2>1. word' \in Nat
      BY <1>1
    <2> QED
      BY <1>2, <2>1 DEF RarexTypes
  <1>6. t \notin CountedReaders' /\ t \in CountedWriters' /\ t \notin JammedOnes' /\ t \in Unjammed'
    BY <1>3 DEF CountedReaders, CountedWriters, JammedOnes, Unjammed
  <1>7. WordExact'
    BY <1>1, <1>2, <1>4, <1>6, OthersCounted, WordKept
  <1>8. ReleaseComing'
    BY <1>6, WriterAround
  <1>9. LocalAt(t)'
    <2>1. t \in RX!Running'
      BY DEF RX!Running
    <2> QED
      BY <1>3, <2>1 DEF LocalAt
  <1>10. ~ Reads(t)' /\ (Writes(t)' => \A u \in Threads : ~ Writes(u) /\ ~ Reads(u))
    <2>1. ~ Reads(t)'
      BY <1>3 DEF Reads
    <2>2. Writes(t)' => word = 0
      BY <1>3 DEF Writes
    <2>3. word = 0 => CountedReaders = {} /\ CountedWriters = {}
      BY <1>2, WordSays
    <2> QED
      BY <1>2, <2>1, <2>2, <2>3, Kinds
  <1> QED
    BY <1>2, <1>4, <1>5, <1>7, <1>8, <1>9, <1>10, OwnStep

LEMMA WriteLocks ==
    ASSUME RarexInv, NEW t \in Threads, RX!lock_write(t) \/ RX!trylock_write(t)
    PROVE  RarexInv'
  <1>1. word \in Nat /\ WRITE_MULTIPLIER \in Nat
    BY Multiples DEF RarexInv, RarexTypes
  <1>2. CASE RX!lock_write(t)
    <2>1. PICK l \in {"write_slow", "write"} : l = IF word > 0 THEN "write_slow" ELSE "write"
      OBVIOUS
    <2>2. /\ t \in RX!Running /\ rpc[t] = "idle" /\ depth[t] = 0 /\ word' = word + WRITE_MULTIPLIER
          /\ UNCHANGED <<chain, jam, asserts, depth>> /\ rpc' = [rpc EXCEPT ![t] = l]
      BY <1>2, <2>1 DEF RX!lock_write, RX!mutexed, RX!Goto
    <2>3. l = "write" => word = 0
      BY <1>1, <2>1
    <2> QED
      BY <2>2, <2>3, WriteAttempt
  <1>3. CASE RX!trylock_write(t)
    <2>1. PICK l \in {"write_slow", "write"} : l = "write"
      OBVIOUS
    <2>2. /\ t \in RX!Running /\ rpc[t] = "idle" /\ depth[t] = 0 /\ word = 0
          /\ word' = WRITE_MULTIPLIER
          /\ UNCHANGED <<chain, jam, asserts, depth>> /\ rpc' = [rpc EXCEPT ![t] = l]
      BY <1>3, <2>1 DEF RX!trylock_write, RX!mutexed, RX!Goto
    <2>3. word' = word + WRITE_MULTIPLIER
      BY <1>1, <2>2
    <2> QED
      BY <2>2, <2>3, WriteAttempt
  <1> QED
    BY <1>2, <1>3

LEMMA Promotion ==
    ASSUME RarexInv, NEW t \in Threads, RX!try_promote(t)
    PROVE  RarexInv'
  <1>1. /\ rpc[t] = "idle" /\ depth[t] = 1 /\ word = 1 /\ word' = WRITE_MULTIPLIER
        /\ depth' = [depth EXCEPT ![t] = 0] /\ rpc' = [rpc EXCEPT ![t] = "write"]
        /\ UNCHANGED <<chain, jam, asserts>>
    BY DEF RX!try_promote, RX!mutexed, RX!Goto
  <1>2. /\ jam[t] = "no" /\ t \in CountedReaders /\ t \notin CountedWriters /\ t \notin JammedOnes
        /\ WRITE_MULTIPLIER \in Nat /\ DOMAIN rpc = Threads /\ DOMAIN depth = Threads
    BY <1>1, IdleThread
  <1>3. RarexTypes /\ RarexLocal /\ WordExact /\ AccessRight /\ asserts
    BY DEF RarexInv
  <1>4. rpc'[t] = "write" /\ depth'[t] = 0 /\ jam'[t] = "no"
    BY <1>1, <1>2
  <1>5. OthersStay(t)
    BY <1>1, <1>2 DEF OthersStay
  <1>6. RarexTypes'
    <2>1. depth' \in [Threads -> {0, 1}] /\ word' \in Nat
      BY <1>1, <1>2, <1>3 DEF RarexTypes
    <2> QED
      BY <1>1, <1>3, <2>1 DEF RarexTypes
  <1>7. t \notin CountedReaders' /\ t \in CountedWriters' /\ t \notin JammedOnes' /\ t \in Unjammed'
    BY <1>4 DEF CountedReaders, CountedWriters, JammedOnes, Unjammed
  <1>8. WordExact'
    <2>1. word' = (word - 1) + WRITE_MULTIPLIER
      BY <1>1, <1>2
    <2> QED
      BY <1>2, <1>3, <1>5, <1>7, <2>1, OthersCounted, WordKept
  <1>9. ReleaseComing'
    BY <1>7, WriterAround
  <1>10. LocalAt(t)'
    <2>1. t \in RX!Running'
      BY <1>1, <1>3 DEF RX!Running, RarexLocal, LocalAt
    <2> QED
      BY <1>4, <2>1 DEF LocalAt
  <1>11. ~ Reads(t)'
    BY <1>4 DEF Reads
  <1>12. \A u \in Threads : u # t => ~ Writes(u) /\ ~ Reads(u)
    <2>1. Cardinality(CountedReaders) = 1 /\ CountedWriters = {}
      BY <1>1, <1>3, WordSays
    <2>2. CountedReaders = {t}
      BY <1>2, <2>1, Finite, OnlyOrMore
    <2> QED
      BY <1>3, <2>1, <2>2, Kinds
  <1> QED
    BY <1>1, <1>3, <1>5, <1>6, <1>8, <1>9, <1>10, <1>11, <1>12, OwnStep

\* A writer jams, or finds that no other thread has access.
LEMMA WriterWaits ==
    ASSUME RarexInv, NEW t \in Threads, RX!cuP_rarex_lock_write(t)
    PROVE  RarexInv'
  <1>1. RarexTypes /\ RarexLocal /\ WordExact /\ AccessRight /\ ReleaseComing /\ asserts
    BY DEF RarexInv
  <1>2. /\ DOMAIN rpc = Threads /\ DOMAIN jam = Threads /\ jam[t] \in {"no", "read", "write"}
        /\ depth[t] \in {0, 1} /\ LocalAt(t)
    BY <1>1 DEF RarexTypes, RarexLocal
  <1>3. /\ rpc[t] = "write_slow" /\ UNCHANGED <<word, chain, depth>>
        /\ asserts' = (asserts /\ RX!CountSane)
        /\ \/ /\ RX!unaccounted_count > 1
              /\ jam' = [jam EXCEPT ![t] = "write"] /\ rpc' = [rpc EXCEPT ![t] = "writer_dorm"]
           \/ /\ ~ (RX!unaccounted_count > 1)
              /\ UNCHANGED jam /\ rpc' = [rpc EXCEPT ![t] = "write"]
    BY DEF RX!cuP_rarex_lock_write, RX!Asserted, RX!Goto
  <1>4. /\ jam[t] = "no" /\ depth[t] = 0 /\ t \in RX!Running
        /\ t \notin CountedReaders /\ t \in CountedWriters /\ t \in Unjammed
    BY <1>2, <1>3 DEF LocalAt, CountedReaders, CountedWriters, JammedOnes, Unjammed
  <1>5. asserts' /\ RX!unaccounted_count = Cardinality(Unjammed) /\ Cardinality(Unjammed) \in Nat
    BY <1>1, <1>3, WordSays, Finite
  <1>6. OthersStay(t)
    BY <1>2, <1>3 DEF OthersStay
  <1>7. RarexTypes'
    BY <1>1, <1>3 DEF RarexTypes
  <1>8. \/ rpc'[t] = "writer_dorm" /\ jam'[t] = "write" /\ depth'[t] = 0 /\ Cardinality(Unjammed) > 1
        \/ rpc'[t] = "write" /\ jam'[t] = "no" /\ depth'[t] = 0 /\ Cardinality(Unjammed) <= 1
    BY <1>2, <1>3, <1>4, <1>5
  <1>9. t \notin CountedReaders' /\ t \in CountedWriters'
    BY <1>8 DEF CountedReaders, CountedWriters
  <1>10. WordExact'
    BY <1>1, <1>3, <1>4, <1>6, <1>9, OthersCounted, WordKept
  <1>11. LocalAt(t)'
    <2>1. t \in RX!Running'
      BY <1>3, <1>4 DEF RX!Running
    <2> QED
      BY <1>8, <2>1 DEF LocalAt
  <1>12. CASE Cardinality(Unjammed) > 1
    <2>1. rpc'[t] = "writer_dorm" /\ jam'[t] = "write" /\ depth'[t] = 0
      BY <1>5, <1>8, <1>12
    <2>2. PICK x \in Unjammed : x # t
      BY <1>4, <1>12, Finite, OnlyOrMore
    <2>3. x \in Unjammed'
      <3>1. x \in Threads
        BY DEF Unjammed, CountedReaders, CountedWriters
      <3> QED
        BY <1>6, <2>2, <3>1, OthersCounted
    <2>4. ReleaseComing'
      BY <1>9, <2>3, WriterAround
    <2>5. ~ Writes(t)' /\ ~ Reads(t)'
      BY <2>1 DEF Writes, Reads
    <2> QED
      BY <1>3, <1>5, <1>6, <1>7, <1>10, <1>11, <2>4, <2>5, OwnStep
  <1>13. CASE Cardinality(Unjammed) <= 1
    <2>1. rpc'[t] = "write" /\ jam'[t] = "no" /\ depth'[t] = 0
      BY <1>5, <1>8, <1>13
    <2>2. Unjammed = {t}
      BY <1>4, <1>13, Finite, OnlyOrMore
    <2>3. \A u \in Threads : u # t => ~ Writes(u) /\ ~ Reads(u)
      BY <1>1, <2>2, Kinds
    <2>4. t \in Unjammed'
      BY <1>9, <2>1 DEF Unjammed, JammedOnes
    <2>5. ReleaseComing'
      BY <1>9, <2>4, WriterAround
    <2>6. ~ Reads(t)'
      BY <2>1 DEF Reads
    <2> QED
      BY <1>3, <1>5, <1>6, <1>7, <1>10, <1>11, <2>3, <2>5, <2>6, OwnStep
  <1> QED
    BY <1>5, <1>12, <1>13

LEMMA WriterLeaves ==
    ASSUME RarexInv, NEW t \in Threads, RX!unlock_write(t)
    PROVE  RarexInv'
  <1>1. RarexTypes /\ RarexLocal /\ WordExact /\ AccessRight /\ ReleaseComing /\ asserts
    BY DEF RarexInv
  <1>2. /\ DOMAIN rpc = Threads /\ jam[t] \in {"no", "read", "write"} /\ depth[t] \in {0, 1} /\ LocalAt(t)
        /\ word \in Nat /\ WRITE_MULTIPLIER \in Nat
    BY <1>1, Multiples DEF RarexTypes, RarexLocal
  <1>3. /\ rpc[t] = "write" /\ word' = word - WRITE_MULTIPLIER
        /\ rpc' = [rpc EXCEPT ![t] = IF word > WRITE_MULTIPLIER THEN "wake_up" ELSE "idle"]
        /\ UNCHANGED <<chain, jam, asserts, depth>>
    BY DEF RX!unlock_write, RX!mutexed, RX!Goto
  <1>4. /\ jam[t] = "no" /\ depth[t] = 0 /\ t \in RX!Running
        /\ t \notin CountedReaders /\ t \in CountedWriters /\ t \notin JammedOnes
    BY <1>2, <1>3 DEF LocalAt, CountedReaders, CountedWriters, JammedOnes
  <1>5. /\ rpc'[t] = IF word > WRITE_MULTIPLIER THEN "wake_up" ELSE "idle"
        /\ depth'[t] = 0 /\ jam'[t] = "no"
    BY <1>2, <1>3, <1>4
  <1>6. OthersStay(t)
    BY <1>2, <1>3 DEF OthersStay
  <1>7. RarexTypes'
    <2>1. ~ (word < WRITE_MULTIPLIER)
      BY <1>1, <1>4, WordSays
    <2>2. word' \in Nat
      BY <1>2, <1>3, <2>1
    <2> QED
      BY <1>1, <1>3, <2>2 DEF RarexTypes
  <1>8. t \notin CountedReaders' /\ t \notin CountedWriters'
    BY <1>5 DEF CountedReaders, CountedWriters
  <1>9. WordExact'
    BY <1>1, <1>3, <1>4, <1>6, <1>8, OthersCounted, WordKept
  <1>10. ReleaseComing'
    <2>1. CASE word > WRITE_MULTIPLIER
      BY <1>5, <2>1, WakerComes
    <2>2. CASE ~ (word > WRITE_MULTIPLIER)
      <3>1. ~ (Cardinality(CountedReaders) + Cardinality(CountedWriters) >= 2)
        BY <1>1, <1>4, <2>2, WordSays
      <3>2. Cardinality(CountedWriters) >= 1
        BY <1>4, Finite, OnlyOrMore
      <3>3. Cardinality(CountedReaders) = 0 /\ Cardinality(CountedWriters) = 1
        BY <3>1, <3>2, Finite
      <3>4. CountedReaders = {} /\ CountedWriters = {t}
        BY <1>4, <3>3, Finite, FS_EmptySet, OnlyOrMore
      <3>5. JammedOnes = {}
        BY <1>1, <1>4, <3>4, Kinds
      <3>6. JammedOnes' = {}
        BY <1>3, <3>5 DEF JammedOnes
      <3> QED
        BY <3>6 DEF ReleaseComing
    <2> QED
      BY <2>1, <2>2
  <1>11. LocalAt(t)'
    <2>1. t \in RX!Running'
      BY <1>3, <1>4 DEF RX!Running
    <2> QED
      BY <1>5, <2>1 DEF LocalAt
  <1>12. ~ Writes(t)' /\ ~ Reads(t)'
    BY <1>5 DEF Writes, Reads
  <1> QED
    BY <1>1, <1>3, <1>6, <1>7, <1>9, <1>10, <1>11, <1>12, OwnStep

\* The test after a wait, and a wait that ends for no reason.
LEMMA WaitTested ==
    ASSUME RarexInv, NEW t \in Threads,
           RX!reader_test(t) \/ RX!writer_test(t) \/ RX!SpuriousWakeup(t)
    PROVE  RarexInv'
  <1>1. RarexTypes /\ RarexLocal /\ WordExact /\ AccessRight /\ ReleaseComing /\ asserts
    BY DEF RarexInv
  <1>2. /\ DOMAIN rpc = Threads /\ DOMAIN depth = Threads /\ jam[t] \in {"no", "read", "write"}
        /\ depth[t] \in {0, 1} /\ LocalAt(t)
    BY <1>1 DEF RarexTypes, RarexLocal
  <1>3. /\ UNCHANGED <<word, chain, jam, asserts>>
        /\ \/ /\ rpc[t] = "reader_test" /\ jam[t] = "no"
              /\ depth' = [depth EXCEPT ![t] = @ + 1] /\ rpc' = [rpc EXCEPT ![t] = "idle"]
           \/ /\ rpc[t] = "reader_test" /\ jam[t] # "no"
              /\ UNCHANGED depth /\ rpc' = [rpc EXCEPT ![t] = "reader_dorm"]
           \/ /\ rpc[t] = "writer_test" /\ jam[t] = "no"
              /\ UNCHANGED depth /\ rpc' = [rpc EXCEPT ![t] = "write"]
           \/ /\ rpc[t] = "writer_test" /\ jam[t] # "no"
              /\ UNCHANGED depth /\ rpc' = [rpc EXCEPT ![t] = "writer_dorm"]
           \/ /\ rpc[t] = "reader_dorm"
              /\ UNCHANGED depth /\ rpc' = [rpc EXCEPT ![t] = "reader_test"]
           \/ /\ rpc[t] = "writer_dorm"
              /\ UNCHANGED depth /\ rpc' = [rpc EXCEPT ![t] = "writer_test"]
    BY DEF RX!reader_test, RX!writer_test, RX!SpuriousWakeup, RX!mutexed, RX!Goto, RX!Gets
  <1>4. depth[t] = 0 /\ t \in RX!Running
    BY <1>2, <1>3 DEF LocalAt
  <1>5. jam'[t] = jam[t] /\
        \/ rpc[t] = "reader_test" /\ jam[t] = "no" /\ depth'[t] = 1 /\ rpc'[t] = "idle"
        \/ rpc[t] = "reader_test" /\ jam[t] = "read" /\ depth'[t] = 0 /\ rpc'[t] = "reader_dorm"
        \/ rpc[t] = "writer_test" /\ jam[t] = "no" /\ depth'[t] = 0 /\ rpc'[t] = "write"
        \/ rpc[t] = "writer_test" /\ jam[t] = "write" /\ depth'[t] = 0 /\ rpc'[t] = "writer_dorm"
        \/ rpc[t] = "reader_dorm" /\ jam[t] = "read" /\ depth'[t] = 0 /\ rpc'[t] = "reader_test"
        \/ rpc[t] = "writer_dorm" /\ jam[t] = "write" /\ depth'[t] = 0 /\ rpc'[t] = "writer_test"
    BY <1>2, <1>3, <1>4 DEF LocalAt
  <1>6. OthersStay(t)
    BY <1>2, <1>3 DEF OthersStay
  <1>7. RarexTypes'
    <2>1. depth' \in [Threads -> {0, 1}]
      BY <1>1, <1>3, <1>4 DEF RarexTypes
    <2>2. rpc' \in [Threads -> {"idle", "read_slow", "reader_dorm", "reader_test", "undo", "wake_up",
                                "write_slow", "writer_dorm", "writer_test", "write"}]
      BY <1>1, <1>3 DEF RarexTypes
    <2> QED
      BY <1>1, <1>3, <2>1, <2>2 DEF RarexTypes
  <1>8. /\ t \in CountedReaders' <=> t \in CountedReaders
        /\ t \in CountedWriters' <=> t \in CountedWriters
        /\ t \in JammedOnes' <=> t \in JammedOnes
    BY <1>4, <1>5 DEF CountedReaders, CountedWriters, JammedOnes
  <1>9. WordExact'
    BY <1>1, <1>3, <1>6, <1>8, OthersCounted, WordKept
  <1>10. ReleaseComing'
    <2>1. t \in Unjammed => t \in Unjammed'
      BY <1>8 DEF Unjammed
    <2>2. rpc[t] # "wake_up"
      BY <1>5
    <2> QED
      BY <1>1, <1>6, <1>8, <2>1, <2>2, ReleaseKept
  <1>11. LocalAt(t)'
    <2>1. t \in RX!Running'
      BY <1>3, <1>4 DEF RX!Running
    <2> QED
      BY <1>5, <2>1 DEF LocalAt
  <1>12. /\ Writes(t)' => Writes(t)
         /\ Reads(t)' => Reads(t)
         /\ ~ (Writes(t)' /\ Reads(t)')
    BY <1>5 DEF Writes, Reads
  <1> QED
    BY <1>1, <1>3, <1>6, <1>7, <1>9, <1>10, <1>11, <1>12, OwnStep

-----------------------------------------------------------------------------
(* The release of those who are jammed.                                    *)

\* A set of natural numbers which is not empty has a least one.
LEMMA LeastNatural ==
    ASSUME NEW S \in SUBSET Nat, S # {}
    PROVE  \E m \in S : \A n \in S : m <= n
  <1> DEFINE B == {0 .. n : n \in S}
  <1>1. \A n \in S : 0 .. n \in SUBSET Nat /\ IsFiniteSet(0 .. n)
    <2> SUFFICES ASSUME NEW n \in S PROVE 0 .. n \in SUBSET Nat /\ IsFiniteSet(0 .. n)
      OBVIOUS
    <2>1. n \in Nat
      OBVIOUS
    <2> QED
      BY <2>1, FS_Interval
  <1>2. B \subseteq FiniteSubsetsOf(Nat) /\ B # {}
    BY <1>1 DEF FiniteSubsetsOf
  <1>3. PICK b \in B : \A c \in B : ~ (<<c, b>> \in StrictSubsetOrdering(Nat))
    BY <1>2, FS_StrictSubsetOrderingWellFounded, WFMin
  <1>4. PICK m \in S : b = 0 .. m
    OBVIOUS
  <1>5. ASSUME NEW n \in S, n < m PROVE FALSE
    <2>1. n \in Nat /\ m \in Nat
      OBVIOUS
    <2>2. 0 .. n \in B /\ 0 .. n \subseteq 0 .. m /\ m \in 0 .. m /\ m \notin 0 .. n
      BY <2>1, <1>5
    <2>3. <<0 .. n, 0 .. m>> \in StrictSubsetOrdering(Nat)
      BY <2>2, <1>1 DEF StrictSubsetOrdering
    <2> QED
      BY <1>3, <1>4, <2>2, <2>3
  <1> QED
    BY <1>5

\* The hint is a priority, or -1 as a word.
\* The writer found on the chain is one that is jammed.
LEMMA FoundWriter ==
    ASSUME RarexTypes, \E u \in RX!Running : jam[u] = "write"
    PROVE  RX!FirstWriter \in Threads /\ jam[RX!FirstWriter] = "write"
  <1> DEFINE I == {i \in DOMAIN chain : jam[chain[i]] = "write"}
  <1>1. DOMAIN chain \subseteq Nat /\ \A i \in DOMAIN chain : chain[i] \in Threads
    BY DEF RarexTypes
  <1>2. \A i \in DOMAIN chain : \A j \in 1 .. (i - 1) : j \in DOMAIN chain /\ j < i
    BY DEF RarexTypes
  <1>3. I \in SUBSET Nat /\ I # {}
    BY <1>1 DEF RX!Running
  <1>4. PICK m \in I : \A n \in I : m <= n
    BY <1>3, LeastNatural
  <1>5. \A j \in 1 .. (m - 1) : jam[chain[j]] # "write"
    <2>1. m \in Nat
      BY <1>3
    <2> QED
      BY <1>2, <1>3, <1>4, <2>1
  <1>6. \E i \in DOMAIN chain :
            /\ jam[chain[i]] = "write"
            /\ \A j \in 1 .. (i - 1) : jam[chain[j]] # "write"
    BY <1>5
  <1>7. PICK i \in DOMAIN chain :
            /\ jam[chain[i]] = "write"
            /\ RX!FirstWriter = chain[i]
    BY <1>6 DEF RX!FirstWriter
  <1> QED
    BY <1>1, <1>7

\* A step which lets others go on to their tests leaves them in the classes
\* they were in.
LEMMA WokenStay ==
    ASSUME NEW t \in Threads, NEW u \in Threads, u # t, depth'[u] = depth[u],
           \/ rpc'[u] = rpc[u]
           \/ rpc[u] = "reader_dorm" /\ rpc'[u] = "reader_test"
           \/ rpc[u] = "writer_dorm" /\ rpc'[u] = "writer_test"
    PROVE  /\ u \in CountedReaders' <=> u \in CountedReaders
           /\ u \in CountedWriters' <=> u \in CountedWriters
  BY DEF CountedReaders, CountedWriters

LEMMA AllReadersReleased ==
    ASSUME RarexInv, NEW t \in Threads, word < WRITE_MULTIPLIER, UNCHANGED <<word, chain>>,
           RX!release_all_readers([rpc EXCEPT ![t] = "idle"]),
           \/ rpc[t] = "wake_up" /\ UNCHANGED depth
           \/ rpc[t] = "read_slow" /\ depth' = [depth EXCEPT ![t] = @ + 1]
    PROVE  RarexInv'
  <1>1. RarexTypes /\ RarexLocal /\ WordExact /\ asserts
    BY DEF RarexInv
  <1>2. /\ asserts' = (asserts /\ \A u \in RX!Jammed : jam[u] # "write")
        /\ jam' = [u \in Threads |-> IF u \in RX!Running THEN "no" ELSE jam[u]]
        /\ rpc' = [u \in Threads |-> IF [rpc EXCEPT ![t] = "idle"][u] = "reader_dorm" THEN "reader_test"
                                     ELSE [rpc EXCEPT ![t] = "idle"][u]]
    BY DEF RX!release_all_readers, RX!Asserted, RX!Woken
  <1>3. /\ DOMAIN rpc = Threads /\ DOMAIN depth = Threads
        /\ \A u \in Threads : LocalAt(u) /\ jam[u] \in {"no", "read", "write"} /\ depth[u] \in {0, 1}
    BY <1>1 DEF RarexTypes, RarexLocal
  <1>4. CountedWriters = {}
    BY NoWriters
  <1>5. asserts'
    <2>1. \A u \in JammedOnes : jam[u] # "write"
      BY <1>1, <1>4, Kinds
    <2> QED
      BY <1>1, <1>2, <2>1, JammedSame
  <1>6. \A u \in Threads : jam'[u] = "no"
    <2> SUFFICES ASSUME NEW u \in Threads PROVE jam'[u] = "no"
      OBVIOUS
    <2>1. jam[u] # "no" => u \in RX!Running
      BY <1>3 DEF LocalAt
    <2> QED
      BY <1>2, <2>1
  <1>7. \A u \in Threads : u # t =>
            rpc'[u] = IF rpc[u] = "reader_dorm" THEN "reader_test" ELSE rpc[u]
    BY <1>2, <1>3
  <1>8. rpc'[t] = "idle"
    BY <1>2, <1>3
  <1>9. depth[t] = 0 /\ jam[t] = "no" /\ t \in RX!Running
    BY <1>3 DEF LocalAt
  <1>10. (\A u \in Threads : u # t => depth'[u] = depth[u]) /\ depth'[t] \in {0, 1}
         /\ depth'[t] = IF rpc[t] = "read_slow" THEN 1 ELSE 0
    BY <1>3, <1>9
  <1>11. RarexTypes'
    <2>1. depth' \in [Threads -> {0, 1}]
      BY <1>1, <1>9 DEF RarexTypes
    <2>2. jam' \in [Threads -> {"no", "read", "write"}]
      BY <1>2, <1>3
    <2>3. rpc' \in [Threads -> {"idle", "read_slow", "reader_dorm", "reader_test", "undo", "wake_up",
                                "write_slow", "writer_dorm", "writer_test", "write"}]
      BY <1>1, <1>2 DEF RarexTypes
    <2> QED
      BY <1>1, <2>1, <2>2, <2>3 DEF RarexTypes
  <1>12. \A u \in Threads : u # t =>
            /\ u \in CountedReaders' <=> u \in CountedReaders
            /\ u \in CountedWriters' <=> u \in CountedWriters
    BY <1>7, <1>10, WokenStay
  <1>13. /\ t \in CountedReaders' <=> t \in CountedReaders
         /\ t \in CountedWriters' <=> t \in CountedWriters
    BY <1>8, <1>9, <1>10 DEF CountedReaders, CountedWriters
  <1>14. WordExact'
    BY <1>1, <1>12, <1>13, WordKept
  <1>15. \A u \in Threads : u \notin CountedWriters'
    BY <1>4, <1>12, <1>13
  <1>16. RarexLocal'
    <2>1. RX!Running' = RX!Running
      BY DEF RX!Running
    <2>2. ASSUME NEW u \in Threads, u # t PROVE LocalAt(u)'
      <3>1. jam'[u] = "no" /\ depth'[u] = depth[u] /\ LocalAt(u) /\ rpc[u] # "writer_dorm"
        <4>1. u \notin CountedWriters
          BY <1>4
        <4> QED
          BY <1>3, <1>6, <1>10, <2>2, <4>1 DEF CountedWriters
      <3>2. rpc'[u] = IF rpc[u] = "reader_dorm" THEN "reader_test" ELSE rpc[u]
        BY <1>7, <2>2
      <3> QED
        BY <2>1, <3>1, <3>2 DEF LocalAt
    <2>3. LocalAt(t)'
      BY <1>6, <1>8, <1>9, <2>1 DEF LocalAt
    <2> QED
      BY <2>2, <2>3 DEF RarexLocal
  <1>17. AccessRight'
    <2>1. \A u \in Threads : ~ Writes(u)'
      BY <1>15 DEF Writes, CountedWriters
    <2> QED
      BY <2>1 DEF AccessRight
  <1>18. ReleaseComing'
    <2>1. JammedOnes' = {}
      BY <1>6 DEF JammedOnes
    <2> QED
      BY <2>1 DEF ReleaseComing
  <1> QED
    BY <1>5, <1>11, <1>14, <1>16, <1>17, <1>18 DEF RarexInv

LEMMA WriterReleased ==
    ASSUME RarexInv, NEW t \in Threads, NEW j, NEW l,
           ~ (word < WRITE_MULTIPLIER), UNCHANGED <<word, chain, depth>>,
           RX!release_a_writer(j, [rpc EXCEPT ![t] = l]),
           \/ rpc[t] = "wake_up" /\ j = jam /\ l = "idle" /\ Unjammed = {}
           \/ rpc[t] = "read_slow" /\ j = [jam EXCEPT ![t] = "read"] /\ l = "reader_dorm" /\ Unjammed = {t}
    PROVE  RarexInv'
  <1>1. RarexTypes /\ RarexLocal /\ WordExact /\ asserts
    BY DEF RarexInv
  <1>2. /\ DOMAIN rpc = Threads /\ DOMAIN jam = Threads
        /\ \A u \in Threads : LocalAt(u) /\ jam[u] \in {"no", "read", "write"} /\ depth[u] \in {0, 1}
    BY <1>1 DEF RarexTypes, RarexLocal
  <1>3. depth[t] = 0 /\ jam[t] = "no" /\ t \in RX!Running /\ t \notin CountedWriters
    BY <1>2 DEF LocalAt, CountedWriters
  <1>4. \E u \in RX!Running : jam[u] = "write"
    <2>1. CountedWriters # {}
      BY <1>1, WordSays
    <2>2. PICK u \in CountedWriters : TRUE
      BY <2>1
    <2>3. u \in JammedOnes
      BY <1>3, <2>2 DEF Unjammed
    <2>4. jam[u] = "write" /\ u \in RX!Jammed
      BY <1>1, <2>2, <2>3, Kinds, JammedSame
    <2> QED
      BY <2>4 DEF RX!Jammed
  <1>5. PICK f \in Threads : f = RX!FirstWriter /\ jam[f] = "write"
    BY <1>1, <1>4, FoundWriter
  <1>6. /\ asserts' = (asserts /\ \E u \in RX!Running : jam[u] = "write")
        /\ jam' = [j EXCEPT ![f] = "no"]
        /\ rpc' = [u \in Threads |-> IF [rpc EXCEPT ![t] = l][u] = "writer_dorm" THEN "writer_test"
                                     ELSE [rpc EXCEPT ![t] = l][u]]
    BY <1>4, <1>5 DEF RX!release_a_writer, RX!Asserted, RX!Woken
  <1>7. asserts'
    BY <1>1, <1>4, <1>6
  <1>8. f # t /\ f \in CountedWriters /\ f \in RX!Running
    BY <1>2, <1>3, <1>5 DEF LocalAt, CountedWriters
  <1>9. \A u \in Threads : u # t =>
            rpc'[u] = IF rpc[u] = "writer_dorm" THEN "writer_test" ELSE rpc[u]
    BY <1>2, <1>6
  <1>10. rpc'[t] = l /\ l \in {"idle", "reader_dorm"}
    BY <1>2, <1>6
  <1>11. jam'[f] = "no" /\ \A u \in Threads : u # t /\ u # f => jam'[u] = jam[u]
    BY <1>2, <1>6, <1>8
  <1>12. jam'[t] = IF l = "reader_dorm" THEN "read" ELSE "no"
    BY <1>2, <1>3, <1>6, <1>8
  <1>13. RarexTypes'
    <2>1. jam' \in [Threads -> {"no", "read", "write"}]
      BY <1>1, <1>6 DEF RarexTypes
    <2>2. rpc' \in [Threads -> {"idle", "read_slow", "reader_dorm", "reader_test", "undo", "wake_up",
                                "write_slow", "writer_dorm", "writer_test", "write"}]
      BY <1>1, <1>6, <1>10 DEF RarexTypes
    <2> QED
      BY <1>1, <2>1, <2>2 DEF RarexTypes
  <1>14. \A u \in Threads : u # t =>
            /\ u \in CountedReaders' <=> u \in CountedReaders
            /\ u \in CountedWriters' <=> u \in CountedWriters
    BY <1>9, WokenStay
  <1>15. /\ t \in CountedReaders' <=> t \in CountedReaders
         /\ t \in CountedWriters' <=> t \in CountedWriters
    BY <1>3, <1>10 DEF CountedReaders, CountedWriters
  <1>16. WordExact'
    BY <1>1, <1>14, <1>15, WordKept
  <1>17. RarexLocal'
    <2>1. RX!Running' = RX!Running
      BY DEF RX!Running
    <2>2. ASSUME NEW u \in Threads, u # t, u # f PROVE LocalAt(u)'
      <3>1. jam'[u] = jam[u] /\ depth'[u] = depth[u] /\ LocalAt(u)
        BY <1>2, <1>11, <2>2
      <3>2. rpc'[u] = IF rpc[u] = "writer_dorm" THEN "writer_test" ELSE rpc[u]
        BY <1>9, <2>2
      <3> QED
        BY <2>1, <3>1, <3>2 DEF LocalAt
    <2>3. LocalAt(t)'
      BY <1>3, <1>10, <1>12, <2>1 DEF LocalAt
    <2>4. LocalAt(f)'
      <3>1. rpc'[f] = "writer_test" /\ depth'[f] = depth[f] /\ LocalAt(f)
        BY <1>2, <1>5, <1>8, <1>9 DEF LocalAt
      <3> QED
        BY <1>5, <1>8, <1>11, <2>1, <3>1 DEF LocalAt
    <2> QED
      BY <2>2, <2>3, <2>4 DEF RarexLocal
  <1>18. AccessRight'
    <2>1. ASSUME NEW u \in Threads, Writes(u)' PROVE u = f
      <3>1. u # t
        BY <1>10, <2>1 DEF Writes
      <3>2. CASE u # f
        <4>1. Writes(u)
          BY <1>2, <1>9, <1>11, <2>1, <3>1, <3>2 DEF Writes, LocalAt
        <4>2. u \in Unjammed
          BY <1>1, <4>1, Kinds
        <4> QED
          BY <3>1, <4>2
      <3> QED
        BY <3>2
    <2>2. ASSUME NEW u \in Threads, Reads(u)' PROVE FALSE
      <3>1. u # t
        BY <1>3, <1>10, <1>12, <2>2 DEF Reads
      <3>2. u # f
        BY <1>2, <1>5, <1>8, <1>9, <2>2 DEF Reads, LocalAt
      <3>3. Reads(u)
        BY <1>9, <1>11, <2>2, <3>1, <3>2 DEF Reads
      <3>4. u \in Unjammed
        BY <1>1, <3>3, Kinds
      <3> QED
        BY <3>1, <3>4
    <2> QED
      BY <2>1, <2>2 DEF AccessRight
  <1>19. ReleaseComing'
    <2>1. f \in CountedWriters'
      BY <1>8, <1>14
    <2>2. f \in Unjammed'
      BY <1>11, <2>1 DEF Unjammed, JammedOnes
    <2> QED
      BY <2>1, <2>2, WriterAround
  <1> QED
    BY <1>7, <1>13, <1>16, <1>17, <1>18, <1>19 DEF RarexInv

\* The slow path of a reader.
LEMMA SlowRead ==
    ASSUME RarexInv, NEW t \in Threads, RX!cuP_rarex_lock_read(t)
    PROVE  RarexInv'
  <1>1. RarexTypes /\ RarexLocal /\ WordExact /\ AccessRight /\ ReleaseComing /\ asserts
    BY DEF RarexInv
  <1>2. /\ DOMAIN rpc = Threads /\ DOMAIN jam = Threads /\ DOMAIN depth = Threads
        /\ jam[t] \in {"no", "read", "write"} /\ depth[t] \in {0, 1} /\ LocalAt(t)
        /\ word \in Nat /\ WRITE_MULTIPLIER \in Nat
    BY <1>1, Multiples DEF RarexTypes, RarexLocal
  <1>3. /\ rpc[t] = "read_slow" /\ UNCHANGED <<word, chain>>
        /\ \/ /\ word < WRITE_MULTIPLIER /\ word > 1
              /\ depth' = [depth EXCEPT ![t] = @ + 1]
              /\ RX!release_all_readers([rpc EXCEPT ![t] = "idle"])
           \/ /\ word < WRITE_MULTIPLIER /\ ~ (word > 1)
              /\ depth' = [depth EXCEPT ![t] = @ + 1]
              /\ rpc' = [rpc EXCEPT ![t] = "idle"] /\ UNCHANGED <<jam, asserts>>
           \/ /\ ~ (word < WRITE_MULTIPLIER) /\ RX!unaccounted_count = 1
              /\ UNCHANGED depth
              /\ RX!release_a_writer([jam EXCEPT ![t] = "read"], [rpc EXCEPT ![t] = "reader_dorm"])
           \/ /\ ~ (word < WRITE_MULTIPLIER) /\ RX!unaccounted_count # 1
              /\ UNCHANGED depth
              /\ jam' = [jam EXCEPT ![t] = "read"] /\ rpc' = [rpc EXCEPT ![t] = "reader_dorm"]
              /\ asserts' = (asserts /\ RX!CountSane)
    BY DEF RX!cuP_rarex_lock_read, RX!Asserted, RX!Goto, RX!Gets
  <1>4. /\ jam[t] = "no" /\ depth[t] = 0 /\ t \in RX!Running
        /\ t \in CountedReaders /\ t \notin CountedWriters /\ t \in Unjammed
    BY <1>2, <1>3 DEF LocalAt, CountedReaders, CountedWriters, JammedOnes, Unjammed
  <1>5. RX!unaccounted_count = Cardinality(Unjammed) /\ Cardinality(Unjammed) \in Nat /\ RX!CountSane
    BY <1>1, WordSays, Finite
  <1>6. CASE word < WRITE_MULTIPLIER /\ word > 1
    <2>1. /\ depth' = [depth EXCEPT ![t] = @ + 1]
          /\ RX!release_all_readers([rpc EXCEPT ![t] = "idle"])
      BY <1>3, <1>6
    <2> QED
      BY <1>3, <1>6, <2>1, AllReadersReleased
  <1>7. CASE word < WRITE_MULTIPLIER /\ ~ (word > 1)
    <2>1. /\ depth' = [depth EXCEPT ![t] = @ + 1]
          /\ rpc' = [rpc EXCEPT ![t] = "idle"] /\ UNCHANGED <<jam, asserts>>
      BY <1>3, <1>7
    <2>2. rpc'[t] = "idle" /\ depth'[t] = 1 /\ jam'[t] = "no"
      BY <1>2, <1>4, <2>1
    <2>3. OthersStay(t)
      BY <1>2, <2>1 DEF OthersStay
    <2>4. RarexTypes'
      <3>1. depth' \in [Threads -> {0, 1}]
        BY <1>1, <1>4, <2>1 DEF RarexTypes
      <3> QED
        BY <1>1, <1>3, <2>1, <3>1 DEF RarexTypes
    <2>5. t \in CountedReaders' /\ t \notin CountedWriters'
      BY <2>2 DEF CountedReaders, CountedWriters
    <2>6. WordExact'
      BY <1>1, <1>3, <1>4, <2>3, <2>5, OthersCounted, WordKept
    <2>7. ReleaseComing'
      <3>1. word = 1
        BY <1>1, <1>2, <1>4, <1>7, WordSays
      <3>2. Cardinality(CountedReaders) = 1 /\ CountedWriters = {}
        BY <1>1, <3>1, WordSays
      <3>3. CountedReaders = {t}
        BY <1>4, <3>2, Finite, OnlyOrMore
      <3>4. JammedOnes = {}
        BY <1>1, <1>4, <3>2, <3>3, Kinds DEF Unjammed
      <3>5. JammedOnes' = {}
        BY <2>1, <3>4 DEF JammedOnes
      <3> QED
        BY <3>5 DEF ReleaseComing
    <2>8. LocalAt(t)'
      <3>1. t \in RX!Running'
        BY <1>3, <1>4 DEF RX!Running
      <3> QED
        BY <2>2, <3>1 DEF LocalAt
    <2>9. ~ Writes(t)' /\ \A u \in Threads : ~ Writes(u)
      BY <1>7, <2>2, NoWriters DEF Writes
    <2> QED
      BY <1>1, <1>3, <2>1, <2>3, <2>4, <2>6, <2>7, <2>8, <2>9, OwnStep
  <1>8. CASE ~ (word < WRITE_MULTIPLIER) /\ RX!unaccounted_count = 1
    <2>1. /\ UNCHANGED depth
          /\ RX!release_a_writer([jam EXCEPT ![t] = "read"], [rpc EXCEPT ![t] = "reader_dorm"])
      BY <1>3, <1>8
    <2>2. Unjammed = {t}
      BY <1>4, <1>5, <1>8, Finite, OnlyOrMore
    <2> QED
      BY <1>3, <1>8, <2>1, <2>2, WriterReleased
  <1>9. CASE ~ (word < WRITE_MULTIPLIER) /\ RX!unaccounted_count # 1
    <2>1. /\ UNCHANGED depth
          /\ jam' = [jam EXCEPT ![t] = "read"] /\ rpc' = [rpc EXCEPT ![t] = "reader_dorm"]
          /\ asserts'
      BY <1>1, <1>3, <1>5, <1>9
    <2>2. rpc'[t] = "reader_dorm" /\ depth'[t] = 0 /\ jam'[t] = "read"
      BY <1>2, <1>4, <2>1
    <2>3. OthersStay(t)
      BY <1>2, <2>1 DEF OthersStay
    <2>4. RarexTypes'
      BY <1>1, <1>3, <2>1 DEF RarexTypes
    <2>5. t \in CountedReaders' /\ t \notin CountedWriters'
      BY <2>2 DEF CountedReaders, CountedWriters
    <2>6. WordExact'
      BY <1>1, <1>3, <1>4, <2>3, <2>5, OthersCounted, WordKept
    <2>7. ReleaseComing'
      <3>1. Cardinality(Unjammed) > 1
        BY <1>4, <1>5, <1>9, Finite, OnlyOrMore
      <3>2. PICK x \in Unjammed : x # t
        BY <1>4, <3>1, Finite, OnlyOrMore
      <3>3. PICK w \in CountedWriters : TRUE
        BY <1>1, <1>9, WordSays
      <3>4. x \in Threads /\ w \in Threads /\ w # t
        BY <1>4 DEF Unjammed, CountedReaders, CountedWriters
      <3>5. x \in Unjammed' /\ w \in CountedWriters'
        BY <2>3, <3>2, <3>4, OthersCounted
      <3> QED
        BY <3>5, WriterAround
    <2>8. LocalAt(t)'
      <3>1. t \in RX!Running'
        BY <1>3, <1>4 DEF RX!Running
      <3> QED
        BY <2>2, <3>1 DEF LocalAt
    <2>9. ~ Writes(t)' /\ ~ Reads(t)'
      BY <2>2 DEF Writes, Reads
    <2> QED
      BY <1>1, <1>3, <2>1, <2>3, <2>4, <2>6, <2>7, <2>8, <2>9, OwnStep
  <1> QED
    BY <1>6, <1>7, <1>8, <1>9

LEMMA WakeUp ==
    ASSUME RarexInv, NEW t \in Threads, RX!wake_up(t)
    PROVE  RarexInv'
  <1>1. RarexTypes /\ RarexLocal /\ WordExact /\ AccessRight /\ ReleaseComing /\ asserts
    BY DEF RarexInv
  <1>2. /\ DOMAIN rpc = Threads /\ jam[t] \in {"no", "read", "write"} /\ depth[t] \in {0, 1}
        /\ LocalAt(t) /\ word \in Nat /\ WRITE_MULTIPLIER \in Nat
    BY <1>1, Multiples DEF RarexTypes, RarexLocal
  <1>3. /\ rpc[t] = "wake_up" /\ UNCHANGED <<word, chain, depth>>
        /\ \/ /\ word < WRITE_MULTIPLIER
              /\ RX!release_all_readers([rpc EXCEPT ![t] = "idle"])
           \/ /\ ~ (word < WRITE_MULTIPLIER) /\ RX!unaccounted_count = 0
              /\ RX!release_a_writer(jam, [rpc EXCEPT ![t] = "idle"])
           \/ /\ word = 0 \/ (~ (word < WRITE_MULTIPLIER) /\ RX!unaccounted_count # 0)
              /\ asserts' = (asserts /\ (word = 0 \/ RX!CountSane))
              /\ rpc' = [rpc EXCEPT ![t] = "idle"] /\ UNCHANGED jam
    BY <1>2 DEF RX!wake_up, RX!Asserted, RX!Goto
  <1>4. /\ jam[t] = "no" /\ depth[t] = 0 /\ t \in RX!Running
        /\ t \notin CountedReaders /\ t \notin CountedWriters /\ t \notin Unjammed
    BY <1>2, <1>3 DEF LocalAt, CountedReaders, CountedWriters, Unjammed
  <1>5. RX!unaccounted_count = Cardinality(Unjammed) /\ RX!CountSane
    BY <1>1, WordSays
  <1>6. CASE word < WRITE_MULTIPLIER /\ RX!release_all_readers([rpc EXCEPT ![t] = "idle"])
    BY <1>3, <1>6, AllReadersReleased
  <1>7. CASE /\ ~ (word < WRITE_MULTIPLIER) /\ RX!unaccounted_count = 0
             /\ RX!release_a_writer(jam, [rpc EXCEPT ![t] = "idle"])
    <2>1. Unjammed = {}
      BY <1>5, <1>7, Finite, FS_EmptySet
    <2> QED
      BY <1>3, <1>7, <2>1, WriterReleased
  <1>8. CASE /\ word = 0 \/ (~ (word < WRITE_MULTIPLIER) /\ RX!unaccounted_count # 0)
             /\ asserts' = (asserts /\ (word = 0 \/ RX!CountSane))
             /\ rpc' = [rpc EXCEPT ![t] = "idle"] /\ UNCHANGED jam
    <2>1. rpc'[t] = "idle" /\ depth'[t] = 0 /\ jam'[t] = "no" /\ asserts'
      BY <1>1, <1>2, <1>3, <1>4, <1>5, <1>8
    <2>2. OthersStay(t)
      BY <1>2, <1>3, <1>8 DEF OthersStay
    <2>3. RarexTypes'
      BY <1>1, <1>3, <1>8 DEF RarexTypes
    <2>4. t \notin CountedReaders' /\ t \notin CountedWriters'
      BY <2>1 DEF CountedReaders, CountedWriters
    <2>5. WordExact'
      BY <1>1, <1>3, <1>4, <2>2, <2>4, OthersCounted, WordKept
    <2>6. ReleaseComing'
      <3>1. CASE word = 0
        <4>1. CountedReaders = {} /\ CountedWriters = {}
          BY <1>1, <3>1, WordSays
        <4>2. JammedOnes = {}
          BY <1>1, <4>1, Kinds
        <4>3. JammedOnes' = {}
          BY <1>8, <4>2 DEF JammedOnes
        <4> QED
          BY <4>3 DEF ReleaseComing
      <3>2. CASE ~ (word < WRITE_MULTIPLIER) /\ RX!unaccounted_count # 0
        <4>1. PICK x \in Unjammed : TRUE
          BY <1>5, <3>2, Finite, FS_EmptySet
        <4>2. PICK w \in CountedWriters : TRUE
          BY <1>1, <3>2, WordSays
        <4>3. x \in Threads /\ w \in Threads /\ w # t /\ x # t
          BY <1>4 DEF Unjammed, CountedReaders, CountedWriters
        <4>4. x \in Unjammed' /\ w \in CountedWriters'
          BY <2>2, <4>3, OthersCounted
        <4> QED
          BY <4>4, WriterAround
      <3> QED
        BY <1>8, <3>1, <3>2
    <2>7. LocalAt(t)'
      <3>1. t \in RX!Running'
        BY <1>3, <1>4 DEF RX!Running
      <3> QED
        BY <2>1, <3>1 DEF LocalAt
    <2>8. ~ Writes(t)' /\ ~ Reads(t)'
      BY <2>1 DEF Writes, Reads
    <2> QED
      BY <1>1, <1>3, <2>1, <2>2, <2>3, <2>5, <2>6, <2>7, <2>8, OwnStep
  <1> QED
    BY <1>3, <1>6, <1>7, <1>8

-----------------------------------------------------------------------------
\* Threads come and go.
LEMMA OtherChain ==
    ASSUME RarexInv, NEW t \in Threads, chain' \in Seq(Threads),
           \A u \in Threads : u \in RX!Running /\ u # t => u \in RX!Running',
           t \in RX!Running' \/ (rpc[t] = "idle" /\ depth[t] = 0) \/ t \notin RX!Running,
           UNCHANGED <<word, jam, rpc, depth, asserts>>
    PROVE  RarexInv'
  <1>1. RarexTypes'
    BY DEF RarexInv, RarexTypes
  <1>2. RarexLocal'
    <2>1. ASSUME NEW u \in Threads PROVE LocalAt(u)'
      <3>1. LocalAt(u)
        BY DEF RarexInv, RarexLocal
      <3>2. depth[u] = 1 \/ rpc[u] # "idle" => u \in RX!Running'
        BY <3>1 DEF LocalAt
      <3> QED
        BY <3>1, <3>2 DEF LocalAt
    <2> QED
      BY <2>1 DEF RarexLocal
  <1>3. WordExact'
    BY DEF RarexInv, WordExact, CountedReaders, CountedWriters
  <1>4. AccessRight'
    BY DEF RarexInv, AccessRight, Writes, Reads
  <1>5. ReleaseComing'
    BY DEF RarexInv, ReleaseComing, JammedOnes, Unjammed, Wakers, CountedReaders, CountedWriters
  <1> QED
    BY <1>1, <1>2, <1>3, <1>4, <1>5 DEF RarexInv

LEMMA ThreadsComeAndGo ==
    ASSUME RarexInv, NEW t \in Threads, RX!tstate_init(t) \/ RX!tstate_destruct(t)
    PROVE  RarexInv'
  <1>1. chain \in Seq(Threads) /\ Len(chain) \in Nat /\ DOMAIN chain = 1 .. Len(chain)
    BY DEF RarexInv, RarexTypes
  <1>2. CASE RX!tstate_init(t)
    <2>1. chain' = <<t>> \o chain /\ UNCHANGED <<word, jam, rpc, depth, asserts>>
      BY <1>2 DEF RX!tstate_init
    <2>2. chain' \in Seq(Threads) /\ chain'[1] = t
          /\ \A i \in DOMAIN chain : i + 1 \in DOMAIN chain' /\ chain'[i + 1] = chain[i]
          /\ 1 \in DOMAIN chain'
      BY <1>1, <2>1
    <2>3. \A u \in Threads : u \in RX!Running => u \in RX!Running'
      BY <2>2 DEF RX!Running
    <2>4. t \in RX!Running'
      <3>1. chain' \in Seq(Threads) /\ Len(chain') >= 1 /\ chain'[1] = t
        BY <1>1, <2>1
      <3>2. 1 \in DOMAIN chain'
        BY ONLY <3>1
      <3> QED
        BY ONLY <3>1, <3>2 DEF RX!Running
    <2> QED
      BY <2>1, <2>2, <2>3, <2>4, OtherChain
  <1>3. CASE RX!tstate_destruct(t)
    <2>1. PICK i \in DOMAIN chain : chain[i] = t /\ chain' = RX!RemoveAt(chain, i)
      BY <1>3 DEF RX!tstate_destruct
    <2>2. rpc[t] = "idle" /\ depth[t] = 0 /\ UNCHANGED <<word, jam, rpc, depth, asserts>>
      BY <1>3 DEF RX!tstate_destruct
    <2>3. chain' = SubSeq(chain, 1, i - 1) \o SubSeq(chain, i + 1, Len(chain))
      BY <2>1 DEF RX!RemoveAt
    <2>4. i \in 1 .. Len(chain)
      BY <1>1
    <2>5. /\ SubSeq(chain, 1, i - 1) \in Seq(Threads) /\ Len(SubSeq(chain, 1, i - 1)) = i - 1
          /\ \A k \in 1 .. (i - 1) : SubSeq(chain, 1, i - 1)[k] = chain[k]
      BY <1>1, <2>4
    <2>6. /\ SubSeq(chain, i + 1, Len(chain)) \in Seq(Threads)
          /\ Len(SubSeq(chain, i + 1, Len(chain))) = Len(chain) - i
          /\ \A k \in 1 .. (Len(chain) - i) : SubSeq(chain, i + 1, Len(chain))[k] = chain[i + k]
      BY <1>1, <2>4
    <2>7. PICK a : a = SubSeq(chain, 1, i - 1)
      OBVIOUS
    <2>8. PICK b : b = SubSeq(chain, i + 1, Len(chain))
      OBVIOUS
    <2>9. /\ a \in Seq(Threads) /\ b \in Seq(Threads) /\ chain' = a \o b
          /\ Len(a) = i - 1 /\ Len(b) = Len(chain) - i
          /\ \A k \in 1 .. (i - 1) : a[k] = chain[k]
          /\ \A k \in 1 .. (Len(chain) - i) : b[k] = chain[i + k]
      BY ONLY <2>3, <2>5, <2>6, <2>7, <2>8
    <2>10. /\ chain' \in Seq(Threads)
           /\ \A k \in 1 .. (i - 1) : k \in DOMAIN chain' /\ chain'[k] = chain[k]
           /\ \A k \in 1 .. (Len(chain) - i) :
                    (i - 1) + k \in DOMAIN chain' /\ chain'[(i - 1) + k] = chain[i + k]
      <3>1. i \in Nat /\ Len(chain) \in Nat /\ i >= 1 /\ i <= Len(chain)
        BY ONLY <1>1, <2>4
      <3>a. /\ a \o b \in Seq(Threads) /\ Len(a \o b) = Len(a) + Len(b)
            /\ \A k \in 1 .. Len(a) + Len(b) :
                    (a \o b)[k] = IF k <= Len(a) THEN a[k] ELSE b[k - Len(a)]
        BY ONLY <2>9, ConcatProperties
      <3>2. a \o b \in Seq(Threads) /\ Len(a \o b) = Len(chain) - 1
        BY ONLY <2>9, <3>1, <3>a
      <3>b. DOMAIN (a \o b) = 1 .. Len(chain) - 1
        BY ONLY <3>1, <3>2
      <3>c. chain' \in Seq(Threads) /\ DOMAIN chain' = 1 .. Len(chain) - 1
        BY ONLY <2>9, <3>2, <3>b
      <3>3. ASSUME NEW k \in 1 .. Len(chain) - 1
            PROVE  chain'[k] = IF k <= i - 1 THEN a[k] ELSE b[k - (i - 1)]
        <4>1. k \in 1 .. Len(a) + Len(b) /\ chain' = a \o b
          BY ONLY <2>9, <3>1, <3>3
        <4>2. (a \o b)[k] = IF k <= Len(a) THEN a[k] ELSE b[k - Len(a)]
          BY ONLY <3>a, <4>1
        <4>3. Len(a) = i - 1
          BY ONLY <2>9
        <4> QED
          BY ONLY <4>1, <4>2, <4>3
      <3>4. ASSUME NEW k \in 1 .. (i - 1) PROVE k \in DOMAIN chain' /\ chain'[k] = chain[k]
        <4>1. k \in 1 .. Len(chain) - 1 /\ k <= i - 1
          BY ONLY <3>1, <3>4
        <4> QED
          BY ONLY <2>9, <3>3, <3>4, <3>c, <4>1
      <3>5. ASSUME NEW k \in 1 .. (Len(chain) - i)
            PROVE  (i - 1) + k \in DOMAIN chain' /\ chain'[(i - 1) + k] = chain[i + k]
        <4>1. PICK n \in 1 .. Len(chain) - 1 : n = (i - 1) + k /\ ~ (n <= i - 1) /\ n - (i - 1) = k
          BY ONLY <3>1, <3>5
        <4>2. chain'[n] = b[k]
          BY ONLY <3>3, <4>1
        <4> QED
          BY ONLY <2>9, <3>5, <3>c, <4>1, <4>2
      <3> QED
        BY ONLY <3>4, <3>5, <3>c
    <2>11. ASSUME NEW u \in Threads, u \in RX!Running, u # t PROVE u \in RX!Running'
      <3>1. PICK k \in DOMAIN chain : chain[k] = u
        BY <2>11 DEF RX!Running
      <3>2. k \in 1 .. Len(chain) /\ k # i
        BY <1>1, <2>1, <2>11, <3>1
      <3>3. CASE k < i
        <4>1. k \in 1 .. (i - 1)
          BY <1>1, <2>4, <3>2, <3>3
        <4> QED
          BY <2>10, <3>1, <4>1 DEF RX!Running
      <3>4. CASE k > i
        <4>1. PICK n \in 1 .. (Len(chain) - i) : i + n = k
          <5>1. k - i \in 1 .. (Len(chain) - i) /\ i + (k - i) = k
            BY <1>1, <2>4, <3>2, <3>4
          <5> QED
            BY <5>1
        <4> QED
          BY <2>10, <3>1, <4>1 DEF RX!Running
      <3> QED
        BY <1>1, <2>4, <3>2, <3>3, <3>4
    <2> QED
      BY <2>2, <2>10, <2>11, OtherChain
  <1> QED
    BY <1>2, <1>3

LEMMA RarexInit == WaitingInit => RarexInv
  <1> SUFFICES ASSUME WaitingInit PROVE RarexInv
    OBVIOUS
  <1>1. /\ word = 0 /\ chain = << >> /\ jam = [t \in Threads |-> "no"]
        /\ rpc = [t \in Threads |-> "idle"] /\ depth = [t \in Threads |-> 0] /\ asserts
    BY DEF WaitingInit, RX!Init
  <1>2. RarexTypes /\ RarexLocal
    BY <1>1 DEF RarexTypes, RarexLocal, LocalAt
  <1>3. CountedReaders = {} /\ CountedWriters = {} /\ JammedOnes = {}
    BY <1>1 DEF CountedReaders, CountedWriters, JammedOnes
  <1>4. WordExact
    <2>1. Cardinality({}) = 0
      BY FS_EmptySet
    <2>2. WRITE_MULTIPLIER * 0 = 0
      BY Multiples
    <2> QED
      BY <1>1, <1>3, <2>1, <2>2 DEF WordExact
  <1>5. AccessRight
    BY <1>1 DEF AccessRight, Writes, Reads
  <1>6. ReleaseComing
    BY <1>3 DEF ReleaseComing
  <1> QED
    BY <1>1, <1>2, <1>4, <1>5, <1>6 DEF RarexInv

LEMMA RarexNext == RarexInv /\ [WaitingNext]_allvars => RarexInv'
  <1> SUFFICES ASSUME RarexInv, [WaitingNext]_allvars PROVE RarexInv'
    OBVIOUS
  <1>1. CASE RX!Next
    <2>1. PICK t \in Threads :
            \/ RX!tstate_init(t) \/ RX!tstate_destruct(t) \/ RX!Read(t) \/ RX!Write(t)
            \/ RX!wake_up(t) \/ RX!SpuriousWakeup(t)
      BY <1>1 DEF RX!Next
    <2>2. CASE RX!tstate_init(t) \/ RX!tstate_destruct(t)
      BY <2>2, ThreadsComeAndGo
    <2>3. CASE RX!lock_read(t) \/ RX!trylock_read(t)
      BY <2>3, ReadLocks
    <2>4. CASE RX!cuP_rarex_lock_read(t)
      BY <2>4, SlowRead
    <2>5. CASE RX!unlock_read(t) \/ RX!trylock_read_Undo(t)
      BY <2>5, ReaderLeaves
    <2>6. CASE RX!try_promote(t)
      BY <2>6, Promotion
    <2>7. CASE RX!reader_test(t) \/ RX!writer_test(t) \/ RX!SpuriousWakeup(t)
      BY <2>7, WaitTested
    <2>8. CASE RX!lock_write(t) \/ RX!trylock_write(t)
      BY <2>8, WriteLocks
    <2>9. CASE RX!cuP_rarex_lock_write(t)
      BY <2>9, WriterWaits
    <2>10. CASE RX!unlock_write(t)
      BY <2>10, WriterLeaves
    <2>11. CASE RX!wake_up(t)
      BY <2>11, WakeUp
    <2> QED
      BY <2>1, <2>2, <2>3, <2>4, <2>5, <2>6, <2>7, <2>8, <2>9, <2>10, <2>11 DEF RX!Read, RX!Write
  <1>2. CASE UNCHANGED rarexvars
    <2>1. UNCHANGED <<word, chain, jam, rpc, depth, asserts>>
      BY <1>2 DEF rarexvars
    <2>2. RX!Running' = RX!Running
      BY <2>1 DEF RX!Running
    <2>3. RarexTypes' /\ RarexLocal' /\ AccessRight' /\ asserts'
      BY <2>1, <2>2 DEF RarexInv, RarexTypes, RarexLocal, LocalAt, AccessRight, Writes, Reads
    <2>4. WordExact' /\ ReleaseComing'
      BY <2>1 DEF RarexInv, WordExact, CountedReaders, CountedWriters, ReleaseComing, JammedOnes,
                  Unjammed, Wakers
    <2> QED
      BY <2>3, <2>4 DEF RarexInv
  <1>3. RX!Next \/ UNCHANGED rarexvars
    BY DEF WaitingNext, allvars
  <1> QED
    BY <1>1, <1>2, <1>3

LEMMA RarexAlways == WaitingSpec => []RarexInv
  <1>1. WaitingInit => RarexInv
    BY RarexInit
  <1>2. RarexInv /\ [WaitingNext]_allvars => RarexInv'
    BY RarexNext
  <1> QED
    BY <1>1, <1>2, PTL DEF WaitingSpec

\* A writer has the lock for itself, whatever the number of threads; and the
\* assertions of rarex.c hold, which count on the word being exact.
THEOREM WritersExclude == WaitingSpec => []Exclusion
  <1>1. RarexInv => Exclusion
    <2> SUFFICES ASSUME RarexInv PROVE Exclusion
      OBVIOUS
    <2>1. RX!Writers \subseteq Threads /\ \A t, u \in RX!Writers : t = u
      BY DEF RX!Writers, RarexInv, AccessRight, Writes
    <2>2. RX!Cardinality(RX!Writers) <= 1
      <3>1. CASE RX!Writers = {}
        <4>1. Cardinality(RX!Writers) = 0
          BY <3>1, FS_EmptySet
        <4> QED
          BY <4>1, CardinalityInRX
      <3>2. CASE RX!Writers # {}
        <4>1. PICK t \in RX!Writers : TRUE
          BY <3>2
        <4>2. RX!Writers = {t}
          BY <2>1, <4>1
        <4>3. Cardinality({t}) = 1
          BY FS_Singleton
        <4> QED
          BY <4>2, <4>3, CardinalityInRX
      <3> QED
        BY <3>1, <3>2
    <2>3. RX!Writers # {} => RX!Readers = {}
      <3> SUFFICES ASSUME NEW t \in RX!Writers, NEW u \in RX!Readers PROVE FALSE
        OBVIOUS
      <3>1. t \in Threads /\ Writes(t)
        BY DEF RX!Writers, Writes
      <3>2. u \in Threads /\ depth[u] \in {0, 1} /\ depth[u] > 0
        BY DEF RX!Readers, RarexInv, RarexTypes
      <3>3. Reads(u)
        BY <3>2 DEF Reads
      <3> QED
        BY <3>1, <3>2, <3>3 DEF RarexInv, AccessRight
    <2>4. asserts
      BY DEF RarexInv
    <2> QED
      BY <2>2, <2>3, <2>4 DEF Exclusion, RX!Exclusion
  <1> QED
    BY <1>1, RarexAlways, PTL

\* As long as a thread is jammed on the lock, another one is about to do
\* something about it, and no thread that has been released sleeps on.
LEMMA RarexForgetsNobody == RarexInv => RX!NoneForgotten
  <1> SUFFICES ASSUME RarexInv PROVE RX!NoneForgotten
    OBVIOUS
  <1>1. RX!Jammed # {} => RX!Active # {}
    <2> SUFFICES ASSUME RX!Jammed # {} PROVE RX!Active # {}
      OBVIOUS
    <2>1. JammedOnes # {}
      BY JammedSame DEF RarexInv
    <2>2. (\E x \in Unjammed : TRUE) \/ (\E x \in Wakers : TRUE)
      BY <2>1 DEF RarexInv, ReleaseComing
    <2>3. ASSUME NEW x \in Unjammed PROVE x \in RX!Active
      <3>1. /\ x \in Threads /\ jam[x] = "no" /\ depth[x] \in {0, 1} /\ LocalAt(x)
            /\ x \in CountedReaders \/ x \in CountedWriters
        BY DEF RarexInv, RarexTypes, RarexLocal, Unjammed, JammedOnes, CountedReaders, CountedWriters
      <3>2. depth[x] = 1 => rpc[x] = "idle" /\ depth[x] > 0
        BY <3>1 DEF LocalAt
      <3> QED
        BY <3>1, <3>2 DEF RX!Active, LocalAt, CountedReaders, CountedWriters
    <2>4. ASSUME NEW x \in Wakers PROVE x \in RX!Active
      <3>1. x \in Threads /\ rpc[x] = "wake_up" /\ jam[x] \in {"no", "read", "write"} /\ LocalAt(x)
        BY DEF RarexInv, RarexTypes, RarexLocal, Wakers
      <3> QED
        BY <3>1 DEF RX!Active, LocalAt
    <2> QED
      BY <2>2, <2>3, <2>4
  <1>2. \A t \in Threads : /\ rpc[t] = "reader_dorm" => jam[t] = "read"
                           /\ rpc[t] = "writer_dorm" => jam[t] = "write"
    BY DEF RarexInv, RarexLocal, LocalAt
  <1> QED
    BY <1>1, <1>2 DEF RX!NoneForgotten

-----------------------------------------------------------------------------
(* No thread is forgotten: one asleep on a promise which is fulfilled is   *)
(* about to be woken, and none sleeps on a promise which has work for it   *)
(* until a helper has undone a raise of the hint, or a raise has met -1;   *)
(* one that is jammed on a lock has another one that will release it.      *)
THEOREM NobodyIsForgotten == WaitingSpec => []NobodyForgotten
  <1>1. PromiseInv /\ HintInv /\ RarexInv => NobodyForgotten
    BY PromiseForgetsNobody, RarexForgetsNobody DEF NobodyForgotten
  <1> QED
    BY <1>1, PromiseAlways, RarexAlways, PTL

(* The behaviours that are checked together are those of the three parts:  *)
(* what is proved of the counters holds of them, too.                      *)
THEOREM PartsImplemented == WaitingSpec => Spec /\ PR!Spec /\ RX!Spec
  <1>1. WaitingInit => Init /\ PR!Init /\ RX!Init
    BY DEF WaitingInit
  <1>2. [WaitingNext]_allvars => [Next]_vars /\ [PR!Next]_(PR!vars) /\ [RX!Next]_(RX!vars)
    BY DEF WaitingNext, allvars, promisevars, rarexvars, PR!vars, RX!vars
  <1> QED
    BY <1>1, <1>2, PTL DEF WaitingSpec, Spec, PR!Spec, RX!Spec
=============================================================================
