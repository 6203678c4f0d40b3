---------------------------- MODULE SchedProofs ----------------------------
(***************************************************************************)
(* Proofs about Sched, for any tree of tasks, any number of workers and    *)
(* any ring size: every scheduled task is run once, a task that returns    *)
(* has its subtasks behind it, pending work is counted exactly, and        *)
(* priorities are restored.                                                *)
(***************************************************************************)
EXTENDS Sched, FiniteSetTheorems, SequenceTheorems, TLAPS

-----------------------------------------------------------------------------
(* The inductive invariant.                                                *)

\* Phases of a task, and of an activation of cuflowP_schedule.
TaskPhases == {"body", "publish", "incr", "yield", "block", "ret"}
PickPhases == {"lock", "test", "read", "take", "decr", "called"}

TaskFrames == [ph : TaskPhases, id : Tasks, pri : Pris]
PickFrames == [ph : PickPhases, id : Tasks \cup {None}, pri : Pris, ts : Threads,
               caller_pri : Pris, is_global : BOOLEAN]
Frames == TaskFrames \cup PickFrames

StackOK == stack \in [Threads -> Seq(Frames)]

IsTask(f) == f.ph \in TaskPhases

\* Main's outermost frame is the root task, a worker's is an activation of
\* cuflowP_schedule at normal priority.
Bottoms ==
    /\ stack[Main] # << >> => LET f == stack[Main][Len(stack[Main])]
                              IN IsTask(f) /\ f.id = Root
    /\ \A w \in Workers : stack[w] # << >> => LET f == stack[w][Len(stack[w])]
                                              IN ~IsTask(f) /\ f.caller_pri = 0

\* What the frame above Main's outermost one sets exeqpri back to.
PriKept ==
    Len(stack[Main]) > 1 =>
        LET f == stack[Main][Len(stack[Main]) - 1]
        IN (IF IsTask(f) THEN f.pri ELSE f.caller_pri) = stack[Main][Len(stack[Main])].pri

\* What a frame stands on: a task on the activation which called it or on
\* the task which did, an activation on a task which waits.
Shape ==
    \A t \in Threads : \A i \in 1 .. Len(stack[t]) - 1 :
        LET f == stack[t][i]  g == stack[t][i + 1] IN
        IF IsTask(f)
        THEN \/ g.ph = "called" /\ g.id = f.id
             \/ /\ g.ph = "body" /\ issued[g.id] \in DOMAIN Children[g.id]
                /\ f.id = Children[g.id][issued[g.id]]
        ELSE g.ph = "block"

TopOK == \A t \in Threads : stack[t] # << >> => stack[t][1].ph # "called"

\* Who holds the mutex of a ring.
Picking == {"test", "read", "take", "decr"}
MutexHeld ==
    \A t \in Threads, q \in Queues :
        pickup_mutex[q] = t <=> stack[t] # << >> /\ Top(t).ph \in Picking /\ Visited(t) = q

\* What the thread that takes from a ring has seen.
Taking ==
    \A t \in Threads :
        /\ InPhase(t, "read") \/ InPhase(t, "take") => QueueSize(Visited(t)) > 0
        /\ InPhase(t, "take") =>
              Top(t).id = call_arr[Visited(t)][(tail[Visited(t)] + 1) % SIZE]
        /\ InPhase(t, "decr") => Top(t).id \in Tasks \ {Root}

\* What the thread that adds to a ring has written.
Adding ==
    \A t \in Threads :
        /\ InPhase(t, "publish") \/ InPhase(t, "incr") => MoreToCall(t)
        /\ InPhase(t, "publish") =>
              /\ head[CallQueue(t)] # tail[CallQueue(t)]
              /\ call_arr[CallQueue(t)][head[CallQueue(t)]] = NextTask(t)

LiveOK == \A s \in Live : call_arr[s[1]][s[2]] \in Tasks \ {Root}

IsFrame(t, i) == i \in 1 .. Len(stack[t]) /\ IsTask(stack[t][i])

\* A task has one frame from its start to its return.
Running ==
    /\ \A t, u \in Threads : \A i, j \in Nat :
          IsFrame(t, i) /\ IsFrame(u, j) /\ stack[t][i].id = stack[u][j].id => t = u /\ i = j
    /\ \A t \in Threads : \A i \in Nat :
          IsFrame(t, i) => runs[stack[t][i].id] # 0 /\ stack[t][i].id \notin finished
    /\ \A x \in Tasks : runs[x] # 0 /\ x \notin finished =>
          \E t \in Threads : \E i \in Nat : IsFrame(t, i) /\ stack[t][i].id = x
    /\ \A x \in finished : runs[x] # 0
    /\ runs[Root] # 0

\* What has been scheduled when a task waits, and joined when it returns.
Waits ==
    /\ \A x \in Tasks : issued[x] <= Len(Children[x])
    /\ \A t \in Threads : \A i \in 1 .. Len(stack[t]) :
          stack[t][i].ph \in {"yield", "block", "ret"} =>
              issued[stack[t][i].id] = Len(Children[stack[t][i].id])
    /\ \A t \in Threads : \A i \in 1 .. Len(stack[t]) :
          stack[t][i].ph = "ret" => Range(Children[stack[t][i].id]) \subseteq finished

\* A subtask which has been put in a ring, and not yet returned.
Dispatched(x) ==
    \/ \E t \in InTop("publish") : NextTask(t) = x
    \/ \E s \in Live : call_arr[s[1]][s[2]] = x
    \/ \E t \in InTop("decr") : Top(t).id = x
    \/ \E t \in Threads : \E i \in 1 .. Len(stack[t]) - 1 :
           IsTask(stack[t][i]) /\ stack[t][i].id = x /\ stack[t][i + 1].ph = "called"

\* What the guard of a task counts.
Outstanding(x) ==
    {y \in Range(Children[x]) : y \notin finished /\ (x \in Sub1 \/ Dispatched(y))}

GuardExact == \A x \in Tasks : guard[x] = Cardinality(Outstanding(x))

\* Main has a frame until the root task has returned.
MainDone == stack[Main] = << >> => Root \in finished

IInv ==
    /\ TypeOK /\ StackOK /\ Bottoms /\ PriKept /\ PriorityRestored /\ MainDone
    /\ Shape /\ TopOK /\ MutexHeld /\ Taking /\ Adding /\ LiveOK
    /\ EachOnce /\ Running /\ Waits /\ JoinComplete /\ PendingExact /\ GuardExact

-----------------------------------------------------------------------------
(* Sequences: what a stack is after its top is replaced, two frames are    *)
(* put for its top, a frame is pushed, popped, or popped with a new top.   *)

LEMMA Retop ==
    ASSUME NEW S, NEW s \in Seq(S), s # << >>, NEW f \in S, NEW r, r = <<f>> \o Tail(s)
    PROVE  /\ r \in Seq(S) /\ Len(r) = Len(s) /\ r # << >> /\ r[1] = f
           /\ \A i \in 2 .. Len(s) : r[i] = s[i]
  OBVIOUS

LEMMA Push ==
    ASSUME NEW S, NEW s \in Seq(S), NEW f \in S, NEW r, r = <<f>> \o s
    PROVE  /\ r \in Seq(S) /\ Len(r) = Len(s) + 1 /\ r # << >> /\ r[1] = f
           /\ \A i \in 1 .. Len(s) : r[i + 1] = s[i]
  OBVIOUS

LEMMA Pop ==
    ASSUME NEW S, NEW s \in Seq(S), s # << >>, NEW r, r = Tail(s)
    PROVE  /\ r \in Seq(S) /\ Len(r) = Len(s) - 1
           /\ \A i \in 1 .. Len(r) : r[i] = s[i + 1]
  OBVIOUS

LEMMA RetopPush ==
    ASSUME NEW S, NEW s \in Seq(S), s # << >>, NEW f \in S, NEW g \in S,
           NEW r, r = <<g, f>> \o Tail(s)
    PROVE  /\ r \in Seq(S) /\ Len(r) = Len(s) + 1 /\ r # << >> /\ r[1] = g /\ r[2] = f
           /\ \A i \in 2 .. Len(s) : r[i + 1] = s[i]
  OBVIOUS

LEMMA PopRetop ==
    ASSUME NEW S, NEW s \in Seq(S), s # << >>, Tail(s) # << >>, NEW f \in S,
           NEW r, r = <<f>> \o Tail(Tail(s))
    PROVE  /\ r \in Seq(S) /\ Len(s) > 1 /\ Len(r) = Len(s) - 1 /\ r # << >> /\ r[1] = f
           /\ \A i \in 2 .. Len(r) : r[i] = s[i + 1]
  OBVIOUS

LEMMA TwoFrames ==
    ASSUME NEW S, NEW f \in S, NEW g \in S
    PROVE  <<g>> \o <<f>> = <<g, f>>
  <1> DEFINE r == <<g>> \o <<f>>
  <1>1. <<g>> \in Seq(S) /\ <<f>> \in Seq(S) /\ Len(<<g>>) = 1 /\ Len(<<f>>) = 1
    OBVIOUS
  <1>2. r \in Seq(S) /\ Len(r) = 2
    BY <1>1, ConcatProperties
  <1>3. r[1] = g /\ r[2] = f
    BY <1>1
  <1> HIDE DEF r
  <1>4. r = <<g, f>>
    BY <1>2, <1>3
  <1> QED
    BY <1>4 DEF r

-----------------------------------------------------------------------------
(* What a step does to the stack of its thread.                            *)

Others(t) == \A u \in Threads \ {t} : stack'[u] = stack[u]

Replaces(t, f) ==
    /\ Others(t) /\ stack[t] # << >> /\ stack'[t] # << >>
    /\ Len(stack'[t]) = Len(stack[t]) /\ stack'[t][1] = f
    /\ \A i \in 2 .. Len(stack[t]) : stack'[t][i] = stack[t][i]

Pushes(t, f) ==
    /\ Others(t) /\ stack'[t] # << >>
    /\ Len(stack'[t]) = Len(stack[t]) + 1 /\ stack'[t][1] = f
    /\ \A i \in 1 .. Len(stack[t]) : stack'[t][i + 1] = stack[t][i]

ReplacesAndPushes(t, f, g) ==
    /\ Others(t) /\ stack[t] # << >> /\ stack'[t] # << >>
    /\ Len(stack'[t]) = Len(stack[t]) + 1 /\ stack'[t][1] = g /\ stack'[t][2] = f
    /\ \A i \in 2 .. Len(stack[t]) : stack'[t][i + 1] = stack[t][i]

Pops(t) ==
    /\ Others(t) /\ stack[t] # << >>
    /\ Len(stack'[t]) = Len(stack[t]) - 1
    /\ \A i \in 1 .. Len(stack'[t]) : stack'[t][i] = stack[t][i + 1]

PopsAndReplaces(t, f) ==
    /\ Others(t) /\ Len(stack[t]) > 1 /\ stack'[t] # << >>
    /\ Len(stack'[t]) = Len(stack[t]) - 1 /\ stack'[t][1] = f
    /\ \A i \in 2 .. Len(stack'[t]) : stack'[t][i] = stack[t][i + 1]

\* The frame f goes on as g: what it is of stays.
GoesOn(f, g) ==
    /\ IsTask(g) <=> IsTask(f)
    /\ IsTask(f) => g.id = f.id /\ g.pri = f.pri
    /\ ~IsTask(f) => g.caller_pri = f.caller_pri

LEMMA FrameAt ==
    ASSUME StackOK, NEW t \in Threads, stack[t] # << >>
    PROVE  /\ stack[t] \in Seq(Frames) /\ Len(stack[t]) \in Nat /\ Len(stack[t]) > 0
           /\ Top(t) = stack[t][1] /\ Top(t) \in Frames
           /\ \A i \in 1 .. Len(stack[t]) : stack[t][i] \in Frames
  BY DEF StackOK, Top

LEMMA FrameKinds ==
    ASSUME NEW f \in Frames
    PROVE  /\ IsTask(f) <=> f \in TaskFrames
           /\ ~IsTask(f) <=> f \in PickFrames
           /\ ~IsTask(f) <=> f.ph \in PickPhases
  BY DEF Frames, IsTask, TaskFrames, PickFrames, TaskPhases, PickPhases

LEMMA TaskGoesOn ==
    ASSUME NEW f \in Frames, IsTask(f), NEW ph \in TaskPhases, NEW g, g = [f EXCEPT !.ph = ph]
    PROVE  g \in Frames /\ GoesOn(f, g) /\ g.ph = ph /\ g.id = f.id /\ g.pri = f.pri
  <1>1. f \in TaskFrames
    BY FrameKinds
  <1>2. g \in TaskFrames /\ g.ph = ph /\ g.id = f.id /\ g.pri = f.pri
    BY <1>1 DEF TaskFrames
  <1> QED
    BY <1>1, <1>2, FrameKinds DEF GoesOn, Frames

LEMMA PickGoesOn ==
    ASSUME NEW f \in Frames, ~IsTask(f), NEW ph \in PickPhases, NEW g, g = [f EXCEPT !.ph = ph]
    PROVE  /\ g \in Frames /\ GoesOn(f, g) /\ g.ph = ph /\ g.id = f.id /\ g.pri = f.pri
           /\ g.ts = f.ts /\ g.caller_pri = f.caller_pri /\ g.is_global = f.is_global
  <1>1. f \in PickFrames
    BY FrameKinds
  <1>2. g \in PickFrames /\ g.ph = ph /\ g.id = f.id /\ g.pri = f.pri
        /\ g.ts = f.ts /\ g.caller_pri = f.caller_pri /\ g.is_global = f.is_global
    BY <1>1 DEF PickFrames
  <1> QED
    BY <1>1, <1>2, FrameKinds DEF GoesOn, Frames

LEMMA SetTopDoes ==
    ASSUME StackOK, NEW t \in Threads, stack[t] # << >>, NEW f \in Frames, SetTop(t, f)
    PROVE  StackOK' /\ Replaces(t, f)
  <1>1. stack'[t] = <<f>> \o Tail(stack[t]) /\ Others(t)
    BY DEF StackOK, SetTop, Others
  <1>2. Replaces(t, f) /\ stack'[t] \in Seq(Frames)
    BY <1>1, Retop, FrameAt DEF Replaces
  <1> QED
    BY <1>2 DEF StackOK, SetTop

LEMMA EnterDoes ==
    ASSUME StackOK, NEW t \in Threads, NEW f \in Frames, Enter(t, f)
    PROVE  StackOK' /\ Pushes(t, f)
  <1>1. stack'[t] = <<f>> \o stack[t] /\ Others(t)
    BY DEF StackOK, Enter, Others
  <1>2. Pushes(t, f) /\ stack'[t] \in Seq(Frames)
    BY <1>1, Push DEF Pushes, StackOK
  <1> QED
    BY <1>2 DEF StackOK, Enter

LEMMA PopDoes ==
    ASSUME StackOK, NEW t \in Threads, stack[t] # << >>, stack' = [stack EXCEPT ![t] = Tail(@)]
    PROVE  StackOK' /\ Pops(t)
  <1>1. stack'[t] = Tail(stack[t]) /\ Others(t)
    BY DEF StackOK, Others
  <1>2. stack[t] \in Seq(Frames)
    BY FrameAt
  <1>3. /\ stack'[t] \in Seq(Frames) /\ Len(stack'[t]) = Len(stack[t]) - 1
        /\ \A i \in 1 .. Len(stack'[t]) : stack'[t][i] = stack[t][i + 1]
    BY ONLY <1>1, <1>2, stack[t] # << >>, Pop
  <1> QED
    BY <1>1, <1>3 DEF StackOK, Pops

LEMMA RetopPushDoes ==
    ASSUME StackOK, NEW t \in Threads, stack[t] # << >>, NEW f \in Frames, NEW g \in Frames,
           stack' = [stack EXCEPT ![t] = <<g, f>> \o Tail(@)]
    PROVE  StackOK' /\ ReplacesAndPushes(t, f, g)
  <1>1. stack'[t] = <<g, f>> \o Tail(stack[t]) /\ Others(t)
    BY DEF StackOK, Others
  <1>2. ReplacesAndPushes(t, f, g) /\ stack'[t] \in Seq(Frames)
    BY <1>1, RetopPush, FrameAt DEF ReplacesAndPushes
  <1> QED
    BY <1>2 DEF StackOK

LEMMA PopRetopDoes ==
    ASSUME StackOK, NEW t \in Threads, stack[t] # << >>, Tail(stack[t]) # << >>, NEW f \in Frames,
           stack' = [stack EXCEPT ![t] = <<f>> \o Tail(Tail(@))]
    PROVE  StackOK' /\ PopsAndReplaces(t, f)
  <1>1. stack'[t] = <<f>> \o Tail(Tail(stack[t])) /\ Others(t)
    BY DEF StackOK, Others
  <1>2. stack[t] \in Seq(Frames)
    BY FrameAt
  <1>3. /\ stack'[t] \in Seq(Frames) /\ Len(stack[t]) > 1
        /\ Len(stack'[t]) = Len(stack[t]) - 1 /\ stack'[t] # << >> /\ stack'[t][1] = f
        /\ \A i \in 2 .. Len(stack'[t]) : stack'[t][i] = stack[t][i + 1]
    <2> DEFINE s == stack[t]  r == stack'[t]
    <2>1. s \in Seq(Frames) /\ s # << >> /\ Tail(s) # << >> /\ r = <<f>> \o Tail(Tail(s))
      BY <1>1, <1>2
    <2> HIDE DEF s, r
    <2>2. /\ r \in Seq(Frames) /\ Len(s) > 1 /\ Len(r) = Len(s) - 1 /\ r # << >> /\ r[1] = f
          /\ \A i \in 2 .. Len(r) : r[i] = s[i + 1]
      BY ONLY <2>1, f \in Frames, PopRetop
    <2> QED
      BY <2>2 DEF s, r
  <1> QED
    BY <1>1, <1>3 DEF StackOK, PopsAndReplaces

\* The innermost frame of t goes on to the phase ph.
Goes(t, ph) ==
    /\ Replaces(t, stack'[t][1]) /\ stack'[t][1] \in Frames
    /\ GoesOn(stack[t][1], stack'[t][1])
    /\ stack'[t][1].ph = ph
    /\ stack'[t][1].id = stack[t][1].id /\ stack'[t][1].pri = stack[t][1].pri
    /\ ~IsTask(stack[t][1]) => stack'[t][1].ts = stack[t][1].ts

LEMMA TaskGoto ==
    ASSUME StackOK, NEW t \in Threads, stack[t] # << >>, IsTask(Top(t)),
           NEW ph \in TaskPhases, Goto(t, ph)
    PROVE  StackOK' /\ Goes(t, ph)
  <1> DEFINE g == [Top(t) EXCEPT !.ph = ph]
  <1>1. Top(t) = stack[t][1] /\ Top(t) \in Frames
    BY FrameAt
  <1>2. g \in Frames /\ GoesOn(Top(t), g) /\ g.ph = ph /\ g.id = Top(t).id /\ g.pri = Top(t).pri
    BY <1>1, TaskGoesOn
  <1>3. SetTop(t, g)
    BY DEF Goto
  <1> HIDE DEF g
  <1>4. StackOK' /\ Replaces(t, g)
    BY <1>2, <1>3, SetTopDoes
  <1>5. stack'[t][1] = g
    BY <1>4 DEF Replaces
  <1> QED
    BY <1>1, <1>2, <1>4, <1>5 DEF Goes

LEMMA PickGoto ==
    ASSUME StackOK, NEW t \in Threads, stack[t] # << >>, ~IsTask(Top(t)),
           NEW ph \in PickPhases, Goto(t, ph)
    PROVE  StackOK' /\ Goes(t, ph)
  <1> DEFINE g == [Top(t) EXCEPT !.ph = ph]
  <1>1. Top(t) = stack[t][1] /\ Top(t) \in Frames
    BY FrameAt
  <1>2. /\ g \in Frames /\ GoesOn(Top(t), g) /\ g.ph = ph /\ g.id = Top(t).id
        /\ g.pri = Top(t).pri /\ g.ts = Top(t).ts
    BY <1>1, PickGoesOn
  <1>3. SetTop(t, g)
    BY DEF Goto
  <1> HIDE DEF g
  <1>4. StackOK' /\ Replaces(t, g)
    BY <1>2, <1>3, SetTopDoes
  <1>5. stack'[t][1] = g
    BY <1>4 DEF Replaces
  <1> QED
    BY <1>1, <1>2, <1>4, <1>5 DEF Goes

\* The phase of a frame says what it is.
LEMMA PhaseKind ==
    ASSUME NEW f
    PROVE  /\ f.ph \in TaskPhases => IsTask(f)
           /\ f.ph \in PickPhases => ~IsTask(f)
  BY DEF IsTask, TaskPhases, PickPhases

LEMMA CallEnqueueStack ==
    ASSUME StackOK, NEW t \in Threads, CallEnqueue(t)
    PROVE  StackOK' /\ stack[t][1].ph = "body" /\ Goes(t, "publish")
  BY TaskGoto, PhaseKind, FrameAt DEF CallEnqueue, InPhase, TaskPhases

LEMMA CallPublishStack ==
    ASSUME StackOK, NEW t \in Threads, CallPublish(t)
    PROVE  StackOK' /\ stack[t][1].ph = "publish" /\ Goes(t, "incr")
  BY TaskGoto, PhaseKind, FrameAt DEF CallPublish, InPhase, TaskPhases

LEMMA CallIncrStack ==
    ASSUME StackOK, NEW t \in Threads, CallIncr(t)
    PROVE  StackOK' /\ stack[t][1].ph = "incr" /\ Goes(t, "body")
  BY TaskGoto, PhaseKind, FrameAt DEF CallIncr, InPhase, TaskPhases

LEMMA JoinStack ==
    ASSUME StackOK, NEW t \in Threads, Join(t)
    PROVE  /\ StackOK' /\ stack[t][1].ph = "body"
           /\ Goes(t, IF guard[stack[t][1].id] # 0 THEN "yield" ELSE "ret")
  <1>1. "yield" \in TaskPhases /\ "ret" \in TaskPhases /\ "body" \in TaskPhases
    BY DEF TaskPhases
  <1>2. stack[t] # << >> /\ Top(t) = stack[t][1] /\ IsTask(Top(t)) /\ Top(t).ph = "body"
    BY <1>1, PhaseKind, FrameAt DEF Join, InPhase
  <1>3. CASE guard[stack[t][1].id] # 0
    BY <1>1, <1>2, <1>3, TaskGoto DEF Join
  <1>4. CASE guard[stack[t][1].id] = 0
    BY <1>1, <1>2, <1>4, TaskGoto DEF Join
  <1> QED
    BY <1>3, <1>4

LEMMA JoinDoneStack ==
    ASSUME StackOK, NEW t \in Threads, JoinDone(t)
    PROVE  StackOK' /\ stack[t][1].ph = "block" /\ Goes(t, "ret")
  BY TaskGoto, PhaseKind, FrameAt DEF JoinDone, InPhase, TaskPhases

LEMMA PickLockStack ==
    ASSUME StackOK, NEW t \in Threads, PickLock(t)
    PROVE  StackOK' /\ stack[t][1].ph = "lock" /\ Goes(t, "test")
  BY PickGoto, PhaseKind, FrameAt DEF PickLock, InPhase, PickPhases

LEMMA PickTestStack ==
    ASSUME StackOK, NEW t \in Threads, PickTest(t)
    PROVE  StackOK' /\ stack[t][1].ph = "test" /\ Goes(t, "read")
  BY PickGoto, PhaseKind, FrameAt DEF PickTest, InPhase, PickPhases

LEMMA PickTakeStack ==
    ASSUME StackOK, NEW t \in Threads, PickTake(t)
    PROVE  StackOK' /\ stack[t][1].ph = "take" /\ Goes(t, "decr")
  BY PickGoto, PhaseKind, FrameAt DEF PickTake, InPhase, PickPhases

\* The ring an activation visits is a ring.
LEMMA VisitedQueue ==
    ASSUME StackOK, NEW t \in Threads, stack[t] # << >>, stack[t][1].ph \in PickPhases
    PROVE  Visited(t) \in Queues /\ Visited(t) = <<stack[t][1].ts, stack[t][1].pri>>
  <1>1. stack[t][1] \in PickFrames /\ Top(t) = stack[t][1]
    BY FrameAt, FrameKinds
  <1> QED
    BY <1>1 DEF PickFrames, Visited, Queues

LEMMA PickReadStack ==
    ASSUME TypeOK, StackOK, NEW t \in Threads, PickRead(t)
    PROVE  LET f == stack[t][1]  g == stack'[t][1] IN
           /\ StackOK' /\ f.ph = "read" /\ Replaces(t, g) /\ g \in Frames
           /\ GoesOn(f, g) /\ g.ph = "take" /\ g.pri = f.pri /\ g.ts = f.ts
           /\ g.id = call_arr[Visited(t)][(tail[Visited(t)] + 1) % SIZE]
  <1> DEFINE f == stack[t][1]
             x == call_arr[Visited(t)][(tail[Visited(t)] + 1) % SIZE]
             g == [f EXCEPT !.ph = "take", !.id = x]
  <1>1. stack[t] # << >> /\ Top(t) = f /\ f.ph = "read" /\ f \in PickFrames
    BY FrameAt, FrameKinds, PhaseKind DEF PickRead, InPhase, PickPhases
  <1>2. Visited(t) \in Queues
    BY <1>1, VisitedQueue DEF PickPhases
  <1>3. (tail[Visited(t)] + 1) % SIZE \in Slots
    BY <1>2, SchedAssumption DEF TypeOK, Slots
  <1>4. x \in Tasks \cup {None}
    BY <1>2, <1>3 DEF TypeOK
  <1> HIDE DEF x
  <1>5. /\ g \in PickFrames /\ g.ph = "take" /\ g.id = x /\ g.pri = f.pri /\ g.ts = f.ts
        /\ g.caller_pri = f.caller_pri
    BY <1>1, <1>4 DEF PickFrames, PickPhases
  <1>6. g \in Frames /\ GoesOn(f, g)
    BY <1>1, <1>5, FrameKinds DEF Frames, GoesOn
  <1>7. SetTop(t, g)
    BY <1>1 DEF PickRead, x
  <1> HIDE DEF g
  <1>8. StackOK' /\ Replaces(t, g)
    BY <1>1, <1>6, <1>7, SetTopDoes
  <1>9. stack'[t][1] = g
    BY <1>8 DEF Replaces
  <1> QED
    BY <1>1, <1>5, <1>6, <1>8, <1>9 DEF x

LEMMA NextTaskOf ==
    ASSUME TypeOK, StackOK, NEW t \in Threads, stack[t] # << >>, IsTask(stack[t][1]), MoreToCall(t)
    PROVE  LET p == stack[t][1].id  k == issued[p] + 1 IN
           /\ p \in Tasks /\ k \in DOMAIN Children[p] /\ NextTask(t) = Children[p][k]
           /\ NextTask(t) \in Tasks /\ NextTask(t) # Root /\ issued[p] < Len(Children[p])
           /\ CallPri(t) \in Pris /\ CallQueue(t) \in Queues
  <1> DEFINE p == stack[t][1].id
             k == issued[p] + 1
  <1>1. stack[t][1] \in TaskFrames /\ Top(t) = stack[t][1]
    BY FrameAt, FrameKinds
  <1>2. p \in Tasks /\ issued[p] \in Nat /\ exeqpri[t] \in Pris
    BY <1>1 DEF TaskFrames, TypeOK
  <1>3. Children[p] \in Seq(Tasks)
    BY <1>2, SchedAssumption
  <1>4. k \in DOMAIN Children[p] /\ issued[p] < Len(Children[p])
    BY <1>1, <1>2, <1>3 DEF MoreToCall
  <1>5. NextTask(t) = Children[p][k] /\ Children[p][k] \in Tasks
    BY <1>1, <1>3, <1>4 DEF NextTask
  <1>6. Children[p][k] # Root
    BY <1>2, <1>3, <1>4, TreeAssumption DEF Range
  <1>7. CallPri(t) \in Pris
    BY <1>2, <1>5, SchedAssumption DEF CallPri
  <1> QED
    BY <1>2, <1>4, <1>5, <1>6, <1>7 DEF CallQueue, Queues

LEMMA NewTask ==
    ASSUME NEW x \in Tasks, NEW pri \in Pris
    PROVE  LET f == TaskFrame(x, pri) IN
           f \in Frames /\ IsTask(f) /\ f.ph = "body" /\ f.id = x /\ f.pri = pri
  BY DEF TaskFrame, Frames, TaskFrames, IsTask, TaskPhases

LEMMA NewPick ==
    ASSUME TypeOK, NEW t \in Threads, NEW b \in BOOLEAN
    PROVE  LET f == SchedFrame(t, b) IN
           f \in Frames /\ ~IsTask(f) /\ f.ph = "lock" /\ f.caller_pri = exeqpri[t]
  BY DEF SchedFrame, TypeOK, Frames, PickFrames, IsTask, TaskPhases, PickPhases, Pris

LEMMA CallInlineStack ==
    ASSUME TypeOK, StackOK, NEW t \in Threads, CallInline(t)
    PROVE  LET g == stack'[t][1] IN
           /\ StackOK' /\ stack[t] # << >> /\ stack[t][1].ph = "body" /\ Pushes(t, g)
           /\ g.ph = "body" /\ g.id = NextTask(t) /\ g.pri = exeqpri[t]
  <1>1. stack[t] # << >> /\ stack[t][1].ph = "body" /\ IsTask(stack[t][1])
    BY FrameAt, PhaseKind DEF CallInline, InPhase, TaskPhases
  <1>2. NextTask(t) \in Tasks /\ exeqpri[t] \in Pris
    BY <1>1, NextTaskOf DEF CallInline, TypeOK
  <1> DEFINE g == TaskFrame(NextTask(t), exeqpri[t])
  <1>3. g \in Frames /\ g.ph = "body" /\ g.id = NextTask(t) /\ g.pri = exeqpri[t]
    BY <1>2, NewTask
  <1>4. Enter(t, g)
    BY DEF CallInline
  <1> HIDE DEF g
  <1>5. StackOK' /\ Pushes(t, g)
    BY <1>3, <1>4, EnterDoes
  <1> QED
    BY <1>1, <1>3, <1>5 DEF Pushes

LEMMA WorkerYieldStack ==
    ASSUME TypeOK, StackOK, NEW t \in Threads, WorkerYield(t)
    PROVE  LET g == stack'[t][1] IN
           /\ StackOK' /\ stack[t] = << >> /\ t \in Workers /\ Pushes(t, g)
           /\ g.ph = "lock" /\ g.caller_pri = exeqpri[t]
  <1> DEFINE g == SchedFrame(t, TRUE)
  <1>1. g \in Frames /\ g.ph = "lock" /\ g.caller_pri = exeqpri[t]
    BY NewPick
  <1>2. Enter(t, g) /\ stack[t] = << >> /\ t \in Workers
    BY DEF WorkerYield
  <1> HIDE DEF g
  <1>3. StackOK' /\ Pushes(t, g)
    BY <1>1, <1>2, EnterDoes
  <1> QED
    BY <1>1, <1>2, <1>3 DEF Pushes

LEMMA JoinYieldStack ==
    ASSUME TypeOK, StackOK, NEW t \in Threads, JoinYield(t)
    PROVE  LET f == stack'[t][2]  g == stack'[t][1] IN
           /\ StackOK' /\ stack[t] # << >> /\ stack[t][1].ph = "yield"
           /\ \/ Goes(t, "block")
              \/ /\ ReplacesAndPushes(t, f, g)
                 /\ f.ph = "block" /\ f.id = stack[t][1].id /\ f.pri = stack[t][1].pri
                 /\ g.ph = "lock" /\ g.caller_pri = exeqpri[t]
  <1> DEFINE f == [Top(t) EXCEPT !.ph = "block"]
             g == SchedFrame(t, FALSE)
  <1>1. "yield" \in TaskPhases /\ "block" \in TaskPhases
    BY DEF TaskPhases
  <1>2. stack[t] # << >> /\ Top(t) = stack[t][1] /\ Top(t).ph = "yield" /\ IsTask(Top(t))
    BY <1>1, FrameAt, PhaseKind DEF JoinYield, InPhase
  <1>3. g \in Frames /\ g.ph = "lock" /\ g.caller_pri = exeqpri[t]
    BY NewPick
  <1>4. f \in Frames /\ f.ph = "block" /\ f.id = Top(t).id /\ f.pri = Top(t).pri
    BY <1>1, <1>2, FrameAt, TaskGoesOn
  <1>5. CASE pending = 0
    <2>1. << >> \o <<f>> = <<f>>
      OBVIOUS
    <2>2. Goto(t, "block")
      BY <1>5, <2>1 DEF JoinYield, Goto, SetTop
    <2>3. StackOK' /\ Goes(t, "block")
      BY <1>1, <1>2, <2>2, TaskGoto
    <2> QED
      BY <1>2, <2>3
  <1>6. CASE pending # 0
    <2>1. <<g>> \o <<f>> = <<g, f>>
      BY <1>3, <1>4, TwoFrames
    <2>2. stack' = [stack EXCEPT ![t] = <<g, f>> \o Tail(@)]
      BY <1>6, <2>1 DEF JoinYield
    <2> HIDE DEF f, g
    <2>3. StackOK' /\ ReplacesAndPushes(t, f, g)
      BY <1>2, <1>3, <1>4, <2>2, RetopPushDoes
    <2>4. stack'[t][1] = g /\ stack'[t][2] = f
      BY <2>3 DEF ReplacesAndPushes
    <2> QED
      BY <1>2, <1>3, <1>4, <2>3, <2>4
  <1> QED
    BY <1>5, <1>6

LEMMA PickCallStack ==
    ASSUME TypeOK, StackOK, Taking, NEW t \in Threads, PickCall(t)
    PROVE  LET e == stack[t][1]  f == stack'[t][2]  g == stack'[t][1] IN
           /\ StackOK' /\ stack[t] # << >> /\ e.ph = "decr" /\ e.id \in Tasks \ {Root}
           /\ ReplacesAndPushes(t, f, g) /\ GoesOn(e, f)
           /\ f.ph = "called" /\ f.id = e.id /\ g.ph = "body" /\ g.id = e.id
  <1> DEFINE e == stack[t][1]
             f == [e EXCEPT !.ph = "called"]
             g == TaskFrame(e.id, e.pri)
  <1>1. "decr" \in PickPhases /\ "called" \in PickPhases
    BY DEF PickPhases
  <1>2. stack[t] # << >> /\ Top(t) = e /\ e.ph = "decr" /\ ~IsTask(e) /\ e \in PickFrames
    BY <1>1, FrameAt, PhaseKind, FrameKinds DEF PickCall, InPhase
  <1>3. e.id \in Tasks \ {Root} /\ e.pri \in Pris
    BY <1>2 DEF Taking, InPhase, PickFrames
  <1>4. g \in Frames /\ g.ph = "body" /\ g.id = e.id
    BY <1>3, NewTask
  <1>5. f \in Frames /\ f.ph = "called" /\ f.id = e.id /\ GoesOn(e, f)
    BY <1>1, <1>2, FrameAt, PickGoesOn
  <1>6. stack' = [stack EXCEPT ![t] = <<g, f>> \o Tail(@)]
    BY <1>2 DEF PickCall
  <1> HIDE DEF f, g
  <1>7. StackOK' /\ ReplacesAndPushes(t, f, g)
    BY <1>2, <1>4, <1>5, <1>6, RetopPushDoes
  <1>8. stack'[t][1] = g /\ stack'[t][2] = f
    BY <1>7 DEF ReplacesAndPushes
  <1> QED
    BY <1>2, <1>3, <1>4, <1>5, <1>7, <1>8

LEMMA ReturnInlineStack ==
    ASSUME StackOK, NEW t \in Threads, ReturnInline(t)
    PROVE  /\ StackOK' /\ stack[t] # << >> /\ stack[t][1].ph = "ret"
           /\ Len(stack[t]) > 1 /\ stack[t][2].ph = "body" /\ Pops(t)
  <1>1. stack[t] # << >> /\ stack[t][1].ph = "ret" /\ stack[t][2].ph = "body"
    BY FrameAt DEF ReturnInline, InPhase
  <1>2. Len(stack[t]) > 1
    BY <1>1, FrameAt DEF ReturnInline
  <1> QED
    BY <1>1, <1>2, PopDoes DEF ReturnInline

LEMMA ReturnRootStack ==
    ASSUME StackOK, NEW t \in Threads, ReturnRoot(t)
    PROVE  /\ StackOK' /\ stack[t] # << >> /\ stack[t][1].ph = "ret"
           /\ Len(stack[t]) = 1 /\ Pops(t)
  <1>1. stack[t] # << >> /\ stack[t][1].ph = "ret"
    BY FrameAt DEF ReturnRoot, InPhase
  <1>2. Len(stack[t]) = 1
    <2>1. stack[t] \in Seq(Frames) /\ Tail(stack[t]) = << >>
      BY <1>1, FrameAt DEF ReturnRoot
    <2>2. Len(Tail(stack[t])) = Len(stack[t]) - 1
      BY <1>1, <2>1, HeadTailProperties
    <2>3. Len(stack[t]) - 1 = 0 /\ Len(stack[t]) \in Nat
      BY <1>1, <2>1, <2>2, FrameAt
    <2> QED
      BY <2>3
  <1>3. stack' = [stack EXCEPT ![t] = Tail(@)]
    <2>1. Tail(stack[t]) = << >>
      BY DEF ReturnRoot
    <2> QED
      BY <2>1 DEF ReturnRoot
  <1> QED
    BY <1>1, <1>2, <1>3, PopDoes

LEMMA ReturnPickedStack ==
    ASSUME TypeOK, StackOK, NEW t \in Threads, ReturnPicked(t)
    PROVE  LET g == stack'[t][1] IN
           /\ StackOK' /\ stack[t] # << >> /\ stack[t][1].ph = "ret"
           /\ Len(stack[t]) > 1 /\ stack[t][2].ph = "called"
           /\ PopsAndReplaces(t, g) /\ GoesOn(stack[t][2], g) /\ g.ph = "lock"
  <1> DEFINE f == stack[t][2]
             g == [f EXCEPT !.ph = "lock", !.id = None]
  <1>1. stack[t] # << >> /\ stack[t][1].ph = "ret" /\ f.ph = "called" /\ Tail(stack[t]) # << >>
    BY FrameAt DEF ReturnPicked, InPhase
  <1>2. Len(stack[t]) > 1 /\ f \in Frames
    BY <1>1, FrameAt
  <1>3. f \in PickFrames /\ ~IsTask(f)
    BY <1>1, <1>2, PhaseKind, FrameKinds DEF PickPhases
  <1>4. g \in PickFrames /\ g.ph = "lock" /\ g.caller_pri = f.caller_pri
    BY <1>3 DEF PickFrames, PickPhases
  <1>5. g \in Frames /\ GoesOn(f, g)
    BY <1>3, <1>4, FrameKinds DEF Frames, GoesOn
  <1>6. stack' = [stack EXCEPT ![t] = <<g>> \o Tail(Tail(@))]
    BY DEF ReturnPicked
  <1> HIDE DEF g
  <1>7. StackOK' /\ PopsAndReplaces(t, g)
    BY <1>1, <1>5, <1>6, PopRetopDoes
  <1>8. stack'[t][1] = g
    BY <1>7 DEF PopsAndReplaces
  <1> QED
    BY <1>1, <1>2, <1>4, <1>5, <1>7, <1>8

LEMMA PickNextStack ==
    ASSUME TypeOK, StackOK, NEW t \in Threads, PickNext(t)
    PROVE  LET f == stack[t][1]  g == stack'[t][1] IN
           /\ StackOK' /\ stack[t] # << >> /\ f.ph = "test"
           /\ \/ /\ Replaces(t, g) /\ GoesOn(f, g) /\ g.ph = "lock" /\ exeqpri' = exeqpri
              \/ Pops(t) /\ exeqpri' = [exeqpri EXCEPT ![t] = f.caller_pri]
  <1> DEFINE f == stack[t][1]
             more_ts == f.is_global /\ NextTs[f.ts] # t
             more_pri == f.pri + 1 <= f.caller_pri
             g1 == [f EXCEPT !.ph = "lock", !.ts = NextTs[f.ts]]
             g2 == [f EXCEPT !.ph = "lock", !.ts = t, !.pri = f.pri + 1]
  <1>1. stack[t] # << >> /\ Top(t) = f /\ f.ph = "test"
    BY FrameAt DEF PickNext, InPhase
  <1>2. f \in PickFrames /\ ~IsTask(f)
    BY <1>1, FrameAt, PhaseKind, FrameKinds DEF PickPhases
  <1>3. CASE more_ts
    <2>1. g1 \in PickFrames /\ g1.ph = "lock" /\ g1.caller_pri = f.caller_pri
      BY <1>2, SchedAssumption DEF PickFrames, PickPhases
    <2>2. g1 \in Frames /\ GoesOn(f, g1)
      BY <1>2, <2>1, FrameKinds DEF Frames, GoesOn
    <2>3. SetTop(t, g1) /\ exeqpri' = exeqpri
      BY <1>1, <1>3 DEF PickNext, TypeOK
    <2> HIDE DEF g1
    <2>4. StackOK' /\ Replaces(t, g1)
      BY <1>1, <2>2, <2>3, SetTopDoes
    <2>5. stack'[t][1] = g1
      BY <2>4 DEF Replaces
    <2> QED
      BY <1>1, <2>1, <2>2, <2>3, <2>4, <2>5
  <1>4. CASE ~more_ts /\ more_pri
    <2>1. f.pri + 1 \in Pris
      BY <1>2, <1>4 DEF PickFrames, Pris
    <2>2. g2 \in PickFrames /\ g2.ph = "lock" /\ g2.caller_pri = f.caller_pri
      BY <1>2, <2>1 DEF PickFrames, PickPhases
    <2>3. g2 \in Frames /\ GoesOn(f, g2)
      BY <1>2, <2>2, FrameKinds DEF Frames, GoesOn
    <2>4. SetTop(t, g2) /\ exeqpri' = exeqpri
      BY <1>1, <1>4 DEF PickNext, TypeOK
    <2> HIDE DEF g2
    <2>5. StackOK' /\ Replaces(t, g2)
      BY <1>1, <2>3, <2>4, SetTopDoes
    <2>6. stack'[t][1] = g2
      BY <2>5 DEF Replaces
    <2> QED
      BY <1>1, <2>2, <2>3, <2>4, <2>5, <2>6
  <1>5. CASE ~more_ts /\ ~more_pri
    <2>1. /\ stack' = [stack EXCEPT ![t] = Tail(@)]
          /\ exeqpri' = [exeqpri EXCEPT ![t] = f.caller_pri]
      BY <1>1, <1>5 DEF PickNext
    <2> QED
      BY <1>1, <2>1, PopDoes
  <1> QED
    BY <1>3, <1>4, <1>5

-----------------------------------------------------------------------------
(* Types.  That a guard stays a natural number follows from what it counts.*)

VarTypes ==
    /\ head \in [Queues -> Slots] /\ tail \in [Queues -> Slots]
    /\ call_arr \in [Queues -> [Slots -> Tasks \cup {None}]]
    /\ pickup_mutex \in [Queues -> Threads \cup {None}]
    /\ guard \in [Tasks -> Int] /\ pending \in Int
    /\ exeqpri \in [Threads -> Pris]
    /\ issued \in [Tasks -> Nat] /\ runs \in [Tasks -> Nat]
    /\ finished \subseteq Tasks

LEMMA ExceptTypes ==
    /\ \A S, T : \A f \in [S -> T] : \A x : \A v \in T : [f EXCEPT ![x] = v] \in [S -> T]
    /\ \A S : \A f \in [S -> Nat] : \A x : [f EXCEPT ![x] = @ + 1] \in [S -> Nat]
    /\ \A S : \A f \in [S -> Int] : \A x : [f EXCEPT ![x] = @ - 1] \in [S -> Int]
    /\ \A S : \A f \in [S -> Int] : \A x : [f EXCEPT ![x] = @ + 1] \in [S -> Int]
  <1>1. ASSUME NEW S, NEW T, NEW f \in [S -> T], NEW x, NEW v \in T
        PROVE  [f EXCEPT ![x] = v] \in [S -> T]
    OBVIOUS
  <1>2. ASSUME NEW S, NEW f \in [S -> Nat], NEW x PROVE [f EXCEPT ![x] = @ + 1] \in [S -> Nat]
    <2>1. CASE x \in S
      <3>1. f[x] + 1 \in Nat
        BY <2>1
      <3> QED
        BY <1>1, <3>1
    <2>2. CASE x \notin S
      <3>1. [f EXCEPT ![x] = @ + 1] = f
        BY <2>2
      <3> QED
        BY <3>1
    <2> QED
      BY <2>1, <2>2
  <1>3. ASSUME NEW S, NEW f \in [S -> Int], NEW x PROVE [f EXCEPT ![x] = @ - 1] \in [S -> Int]
    <2>1. CASE x \in S
      <3>1. f[x] - 1 \in Int
        BY <2>1
      <3> QED
        BY <1>1, <3>1
    <2>2. CASE x \notin S
      <3>1. [f EXCEPT ![x] = @ - 1] = f
        BY <2>2
      <3> QED
        BY <3>1
    <2> QED
      BY <2>1, <2>2
  <1>4. ASSUME NEW S, NEW f \in [S -> Int], NEW x PROVE [f EXCEPT ![x] = @ + 1] \in [S -> Int]
    <2>1. CASE x \in S
      <3>1. f[x] + 1 \in Int
        BY <2>1
      <3> QED
        BY <1>1, <3>1
    <2>2. CASE x \notin S
      <3>1. [f EXCEPT ![x] = @ + 1] = f
        BY <2>2
      <3> QED
        BY <3>1
    <2> QED
      BY <2>1, <2>2
  <1> QED
    BY <1>1, <1>2, <1>3, <1>4

LEMMA SlotSteps ==
    ASSUME NEW i \in Slots, NEW j \in Slots
    PROVE  /\ (i + 1) % SIZE \in Slots
           /\ (i + 1) % SIZE = IF i + 1 = SIZE THEN 0 ELSE i + 1
           /\ (i - j - 1) % SIZE = IF i > j THEN i - j - 1 ELSE i - j - 1 + SIZE
  <1>a. SIZE \in Nat /\ SIZE > 1 /\ i \in 0 .. SIZE - 1 /\ j \in 0 .. SIZE - 1
    BY SchedAssumption DEF Slots
  <1>1. (i + 1) % SIZE = IF i + 1 = SIZE THEN 0 ELSE i + 1
    BY ONLY <1>a
  <1>2. (i - j - 1) % SIZE = IF i > j THEN i - j - 1 ELSE i - j - 1 + SIZE
    BY ONLY <1>a
  <1>3. (i + 1) % SIZE \in Slots
    BY <1>1, SchedAssumption DEF Slots
  <1> QED
    BY <1>1, <1>2, <1>3

LEMMA TopTyped ==
    ASSUME StackOK, NEW t \in Threads, stack[t] # << >>
    PROVE  LET f == stack[t][1] IN
           /\ Top(t) = f /\ f.pri \in Pris
           /\ IsTask(f) => f.id \in Tasks
           /\ ~IsTask(f) => f.caller_pri \in Pris /\ f.ts \in Threads
  BY FrameAt, FrameKinds DEF TaskFrames, PickFrames

LEMMA TypesKept ==
    ASSUME TypeOK, StackOK, Taking, NEW t \in Threads, Step(t)
    PROVE  VarTypes'
  <1> USE DEF TypeOK, VarTypes, queue_vars
  <1>1. CASE CallEnqueue(t)
    <2> DEFINE q == CallQueue(t)
    <2>1. stack[t] # << >> /\ IsTask(stack[t][1]) /\ MoreToCall(t)
      BY <1>1, FrameAt, PhaseKind DEF CallEnqueue, InPhase, TaskPhases
    <2>2. q \in Queues /\ NextTask(t) \in Tasks /\ head[q] \in Slots
      BY <2>1, NextTaskOf
    <2>3. call_arr' \in [Queues -> [Slots -> Tasks \cup {None}]]
      BY <1>1, <2>2 DEF CallEnqueue
    <2>4. guard' \in [Tasks -> Int]
      <3>1. guard \in [Tasks -> Int]
        OBVIOUS
      <3>2. guard' = [guard EXCEPT ![Top(t).id] = @ + 1] \/ guard' = guard
        BY <1>1 DEF CallEnqueue
      <3> QED
        BY ONLY <3>1, <3>2
    <2> QED
      BY <1>1, <2>3, <2>4 DEF CallEnqueue
  <1>2. CASE CallPublish(t)
    <2>1. head' \in [Queues -> Slots]
      BY <1>2, SlotSteps DEF CallPublish
    <2> QED
      BY <1>2, <2>1 DEF CallPublish
  <1>3. CASE CallIncr(t)
    <2>1. pending' \in Int
      BY <1>3 DEF CallIncr
    <2>2. issued' \in [Tasks -> Nat]
      BY <1>3, ExceptTypes DEF CallIncr
    <2> QED
      BY <1>3, <2>1, <2>2 DEF CallIncr
  <1>4. CASE CallInline(t)
    <2>1. stack[t] # << >> /\ IsTask(stack[t][1]) /\ MoreToCall(t)
      BY <1>4, FrameAt, PhaseKind DEF CallInline, InPhase, TaskPhases
    <2>2. exeqpri' \in [Threads -> Pris]
      BY <1>4, <2>1, NextTaskOf DEF CallInline
    <2>3. issued' \in [Tasks -> Nat] /\ runs' \in [Tasks -> Nat]
      BY <1>4, ExceptTypes DEF CallInline
    <2> QED
      BY <1>4, <2>2, <2>3 DEF CallInline
  <1>5. CASE Join(t) \/ JoinYield(t) \/ JoinDone(t) \/ WorkerYield(t) \/ PickTest(t) \/ PickRead(t)
    <2>1. UNCHANGED <<queue_vars, guard, pending, exeqpri, issued, runs, finished>>
      BY <1>5 DEF Join, JoinYield, JoinDone, WorkerYield, PickTest, PickRead
    <2> QED
      BY <2>1
  <1>6. CASE ReturnInline(t)
    <2>1. stack[t] # << >> /\ IsTask(stack[t][1])
      BY <1>6, ReturnInlineStack, PhaseKind DEF TaskPhases
    <2>2. Top(t).id \in Tasks /\ Top(t).pri \in Pris
      BY <2>1, TopTyped
    <2>3. exeqpri' \in [Threads -> Pris] /\ finished' \subseteq Tasks
      BY <1>6, <2>2 DEF ReturnInline
    <2>4. guard' \in [Tasks -> Int]
      <3>1. guard \in [Tasks -> Int]
        OBVIOUS
      <3>2. guard' = [guard EXCEPT ![Parent(Top(t).id)] = @ - 1] \/ guard' = guard
        BY <1>6 DEF ReturnInline
      <3> QED
        BY ONLY <3>1, <3>2
    <2> QED
      BY <1>6, <2>3, <2>4 DEF ReturnInline
  <1>7. CASE ReturnPicked(t)
    <2>1. stack[t] # << >> /\ IsTask(stack[t][1])
      BY <1>7, ReturnPickedStack, PhaseKind DEF TaskPhases
    <2>2. Top(t).id \in Tasks
      BY <2>1, TopTyped
    <2>3. guard \in [Tasks -> Int]
      OBVIOUS
    <2>4. guard' \in [Tasks -> Int]
      BY <1>7, <2>3, ExceptTypes DEF ReturnPicked
    <2> QED
      BY <1>7, <2>2, <2>4 DEF ReturnPicked
  <1>8. CASE ReturnRoot(t)
    <2>1. stack[t] # << >> /\ IsTask(stack[t][1])
      BY <1>8, ReturnRootStack, PhaseKind DEF TaskPhases
    <2>2. Top(t).id \in Tasks
      BY <2>1, TopTyped
    <2> QED
      BY <1>8, <2>2 DEF ReturnRoot
  <1>9. CASE PickLock(t)
    <2>1. pickup_mutex' \in [Queues -> Threads \cup {None}]
      BY <1>9 DEF PickLock
    <2> QED
      BY <1>9, <2>1 DEF PickLock
  <1>10. CASE PickTake(t)
    <2>1. tail' \in [Queues -> Slots]
      BY <1>10, SlotSteps DEF PickTake
    <2> QED
      BY <1>10, <2>1 DEF PickTake
  <1>11. CASE PickCall(t)
    <2>1. Top(t).pri \in Pris
      BY <1>11, PickCallStack, TopTyped
    <2>2. pickup_mutex' \in [Queues -> Threads \cup {None}]
      BY <1>11, ExceptTypes DEF PickCall
    <2>3. exeqpri' \in [Threads -> Pris] /\ runs' \in [Tasks -> Nat]
      BY <1>11, <2>1, ExceptTypes DEF PickCall
    <2>4. pending' \in Int
      BY <1>11 DEF PickCall
    <2> QED
      BY <1>11, <2>2, <2>3, <2>4 DEF PickCall
  <1>12. CASE PickNext(t)
    <2>1. stack[t] # << >> /\ ~IsTask(stack[t][1])
      BY <1>12, PickNextStack, PhaseKind DEF PickPhases
    <2>2. stack[t][1].caller_pri \in Pris
      BY <2>1, TopTyped
    <2>3. exeqpri' \in [Threads -> Pris]
      BY <1>12, <2>2, PickNextStack
    <2>4. pickup_mutex' \in [Queues -> Threads \cup {None}]
      BY <1>12 DEF PickNext
    <2> QED
      BY <1>12, <2>3, <2>4 DEF PickNext
  <1> QED
    BY <1>1, <1>2, <1>3, <1>4, <1>5, <1>6, <1>7, <1>8, <1>9, <1>10, <1>11, <1>12 DEF Step

-----------------------------------------------------------------------------
(* Priorities.                                                             *)

Priorities == Bottoms /\ PriKept /\ PriorityRestored

Restored(f) == IF IsTask(f) THEN f.pri ELSE f.caller_pri

LEMMA LengthCases ==
    ASSUME NEW s \in Seq(Frames)
    PROVE  /\ Len(s) \in Nat /\ (s # << >> <=> Len(s) > 0)
           /\ Len(s) = 1 <=> Len(s) > 0 /\ ~(Len(s) > 1)
           /\ Len(s) = 2 <=> Len(s) > 1 /\ ~(Len(s) > 2)
  <1>1. PICK n \in Nat : n = Len(s)
    OBVIOUS
  <1>2. (n = 1 <=> n > 0 /\ ~(n > 1)) /\ (n = 2 <=> n > 1 /\ ~(n > 2))
    OBVIOUS
  <1>3. s # << >> <=> Len(s) > 0
    OBVIOUS
  <1> QED
    BY <1>1, <1>2, <1>3

LEMMA Lengths ==
    ASSUME StackOK, StackOK', NEW t \in Threads
    PROVE  /\ Len(stack[t]) \in Nat /\ (stack[t] # << >> <=> Len(stack[t]) > 0)
           /\ Len(stack[t]) = 1 <=> Len(stack[t]) > 0 /\ ~(Len(stack[t]) > 1)
           /\ Len(stack[t]) = 2 <=> Len(stack[t]) > 1 /\ ~(Len(stack[t]) > 2)
           /\ Len(stack'[t]) \in Nat /\ (stack'[t] # << >> <=> Len(stack'[t]) > 0)
           /\ Len(stack'[t]) = 1 <=> Len(stack'[t]) > 0 /\ ~(Len(stack'[t]) > 1)
  BY LengthCases DEF StackOK

LEMMA PriReplace ==
    ASSUME StackOK, StackOK', NEW t \in Threads, NEW g, Priorities,
           Replaces(t, g), GoesOn(stack[t][1], g), exeqpri' = exeqpri
    PROVE  Priorities'
  <1> USE DEF Priorities
  <1>m. /\ Main \in Threads /\ Main \notin Workers /\ Workers \subseteq Threads
    BY SchedAssumption DEF Threads
  <1>n. /\ Len(stack[t]) \in Nat /\ (stack[t] # << >> <=> Len(stack[t]) > 0)
        /\ Len(stack[t]) = 1 <=> Len(stack[t]) > 0 /\ ~(Len(stack[t]) > 1)
        /\ Len(stack[t]) = 2 <=> Len(stack[t]) > 1 /\ ~(Len(stack[t]) > 2)
        /\ Len(stack'[t]) \in Nat /\ (stack'[t] # << >> <=> Len(stack'[t]) > 0)
        /\ Len(stack'[t]) = 1 <=> Len(stack'[t]) > 0 /\ ~(Len(stack'[t]) > 1)
    BY Lengths
  <1>a. /\ Len(stack'[t]) = Len(stack[t]) /\ Len(stack[t]) > 0 /\ Len(stack[t]) \in Nat
        /\ stack'[t] # << >> /\ stack'[t][1] = g /\ Others(t)
        /\ \A i \in 2 .. Len(stack[t]) : stack'[t][i] = stack[t][i]
        /\ \A i \in 1 .. Len(stack[t]) : GoesOn(stack[t][i], stack'[t][i])
    BY <1>m, <1>n DEF Replaces, GoesOn
  <1>1. Bottoms'
    BY <1>m, <1>n, <1>a DEF Bottoms, Others, GoesOn
  <1>2. PriKept'
    <2>1. CASE t # Main
      BY <1>m, <1>n, <1>a, <2>1 DEF PriKept, Others
    <2>2. CASE t = Main /\ Len(stack[t]) > 1
      <3>1. GoesOn(stack[t][Len(stack[t]) - 1], stack'[t][Len(stack[t]) - 1])
        BY <1>m, <1>n, <1>a, <2>2
      <3>2. stack'[t][Len(stack[t])] = stack[t][Len(stack[t])]
        BY <1>m, <1>n, <1>a, <2>2
      <3> QED
        BY <1>m, <1>n, <1>a, <2>2, <3>1, <3>2 DEF PriKept, GoesOn
    <2>3. CASE t = Main /\ ~(Len(stack[t]) > 1)
      BY <1>m, <1>n, <1>a, <2>3 DEF PriKept
    <2> QED
      BY <2>1, <2>2, <2>3
  <1>3. PriorityRestored'
    BY <1>m, <1>n, <1>a DEF PriorityRestored, Bottoms, Others, GoesOn, Top
  <1> QED
    BY <1>1, <1>2, <1>3

LEMMA PriPush ==
    ASSUME StackOK, StackOK', NEW t \in Threads, NEW g, Priorities,
           Pushes(t, g), Restored(g) = exeqpri[t],
           stack[t] = << >> => t \in Workers /\ ~IsTask(g),
           \A u \in Threads \ {t} : exeqpri'[u] = exeqpri[u]
    PROVE  Priorities'
  <1> USE DEF Priorities
  <1>m. /\ Main \in Threads /\ Main \notin Workers /\ Workers \subseteq Threads
    BY SchedAssumption DEF Threads
  <1>n. /\ Len(stack[t]) \in Nat /\ (stack[t] # << >> <=> Len(stack[t]) > 0)
        /\ Len(stack[t]) = 1 <=> Len(stack[t]) > 0 /\ ~(Len(stack[t]) > 1)
        /\ Len(stack[t]) = 2 <=> Len(stack[t]) > 1 /\ ~(Len(stack[t]) > 2)
        /\ Len(stack'[t]) \in Nat /\ (stack'[t] # << >> <=> Len(stack'[t]) > 0)
        /\ Len(stack'[t]) = 1 <=> Len(stack'[t]) > 0 /\ ~(Len(stack'[t]) > 1)
    BY Lengths
  <1>a. /\ Len(stack'[t]) = Len(stack[t]) + 1 /\ Len(stack[t]) \in Nat
        /\ stack'[t] # << >> /\ stack'[t][1] = g /\ Others(t)
        /\ \A i \in 1 .. Len(stack[t]) : stack'[t][i + 1] = stack[t][i]
    BY <1>m, <1>n DEF Pushes
  <1>1. Bottoms'
    <2>1. CASE stack[t] = << >>
      <3>1. Len(stack[t]) = 0 /\ Len(stack'[t]) = 1 /\ t \in Workers
        BY <1>m, <1>n, <1>a, <2>1
      <3>2. ~IsTask(g) /\ g.caller_pri = 0
        BY <2>1, <3>1 DEF PriorityRestored, Restored
      <3> QED
        BY <1>m, <1>n, <1>a, <3>1, <3>2 DEF Bottoms, Others
    <2>2. CASE stack[t] # << >>
      <3>1. stack'[t][Len(stack'[t])] = stack[t][Len(stack[t])]
        BY <1>m, <1>n, <1>a, <2>2
      <3> QED
        BY <1>m, <1>n, <1>a, <2>2, <3>1 DEF Bottoms, Others
    <2> QED
      BY <2>1, <2>2
  <1>2. PriKept'
    <2>1. CASE t # Main
      BY <1>m, <1>n, <1>a, <2>1 DEF PriKept, Others
    <2>2. CASE t = Main /\ Len(stack[t]) = 1
      BY <1>m, <1>n, <1>a, <2>2 DEF PriKept, PriorityRestored, Restored, Top
    <2>3. CASE t = Main /\ Len(stack[t]) > 1
      <3>1. stack'[t][Len(stack[t]) + 1] = stack[t][Len(stack[t])]
        BY <1>m, <1>n, <1>a, <2>3
      <3>2. stack'[t][Len(stack[t])] = stack[t][Len(stack[t]) - 1]
        <4>1. Len(stack[t]) - 1 \in 1 .. Len(stack[t]) /\ (Len(stack[t]) - 1) + 1 = Len(stack[t])
          BY <1>m, <1>n, <1>a, <2>3
        <4> QED
          BY <1>m, <1>n, <1>a, <4>1
      <3> QED
        BY <1>m, <1>n, <1>a, <2>3, <3>1, <3>2 DEF PriKept
    <2>4. t = Main => Len(stack[t]) > 0 /\ Len(stack[t]) \in Nat
      BY <1>m
    <2> QED
      BY ONLY <2>1, <2>2, <2>3, <2>4, <1>n
  <1>3. PriorityRestored'
    BY <1>m, <1>n, <1>a DEF PriorityRestored, Others, Top
  <1> QED
    BY <1>1, <1>2, <1>3

LEMMA PriReplacePush ==
    ASSUME StackOK, StackOK', NEW t \in Threads, NEW f, NEW g, Priorities,
           ReplacesAndPushes(t, f, g), GoesOn(stack[t][1], f),
           IsTask(f) => Restored(g) = exeqpri[t],
           \A u \in Threads \ {t} : exeqpri'[u] = exeqpri[u]
    PROVE  Priorities'
  <1> USE DEF Priorities
  <1>m. /\ Main \in Threads /\ Main \notin Workers /\ Workers \subseteq Threads
    BY SchedAssumption DEF Threads
  <1>n. /\ Len(stack[t]) \in Nat /\ (stack[t] # << >> <=> Len(stack[t]) > 0)
        /\ Len(stack[t]) = 1 <=> Len(stack[t]) > 0 /\ ~(Len(stack[t]) > 1)
        /\ Len(stack[t]) = 2 <=> Len(stack[t]) > 1 /\ ~(Len(stack[t]) > 2)
        /\ Len(stack'[t]) \in Nat /\ (stack'[t] # << >> <=> Len(stack'[t]) > 0)
        /\ Len(stack'[t]) = 1 <=> Len(stack'[t]) > 0 /\ ~(Len(stack'[t]) > 1)
    BY Lengths
  <1>a. /\ Len(stack'[t]) = Len(stack[t]) + 1 /\ Len(stack[t]) \in Nat /\ Len(stack[t]) > 0
        /\ stack'[t] # << >> /\ stack'[t][1] = g /\ Others(t)
        /\ \A i \in 1 .. Len(stack[t]) : GoesOn(stack[t][i], stack'[t][i + 1])
        /\ \A i \in 2 .. Len(stack[t]) : stack'[t][i + 1] = stack[t][i]
    <2>1. GoesOn(stack[t][1], stack'[t][1 + 1])
      BY DEF ReplacesAndPushes
    <2> QED
      BY <1>m, <1>n, <2>1 DEF ReplacesAndPushes, GoesOn
  <1>b. GoesOn(stack[t][Len(stack[t])], stack'[t][Len(stack'[t])])
    <2>1. Len(stack[t]) \in 1 .. Len(stack[t])
      BY <1>a
    <2> QED
      BY ONLY <1>a, <2>1
  <1>1. Bottoms'
    BY <1>m, <1>n, <1>a, <1>b DEF Bottoms, Others, GoesOn
  <1>2. PriKept'
    <2>1. CASE t # Main
      BY <1>m, <1>n, <1>a, <2>1 DEF PriKept, Others
    <2>2. CASE t = Main /\ Len(stack[t]) = 1
      <3>1. IsTask(stack[t][1]) /\ exeqpri[t] = stack[t][1].pri
        BY <1>m, <1>n, <1>a, <2>2 DEF Bottoms, PriorityRestored, Top
      <3>2. IsTask(f) /\ f.pri = stack[t][1].pri /\ stack'[t][2] = f
        BY <3>1 DEF GoesOn, ReplacesAndPushes
      <3> QED
        BY <1>m, <1>n, <1>a, <2>2, <3>1, <3>2 DEF PriKept, Restored
    <2>3. CASE t = Main /\ Len(stack[t]) > 1
      <3>1. stack'[t][Len(stack[t]) + 1] = stack[t][Len(stack[t])]
        BY <1>m, <1>n, <1>a, <2>3
      <3>2. GoesOn(stack[t][Len(stack[t]) - 1], stack'[t][Len(stack[t])])
        <4>1. Len(stack[t]) - 1 \in 1 .. Len(stack[t]) /\ (Len(stack[t]) - 1) + 1 = Len(stack[t])
          BY <1>m, <1>n, <1>a, <2>3
        <4> QED
          BY <1>m, <1>n, <1>a, <4>1
      <3> QED
        BY <1>m, <1>n, <1>a, <2>3, <3>1, <3>2 DEF PriKept, GoesOn
    <2>4. Len(stack[t]) \in Nat /\ Len(stack[t]) > 0
      BY <1>m, <1>n, <1>a
    <2> QED
      BY ONLY <2>1, <2>2, <2>3, <2>4, <1>n
  <1>3. PriorityRestored'
    BY <1>m, <1>n, <1>a DEF PriorityRestored, Others, Top
  <1> QED
    BY <1>1, <1>2, <1>3

LEMMA PriPop ==
    ASSUME StackOK, StackOK', TypeOK, NEW t \in Threads, Priorities, Pops(t),
           Len(stack[t]) > 1 \/ ~IsTask(stack[t][1]) =>
               exeqpri' = [exeqpri EXCEPT ![t] = Restored(stack[t][1])],
           Len(stack[t]) = 1 /\ IsTask(stack[t][1]) => exeqpri' = exeqpri
    PROVE  Priorities'
  <1> USE DEF Priorities
  <1>m. /\ Main \in Threads /\ Main \notin Workers /\ Workers \subseteq Threads
    BY SchedAssumption DEF Threads
  <1>n. /\ Len(stack[t]) \in Nat /\ (stack[t] # << >> <=> Len(stack[t]) > 0)
        /\ Len(stack[t]) = 1 <=> Len(stack[t]) > 0 /\ ~(Len(stack[t]) > 1)
        /\ Len(stack[t]) = 2 <=> Len(stack[t]) > 1 /\ ~(Len(stack[t]) > 2)
        /\ Len(stack'[t]) \in Nat /\ (stack'[t] # << >> <=> Len(stack'[t]) > 0)
        /\ Len(stack'[t]) = 1 <=> Len(stack'[t]) > 0 /\ ~(Len(stack'[t]) > 1)
    BY Lengths
  <1>a. /\ Len(stack'[t]) = Len(stack[t]) - 1 /\ Len(stack[t]) \in Nat /\ Len(stack[t]) > 0
        /\ Others(t)
        /\ \A i \in 1 .. Len(stack[t]) - 1 : stack'[t][i] = stack[t][i + 1]
    BY <1>m, <1>n DEF Pops
  <1>e. exeqpri' = [exeqpri EXCEPT ![t] = Restored(stack[t][1])] \/ exeqpri' = exeqpri
    BY <1>m, <1>n, <1>a
  <1>f. \A u \in Threads \ {t} : exeqpri'[u] = exeqpri[u]
    BY <1>e DEF TypeOK
  <1>b. Len(stack[t]) > 1 => stack'[t][Len(stack'[t])] = stack[t][Len(stack[t])]
    BY <1>m, <1>n, <1>a
  <1>1. Bottoms'
    BY <1>m, <1>n, <1>a, <1>b DEF Bottoms, Others
  <1>2. PriKept'
    <2>1. CASE t # Main
      BY <1>m, <1>n, <1>a, <2>1 DEF PriKept, Others
    <2>2. CASE t = Main /\ Len(stack[t]) <= 2
      BY <1>m, <1>n, <1>a, <2>2 DEF PriKept
    <2>3. CASE t = Main /\ Len(stack[t]) > 2
      <3>1. stack'[t][Len(stack[t]) - 2] = stack[t][Len(stack[t]) - 1]
        <4>1. Len(stack[t]) - 2 \in 1 .. Len(stack[t]) - 1 /\ (Len(stack[t]) - 2) + 1 = Len(stack[t]) - 1
          BY <1>m, <1>n, <1>a, <2>3
        <4> QED
          BY <1>m, <1>n, <1>a, <4>1
      <3> QED
        BY <1>m, <1>n, <1>a, <1>b, <2>3, <3>1 DEF PriKept
    <2>4. Len(stack[t]) \in Nat /\ Len(stack[t]) > 0
      BY <1>m, <1>n, <1>a
    <2> QED
      BY ONLY <2>1, <2>2, <2>3, <2>4, <1>n
  <1>3. ASSUME NEW w \in Workers, stack'[w] = << >> PROVE exeqpri'[w] = 0
    <2>1. CASE w # t
      BY <1>3, <1>m, <1>a, <1>f, <2>1 DEF PriorityRestored, Others
    <2>2. CASE w = t
      <3>1. ~(Len(stack'[t]) > 0) /\ ~(Len(stack[t]) > 1) /\ Len(stack[t]) > 0
        BY <1>3, <1>m, <1>n, <1>a, <2>2
      <3>2. ~IsTask(stack[t][1]) /\ stack[t][1].caller_pri = 0
        BY <1>m, <1>n, <1>a, <2>2, <3>1 DEF Bottoms
      <3> QED
        BY <2>2, <3>2 DEF Restored, TypeOK
    <2> QED
      BY <2>1, <2>2
  <1>4. ASSUME Len(stack'[Main]) = 1 PROVE exeqpri'[Main] = stack'[Main][1].pri
    <2>1. CASE t # Main
      BY <1>4, <1>m, <1>n, <1>a, <1>f, <2>1 DEF PriorityRestored, Others, Top
    <2>2. CASE t = Main
      <3>1. Len(stack[t]) = 2 /\ stack'[t][1] = stack[t][2]
        <4>1. Len(stack[t]) - 1 = 1 /\ Len(stack[t]) \in Nat
          BY ONLY <1>4, <1>a, <2>2
        <4>2. Len(stack[t]) = 2
          BY ONLY <4>1
        <4>3. 1 \in 1 .. 2 - 1
          OBVIOUS
        <4>4. 1 \in 1 .. Len(stack[t]) - 1
          BY ONLY <4>2, <4>3, Zenon
        <4>5. stack'[t][1] = stack[t][1 + 1]
          BY ONLY <1>a, <4>4
        <4>6. stack'[t][1] = stack[t][2]
          BY ONLY <4>5
        <4> QED
          BY ONLY <4>2, <4>6
      <3>2. Restored(stack[t][1]) = stack[t][2].pri
        BY <2>2, <3>1 DEF PriKept, Restored
      <3> QED
        BY <2>2, <3>1, <3>2 DEF TypeOK
    <2> QED
      BY <2>1, <2>2
  <1>5. PriorityRestored'
    BY <1>3, <1>4 DEF PriorityRestored, Top
  <1> QED
    BY <1>1, <1>2, <1>5

LEMMA PriPopReplace ==
    ASSUME StackOK, StackOK', NEW t \in Threads, NEW g, Priorities,
           PopsAndReplaces(t, g), GoesOn(stack[t][2], g), ~IsTask(g), exeqpri' = exeqpri
    PROVE  Priorities'
  <1> USE DEF Priorities
  <1>m. /\ Main \in Threads /\ Main \notin Workers /\ Workers \subseteq Threads
    BY SchedAssumption DEF Threads
  <1>n. /\ Len(stack[t]) \in Nat /\ (stack[t] # << >> <=> Len(stack[t]) > 0)
        /\ Len(stack[t]) = 1 <=> Len(stack[t]) > 0 /\ ~(Len(stack[t]) > 1)
        /\ Len(stack[t]) = 2 <=> Len(stack[t]) > 1 /\ ~(Len(stack[t]) > 2)
        /\ Len(stack'[t]) \in Nat /\ (stack'[t] # << >> <=> Len(stack'[t]) > 0)
        /\ Len(stack'[t]) = 1 <=> Len(stack'[t]) > 0 /\ ~(Len(stack'[t]) > 1)
    BY Lengths
  <1>a. /\ Len(stack'[t]) = Len(stack[t]) - 1 /\ Len(stack[t]) \in Nat /\ Len(stack[t]) > 1
        /\ stack'[t] # << >> /\ stack'[t][1] = g /\ Others(t)
        /\ \A i \in 2 .. Len(stack[t]) - 1 : stack'[t][i] = stack[t][i + 1]
        /\ \A i \in 1 .. Len(stack[t]) - 1 : GoesOn(stack[t][i + 1], stack'[t][i])
    <2>1. GoesOn(stack[t][1 + 1], stack'[t][1])
      BY DEF PopsAndReplaces
    <2> QED
      BY <1>m, <1>n, <2>1 DEF PopsAndReplaces, GoesOn
  <1>b. GoesOn(stack[t][Len(stack[t])], stack'[t][Len(stack'[t])])
    BY <1>m, <1>n, <1>a
  <1>c. t = Main => Len(stack[t]) > 2
    <2>1. ~IsTask(stack[t][2])
      BY DEF GoesOn
    <2> QED
      BY <1>m, <1>n, <1>a, <2>1 DEF Bottoms
  <1>1. Bottoms'
    <2> DEFINE e(u) == stack[u][Len(stack[u])]
    <2>1. /\ stack[Main] # << >> => IsTask(e(Main)) /\ e(Main).id = Root
          /\ \A w \in Workers : stack[w] # << >> => ~IsTask(e(w)) /\ e(w).caller_pri = 0
      BY DEF Bottoms
    <2>2. \A u \in Threads : stack'[u] # << >> =>
              stack[u] # << >> /\ GoesOn(e(u), stack'[u][Len(stack'[u])])
      BY <1>n, <1>a, <1>b DEF Others, GoesOn
    <2> QED
      BY <1>m, <2>1, <2>2 DEF Bottoms, GoesOn
  <1>2. PriKept'
    <2>1. CASE t # Main
      BY <1>m, <1>n, <1>a, <2>1 DEF PriKept, Others
    <2>2. CASE t = Main
      <3>1. GoesOn(stack[t][Len(stack[t]) - 1], stack'[t][Len(stack[t]) - 2])
        <4>1. Len(stack[t]) - 2 \in 1 .. Len(stack[t]) - 1 /\ (Len(stack[t]) - 2) + 1 = Len(stack[t]) - 1
          BY <1>m, <1>n, <1>a, <1>c, <2>2
        <4> QED
          BY <1>m, <1>n, <1>a, <4>1
      <3>2. stack'[t][Len(stack[t]) - 1] = stack[t][Len(stack[t])]
        <4>1. Len(stack[t]) - 1 \in 2 .. Len(stack[t]) - 1 /\ (Len(stack[t]) - 1) + 1 = Len(stack[t])
          BY <1>m, <1>n, <1>a, <1>c, <2>2
        <4> QED
          BY <1>m, <1>n, <1>a, <4>1
      <3> QED
        BY <1>m, <1>n, <1>a, <1>c, <2>2, <3>1, <3>2 DEF PriKept, GoesOn
    <2> QED
      BY <2>1, <2>2
  <1>3. PriorityRestored'
    BY <1>m, <1>n, <1>a, <1>c, <1>m DEF PriorityRestored, Others, Top
  <1> QED
    BY <1>1, <1>2, <1>3

LEMMA PrioritiesKept ==
    ASSUME TypeOK, StackOK, Taking, Priorities, NEW t \in Threads, Step(t)
    PROVE  StackOK' /\ Priorities'
  <1>1. ASSUME NEW ph, StackOK', Goes(t, ph), exeqpri' = exeqpri PROVE Priorities'
    BY <1>1, PriReplace DEF Goes
  <1>2. CASE CallEnqueue(t)
    BY <1>1, <1>2, CallEnqueueStack DEF CallEnqueue
  <1>3. CASE CallPublish(t)
    BY <1>1, <1>3, CallPublishStack DEF CallPublish
  <1>4. CASE CallIncr(t)
    BY <1>1, <1>4, CallIncrStack DEF CallIncr
  <1>5. CASE CallInline(t)
    <2> DEFINE g == stack'[t][1]
    <2>1. StackOK' /\ stack[t] # << >> /\ Pushes(t, g) /\ g.ph = "body" /\ g.pri = exeqpri[t]
      BY <1>5, CallInlineStack
    <2>2. Restored(g) = exeqpri[t]
      BY <2>1, PhaseKind DEF Restored, TaskPhases
    <2>3. \A u \in Threads \ {t} : exeqpri'[u] = exeqpri[u]
      BY <1>5 DEF CallInline, TypeOK
    <2> QED
      BY <2>1, <2>2, <2>3, PriPush
  <1>6. CASE Join(t)
    BY <1>1, <1>6, JoinStack DEF Join
  <1>7. CASE JoinYield(t)
    <2> DEFINE f == stack'[t][2]
               g == stack'[t][1]
    <2>1. CASE Goes(t, "block")
      BY <1>1, <1>7, <2>1, JoinYieldStack DEF JoinYield
    <2>2. CASE /\ ReplacesAndPushes(t, f, g)
               /\ f.ph = "block" /\ f.id = stack[t][1].id /\ f.pri = stack[t][1].pri
               /\ g.ph = "lock" /\ g.caller_pri = exeqpri[t]
      <3>1. StackOK' /\ stack[t][1].ph = "yield"
        BY <1>7, JoinYieldStack
      <3>2. GoesOn(stack[t][1], f)
        BY <2>2, <3>1, PhaseKind DEF GoesOn, TaskPhases
      <3>3. Restored(g) = exeqpri[t]
        BY <2>2, PhaseKind DEF Restored, PickPhases
      <3> QED
        BY <1>7, <2>2, <3>1, <3>2, <3>3, PriReplacePush DEF JoinYield
    <2> QED
      BY <1>7, <2>1, <2>2, JoinYieldStack
  <1>8. CASE JoinDone(t)
    BY <1>1, <1>8, JoinDoneStack DEF JoinDone
  <1>9. CASE ReturnInline(t)
    <2>1. /\ StackOK' /\ stack[t] # << >> /\ stack[t][1].ph = "ret"
          /\ Len(stack[t]) > 1 /\ Pops(t)
      BY <1>9, ReturnInlineStack
    <2>2. Restored(stack[t][1]) = Top(t).pri /\ IsTask(stack[t][1])
      BY <2>1, PhaseKind, FrameAt DEF Restored, TaskPhases
    <2>3. exeqpri' = [exeqpri EXCEPT ![t] = Restored(stack[t][1])]
      BY <1>9, <2>2 DEF ReturnInline
    <2>4. ~(Len(stack[t]) = 1)
      BY <2>1, LengthCases, FrameAt
    <2> QED
      BY <2>1, <2>3, <2>4, PriPop
  <1>10. CASE ReturnPicked(t)
    <2> DEFINE g == stack'[t][1]
    <2>1. StackOK' /\ PopsAndReplaces(t, g) /\ GoesOn(stack[t][2], g) /\ g.ph = "lock"
      BY <1>10, ReturnPickedStack
    <2>2. ~IsTask(g)
      BY <2>1, PhaseKind DEF PickPhases
    <2> QED
      BY <1>10, <2>1, <2>2, PriPopReplace DEF ReturnPicked
  <1>11. CASE ReturnRoot(t)
    <2>1. StackOK' /\ stack[t] # << >> /\ stack[t][1].ph = "ret" /\ Len(stack[t]) = 1 /\ Pops(t)
      BY <1>11, ReturnRootStack
    <2>2. IsTask(stack[t][1])
      BY <2>1, PhaseKind DEF TaskPhases
    <2>3. ~(Len(stack[t]) > 1)
      BY <2>1, LengthCases, FrameAt
    <2> QED
      BY <1>11, <2>1, <2>2, <2>3, PriPop DEF ReturnRoot
  <1>12. CASE WorkerYield(t)
    <2> DEFINE g == stack'[t][1]
    <2>1. /\ StackOK' /\ stack[t] = << >> /\ t \in Workers /\ Pushes(t, g)
          /\ g.ph = "lock" /\ g.caller_pri = exeqpri[t]
      BY <1>12, WorkerYieldStack
    <2>2. ~IsTask(g) /\ Restored(g) = exeqpri[t]
      BY <2>1, PhaseKind DEF Restored, PickPhases
    <2> QED
      BY <1>12, <2>1, <2>2, PriPush DEF WorkerYield
  <1>13. CASE PickLock(t)
    BY <1>1, <1>13, PickLockStack DEF PickLock
  <1>14. CASE PickTest(t)
    BY <1>1, <1>14, PickTestStack DEF PickTest
  <1>15. CASE PickRead(t)
    BY <1>15, PickReadStack, PriReplace DEF PickRead
  <1>16. CASE PickTake(t)
    BY <1>1, <1>16, PickTakeStack DEF PickTake
  <1>17. CASE PickCall(t)
    <2> DEFINE f == stack'[t][2]
               g == stack'[t][1]
    <2>1. /\ StackOK' /\ ReplacesAndPushes(t, f, g) /\ GoesOn(stack[t][1], f) /\ f.ph = "called"
      BY <1>17, PickCallStack
    <2>2. ~IsTask(f)
      BY <2>1, PhaseKind DEF PickPhases
    <2>3. \A u \in Threads \ {t} : exeqpri'[u] = exeqpri[u]
      BY <1>17 DEF PickCall, TypeOK
    <2> QED
      BY <2>1, <2>2, <2>3, PriReplacePush
  <1>18. CASE PickNext(t)
    <2>1. /\ StackOK' /\ stack[t] # << >> /\ stack[t][1].ph = "test"
      BY <1>18, PickNextStack
    <2>2. ~IsTask(stack[t][1]) /\ Restored(stack[t][1]) = stack[t][1].caller_pri
      BY <2>1, PhaseKind DEF Restored, PickPhases
    <2>3. CASE Replaces(t, stack'[t][1]) /\ GoesOn(stack[t][1], stack'[t][1]) /\ exeqpri' = exeqpri
      BY <2>1, <2>3, PriReplace
    <2>4. CASE Pops(t) /\ exeqpri' = [exeqpri EXCEPT ![t] = stack[t][1].caller_pri]
      BY <2>1, <2>2, <2>4, PriPop
    <2> QED
      BY <1>18, <2>1, <2>3, <2>4, PickNextStack
  <1> QED
    BY <1>2, <1>3, <1>4, <1>5, <1>6, <1>7, <1>8, <1>9, <1>10, <1>11, <1>12, <1>13, <1>14,
       <1>15, <1>16, <1>17, <1>18 DEF Step

-----------------------------------------------------------------------------
(* The shape of the stacks.                                                *)

\* What f may stand on.
StandsOn(f, g) ==
    IF IsTask(f)
    THEN \/ g.ph = "called" /\ g.id = f.id
         \/ /\ g.ph = "body" /\ issued[g.id] \in DOMAIN Children[g.id]
            /\ f.id = Children[g.id][issued[g.id]]
    ELSE g.ph = "block"

LEMMA ShapeIs ==
    Shape <=> \A t \in Threads : \A i \in 1 .. Len(stack[t]) - 1 : StandsOn(stack[t][i], stack[t][i + 1])
  BY DEF Shape, StandsOn

\* The tasks below the top of a stack have scheduled what they had.
IssuedKept ==
    \A u \in Threads : \A i \in 2 .. Len(stack[u]) :
        stack[u][i].ph = "body" => issued'[stack[u][i].id] = issued[stack[u][i].id]

Stacks == Shape /\ TopOK

LEMMA StandsKept ==
    ASSUME NEW f, NEW g, NEW h, StandsOn(f, h), GoesOn(f, g),
           h.ph = "body" => issued'[h.id] = issued[h.id]
    PROVE  StandsOn(g, h)'
  BY DEF StandsOn, GoesOn, IsTask

LEMMA StacksElsewhere ==
    ASSUME StackOK, StackOK', Stacks, IssuedKept, NEW t \in Threads, Others(t)
    PROVE  \A u \in Threads \ {t} :
              /\ \A i \in 1 .. Len(stack'[u]) - 1 : StandsOn(stack[u][i], stack[u][i + 1])'
              /\ stack'[u] # << >> => stack'[u][1].ph # "called"
  <1> SUFFICES ASSUME NEW u \in Threads \ {t}
               PROVE  /\ \A i \in 1 .. Len(stack'[u]) - 1 : StandsOn(stack[u][i], stack[u][i + 1])'
                      /\ stack'[u] # << >> => stack'[u][1].ph # "called"
    OBVIOUS
  <1>1. stack'[u] = stack[u] /\ Len(stack[u]) \in Nat
    BY Lengths DEF Others
  <1>2. ASSUME NEW i \in 1 .. Len(stack'[u]) - 1 PROVE StandsOn(stack[u][i], stack[u][i + 1])'
    <2>1. i \in 1 .. Len(stack[u]) - 1 /\ i + 1 \in 2 .. Len(stack[u])
      BY <1>1
    <2>2. StandsOn(stack[u][i], stack[u][i + 1])
      BY <2>1, ShapeIs DEF Stacks
    <2>3. stack[u][i + 1].ph = "body" => issued'[stack[u][i + 1].id] = issued[stack[u][i + 1].id]
      BY <2>1 DEF IssuedKept
    <2> QED
      BY <1>1, <2>2, <2>3 DEF StandsOn
  <1> QED
    BY <1>1, <1>2 DEF Stacks, TopOK

\* It remains to look at the stack of the thread that takes the step.
LEMMA StacksFromOwn ==
    ASSUME StackOK, StackOK', Stacks, IssuedKept, NEW t \in Threads, Others(t),
           \A i \in 1 .. Len(stack'[t]) - 1 : StandsOn(stack[t][i], stack[t][i + 1])',
           stack'[t] # << >> => stack'[t][1].ph # "called"
    PROVE  Stacks'
  <1>1. \A u \in Threads : \A i \in 1 .. Len(stack'[u]) - 1 : StandsOn(stack[u][i], stack[u][i + 1])'
    BY StacksElsewhere
  <1>2. Shape'
    BY <1>1 DEF Shape, StandsOn
  <1> QED
    BY <1>2, StacksElsewhere DEF Stacks, TopOK

LEMMA StacksReplace ==
    ASSUME StackOK, StackOK', Stacks, IssuedKept, NEW t \in Threads, NEW g,
           Replaces(t, g), GoesOn(stack[t][1], g), g.ph # "called"
    PROVE  Stacks'
  <1>1. ASSUME NEW i \in 1 .. Len(stack'[t]) - 1 PROVE StandsOn(stack[t][i], stack[t][i + 1])'
    <2>1. i \in 1 .. Len(stack[t]) - 1 /\ i + 1 \in 2 .. Len(stack[t]) /\ Len(stack[t]) \in Nat
      BY Lengths DEF Replaces
    <2>2. StandsOn(stack[t][i], stack[t][i + 1])
      BY <2>1, ShapeIs DEF Stacks
    <2>3. stack'[t][i + 1] = stack[t][i + 1] /\ GoesOn(stack[t][i], stack'[t][i])
      BY <2>1 DEF Replaces, GoesOn
    <2>4. stack[t][i + 1].ph = "body" => issued'[stack[t][i + 1].id] = issued[stack[t][i + 1].id]
      BY <2>1 DEF IssuedKept
    <2> QED
      BY <2>2, <2>3, <2>4 DEF StandsOn, GoesOn, IsTask
  <1> QED
    BY <1>1, StacksFromOwn DEF Replaces

LEMMA StacksPush ==
    ASSUME StackOK, StackOK', Stacks, IssuedKept, NEW t \in Threads, NEW g,
           Pushes(t, g), g.ph # "called",
           stack[t] # << >> => StandsOn(stack[t][1], stack[t][2])'
    PROVE  Stacks'
  <1>1. ASSUME NEW i \in 1 .. Len(stack'[t]) - 1 PROVE StandsOn(stack[t][i], stack[t][i + 1])'
    <2>0. Len(stack[t]) \in Nat /\ Len(stack'[t]) = Len(stack[t]) + 1 /\ (stack[t] # << >> <=> Len(stack[t]) > 0)
      BY Lengths DEF Pushes
    <2>1. CASE ~(i > 1)
      <3>1. i = 1 /\ i + 1 = 2 /\ Len(stack[t]) > 0
        BY <2>0, <2>1
      <3> QED
        BY <2>0, <3>1
    <2>2. CASE i > 1
      <3>1. PICK j \in 1 .. Len(stack[t]) - 1 : i = j + 1
        BY <2>0, <2>2
      <3>2. stack'[t][i] = stack[t][j] /\ stack'[t][i + 1] = stack[t][j + 1]
        <4>1. j \in 1 .. Len(stack[t]) /\ j + 1 \in 1 .. Len(stack[t])
          BY <2>0, <3>1
        <4>2. stack'[t][j + 1] = stack[t][j] /\ stack'[t][(j + 1) + 1] = stack[t][j + 1]
          BY <4>1 DEF Pushes
        <4> QED
          BY <3>1, <4>2
      <3>3. StandsOn(stack[t][j], stack[t][j + 1])
        BY <3>1, ShapeIs DEF Stacks
      <3>4. stack[t][j + 1].ph = "body" => issued'[stack[t][j + 1].id] = issued[stack[t][j + 1].id]
        BY <2>0, <3>1 DEF IssuedKept
      <3> QED
        BY <3>2, <3>3, <3>4 DEF StandsOn
    <2> QED
      BY <2>1, <2>2
  <1> QED
    BY <1>1, StacksFromOwn DEF Pushes

LEMMA StacksReplacePush ==
    ASSUME StackOK, StackOK', Stacks, IssuedKept, NEW t \in Threads, NEW f, NEW g,
           ReplacesAndPushes(t, f, g), GoesOn(stack[t][1], f), g.ph # "called",
           StandsOn(stack[t][1], stack[t][2])'
    PROVE  Stacks'
  <1>1. ASSUME NEW i \in 1 .. Len(stack'[t]) - 1 PROVE StandsOn(stack[t][i], stack[t][i + 1])'
    <2>0. /\ Len(stack[t]) \in Nat /\ Len(stack'[t]) = Len(stack[t]) + 1
          /\ stack'[t][1] = g /\ stack'[t][2] = f
      BY Lengths DEF ReplacesAndPushes
    <2>1. CASE ~(i > 1)
      <3>1. i = 1 /\ i + 1 = 2
        BY <2>0, <2>1
      <3> QED
        BY <2>0, <3>1 DEF StandsOn
    <2>2. CASE i > 1
      <3>1. PICK j \in 1 .. Len(stack[t]) - 1 : i = j + 1
        BY <2>0, <2>2
      <3>2. stack'[t][i + 1] = stack[t][j + 1] /\ GoesOn(stack[t][j], stack'[t][i])
        <4>1. j + 1 \in 2 .. Len(stack[t])
          BY <2>0, <3>1
        <4>2. CASE ~(j > 1)
          <5>1. j = 1 /\ i = 2
            BY <3>1, <4>2
          <5> QED
            BY <2>0, <3>1, <4>1, <5>1 DEF ReplacesAndPushes
        <4>3. CASE j > 1
          <5>1. j \in 2 .. Len(stack[t])
            BY <2>0, <3>1, <4>3
          <5> QED
            BY <3>1, <4>1, <5>1 DEF ReplacesAndPushes, GoesOn
        <4> QED
          BY <4>2, <4>3
      <3>3. StandsOn(stack[t][j], stack[t][j + 1])
        BY <3>1, ShapeIs DEF Stacks
      <3>4. stack[t][j + 1].ph = "body" => issued'[stack[t][j + 1].id] = issued[stack[t][j + 1].id]
        BY <2>0, <3>1 DEF IssuedKept
      <3> QED
        BY <3>2, <3>3, <3>4 DEF StandsOn, GoesOn, IsTask
    <2> QED
      BY <2>1, <2>2
  <1> QED
    BY <1>1, StacksFromOwn DEF ReplacesAndPushes

LEMMA StacksPop ==
    ASSUME StackOK, StackOK', Stacks, IssuedKept, NEW t \in Threads, Pops(t),
           Len(stack[t]) > 1 => stack[t][2].ph # "called"
    PROVE  Stacks'
  <1>0. /\ Len(stack[t]) \in Nat /\ Len(stack'[t]) = Len(stack[t]) - 1
        /\ (stack'[t] # << >> <=> Len(stack'[t]) > 0)
    BY Lengths DEF Pops
  <1>1. ASSUME NEW i \in 1 .. Len(stack'[t]) - 1 PROVE StandsOn(stack[t][i], stack[t][i + 1])'
    <2>1. /\ i + 1 \in 1 .. Len(stack[t]) - 1 /\ (i + 1) + 1 \in 2 .. Len(stack[t])
          /\ i \in 1 .. Len(stack'[t]) /\ i + 1 \in 1 .. Len(stack'[t])
      BY <1>0
    <2>2. stack'[t][i] = stack[t][i + 1] /\ stack'[t][i + 1] = stack[t][(i + 1) + 1]
      BY <2>1 DEF Pops
    <2>3. StandsOn(stack[t][i + 1], stack[t][(i + 1) + 1])
      BY <2>1, ShapeIs DEF Stacks
    <2>4. stack[t][(i + 1) + 1].ph = "body" =>
              issued'[stack[t][(i + 1) + 1].id] = issued[stack[t][(i + 1) + 1].id]
      BY <2>1 DEF IssuedKept
    <2> QED
      BY <2>2, <2>3, <2>4 DEF StandsOn
  <1>2. stack'[t] # << >> => stack'[t][1].ph # "called"
    <2>1. stack'[t] # << >> => stack'[t][1] = stack[t][1 + 1]
      BY <1>0 DEF Pops
    <2> QED
      BY <1>0, <2>1
  <1> QED
    BY <1>1, <1>2, StacksFromOwn DEF Pops

LEMMA StacksPopReplace ==
    ASSUME StackOK, StackOK', Stacks, IssuedKept, NEW t \in Threads, NEW g,
           PopsAndReplaces(t, g), GoesOn(stack[t][2], g), g.ph # "called"
    PROVE  Stacks'
  <1>0. Len(stack[t]) \in Nat /\ Len(stack'[t]) = Len(stack[t]) - 1 /\ stack'[t][1] = g
    BY Lengths DEF PopsAndReplaces
  <1>1. ASSUME NEW i \in 1 .. Len(stack'[t]) - 1 PROVE StandsOn(stack[t][i], stack[t][i + 1])'
    <2>1. /\ i + 1 \in 1 .. Len(stack[t]) - 1 /\ (i + 1) + 1 \in 2 .. Len(stack[t])
          /\ i + 1 \in 2 .. Len(stack'[t])
      BY <1>0
    <2>2. stack'[t][i + 1] = stack[t][(i + 1) + 1] /\ GoesOn(stack[t][i + 1], stack'[t][i])
      <3>1. CASE ~(i > 1)
        <4>1. i = 1 /\ i + 1 = 2
          BY <1>0, <3>1
        <4> QED
          BY <1>0, <2>1, <4>1 DEF PopsAndReplaces
      <3>2. CASE i > 1
        <4>1. i \in 2 .. Len(stack'[t])
          BY <1>0, <3>2
        <4> QED
          BY <2>1, <4>1 DEF PopsAndReplaces, GoesOn
      <3> QED
        BY <3>1, <3>2
    <2>3. StandsOn(stack[t][i + 1], stack[t][(i + 1) + 1])
      BY <2>1, ShapeIs DEF Stacks
    <2>4. stack[t][(i + 1) + 1].ph = "body" =>
              issued'[stack[t][(i + 1) + 1].id] = issued[stack[t][(i + 1) + 1].id]
      BY <2>1 DEF IssuedKept
    <2> QED
      BY <2>2, <2>3, <2>4 DEF StandsOn, GoesOn, IsTask
  <1> QED
    BY <1>0, <1>1, StacksFromOwn DEF PopsAndReplaces

\* Only the task on top of its stack schedules.
LEMMA OwnIssued ==
    ASSUME TypeOK, StackOK, Running, NEW t \in Threads, stack[t] # << >>, IsTask(stack[t][1]),
           issued' = [issued EXCEPT ![Top(t).id] = @ + 1]
    PROVE  IssuedKept
  <1> SUFFICES ASSUME NEW u \in Threads, NEW i \in 2 .. Len(stack[u]), stack[u][i].ph = "body"
               PROVE  issued'[stack[u][i].id] = issued[stack[u][i].id]
    BY DEF IssuedKept
  <1>1. Top(t) = stack[t][1] /\ Len(stack[t]) \in Nat /\ Len(stack[t]) > 0
    BY FrameAt
  <1>2. IsFrame(t, 1)
    BY <1>1 DEF IsFrame
  <1>3. Len(stack[u]) \in Nat
    BY DEF StackOK
  <1>4. IsFrame(u, i) /\ i \in Nat /\ i # 1
    BY <1>3, PhaseKind DEF IsFrame, TaskPhases
  <1>5. stack[u][i].id # stack[t][1].id
    BY <1>2, <1>4 DEF Running
  <1> QED
    BY <1>1, <1>5 DEF TypeOK

LEMMA StacksKept ==
    ASSUME TypeOK, StackOK, Taking, Running, Stacks, NEW t \in Threads, Step(t)
    PROVE  Stacks'
  <1> DEFINE f == stack'[t][2]
             g == stack'[t][1]
  <1>1. ASSUME NEW ph, StackOK', Goes(t, ph), ph # "called", IssuedKept PROVE Stacks'
    BY <1>1, StacksReplace DEF Goes
  <1>2. ASSUME issued' = issued PROVE IssuedKept
    BY <1>2 DEF IssuedKept
  <1>3. CASE CallEnqueue(t)
    BY <1>1, <1>2, <1>3, CallEnqueueStack DEF CallEnqueue
  <1>4. CASE CallPublish(t)
    BY <1>1, <1>2, <1>4, CallPublishStack DEF CallPublish
  <1>5. CASE CallIncr(t)
    <2>1. StackOK' /\ stack[t][1].ph = "incr" /\ Goes(t, "body") /\ stack[t] # << >>
      BY <1>5, CallIncrStack DEF CallIncr, InPhase
    <2>2. IssuedKept
      BY <1>5, <2>1, OwnIssued, PhaseKind DEF CallIncr, TaskPhases
    <2> QED
      BY <1>1, <2>1, <2>2
  <1>6. CASE CallInline(t)
    <2>1. /\ StackOK' /\ stack[t] # << >> /\ stack[t][1].ph = "body" /\ Pushes(t, g)
          /\ g.ph = "body" /\ g.id = NextTask(t)
      BY <1>6, CallInlineStack
    <2>2. IsTask(stack[t][1]) /\ IsTask(g)
      BY <2>1, PhaseKind DEF TaskPhases
    <2>3. IssuedKept
      BY <1>6, <2>1, <2>2, OwnIssued DEF CallInline
    <2>4. stack'[t][1 + 1] = stack[t][1] /\ 1 + 1 = 2
      BY <2>1, FrameAt DEF Pushes
    <2>5. LET p == stack[t][1].id IN
          /\ p \in Tasks /\ issued[p] + 1 \in DOMAIN Children[p]
          /\ NextTask(t) = Children[p][issued[p] + 1]
      BY <1>6, <2>1, <2>2, NextTaskOf DEF CallInline
    <2>6. issued'[stack[t][1].id] = issued[stack[t][1].id] + 1
      BY <1>6, <2>1, <2>5, FrameAt DEF CallInline, TypeOK
    <2>7. StandsOn(stack[t][1], stack[t][2])'
      BY <2>1, <2>2, <2>4, <2>5, <2>6 DEF StandsOn
    <2> QED
      BY <2>1, <2>3, <2>7, StacksPush
  <1>7. CASE Join(t)
    BY <1>1, <1>2, <1>7, JoinStack DEF Join
  <1>8. CASE JoinYield(t)
    <2>1. IssuedKept /\ StackOK' /\ stack[t][1].ph = "yield"
      BY <1>2, <1>8, JoinYieldStack DEF JoinYield
    <2>2. CASE Goes(t, "block")
      BY <1>1, <2>1, <2>2
    <2>3. CASE /\ ReplacesAndPushes(t, f, g)
               /\ f.ph = "block" /\ f.id = stack[t][1].id /\ f.pri = stack[t][1].pri
               /\ g.ph = "lock"
      <3>1. GoesOn(stack[t][1], f)
        BY <2>1, <2>3, PhaseKind DEF GoesOn, TaskPhases
      <3>2. StandsOn(stack[t][1], stack[t][2])'
        BY <2>3, PhaseKind DEF StandsOn, PickPhases, IsTask
      <3> QED
        BY <2>1, <2>3, <3>1, <3>2, StacksReplacePush
    <2> QED
      BY <1>8, <2>2, <2>3, JoinYieldStack
  <1>9. CASE JoinDone(t)
    BY <1>1, <1>2, <1>9, JoinDoneStack DEF JoinDone
  <1>10. CASE ReturnInline(t)
    <2>1. StackOK' /\ Pops(t) /\ stack[t][2].ph = "body"
      BY <1>10, ReturnInlineStack
    <2>2. IssuedKept
      BY <1>2, <1>10 DEF ReturnInline
    <2> QED
      BY <2>1, <2>2, StacksPop
  <1>11. CASE ReturnPicked(t)
    <2>1. StackOK' /\ PopsAndReplaces(t, g) /\ GoesOn(stack[t][2], g) /\ g.ph = "lock"
      BY <1>11, ReturnPickedStack
    <2>2. IssuedKept
      BY <1>2, <1>11 DEF ReturnPicked
    <2> QED
      BY <2>1, <2>2, StacksPopReplace
  <1>12. CASE ReturnRoot(t)
    <2>1. StackOK' /\ Pops(t) /\ Len(stack[t]) = 1
      BY <1>12, ReturnRootStack
    <2>2. IssuedKept
      BY <1>2, <1>12 DEF ReturnRoot
    <2>3. ~(Len(stack[t]) > 1)
      BY <2>1, Lengths
    <2> QED
      BY <2>1, <2>2, <2>3, StacksPop
  <1>13. CASE WorkerYield(t)
    <2>1. StackOK' /\ stack[t] = << >> /\ Pushes(t, g) /\ g.ph = "lock"
      BY <1>13, WorkerYieldStack
    <2>2. IssuedKept
      BY <1>2, <1>13 DEF WorkerYield
    <2> QED
      BY <2>1, <2>2, StacksPush
  <1>14. CASE PickLock(t)
    BY <1>1, <1>2, <1>14, PickLockStack DEF PickLock
  <1>15. CASE PickTest(t)
    BY <1>1, <1>2, <1>15, PickTestStack DEF PickTest
  <1>16. CASE PickRead(t)
    <2>1. /\ StackOK' /\ Replaces(t, g) /\ GoesOn(stack[t][1], g) /\ g.ph = "take"
      BY <1>16, PickReadStack
    <2>2. IssuedKept
      BY <1>2, <1>16 DEF PickRead
    <2> QED
      BY <2>1, <2>2, StacksReplace
  <1>17. CASE PickTake(t)
    BY <1>1, <1>2, <1>17, PickTakeStack DEF PickTake
  <1>18. CASE PickCall(t)
    <2>1. /\ StackOK' /\ ReplacesAndPushes(t, f, g) /\ GoesOn(stack[t][1], f)
          /\ f.ph = "called" /\ f.id = stack[t][1].id /\ g.ph = "body" /\ g.id = stack[t][1].id
      BY <1>18, PickCallStack
    <2>2. IssuedKept
      BY <1>2, <1>18 DEF PickCall
    <2>3. StandsOn(stack[t][1], stack[t][2])'
      BY <2>1, PhaseKind DEF StandsOn, TaskPhases, IsTask
    <2> QED
      BY <2>1, <2>2, <2>3, StacksReplacePush
  <1>19. CASE PickNext(t)
    <2>1. StackOK' /\ stack[t] # << >> /\ stack[t][1].ph = "test"
      BY <1>19, PickNextStack
    <2>2. IssuedKept
      BY <1>2, <1>19 DEF PickNext
    <2>3. CASE Replaces(t, g) /\ GoesOn(stack[t][1], g) /\ g.ph = "lock"
      BY <2>1, <2>2, <2>3, StacksReplace
    <2>4. CASE Pops(t)
      <3>1. ~IsTask(stack[t][1])
        BY <2>1, PhaseKind DEF PickPhases
      <3>2. Len(stack[t]) > 1 => 1 \in 1 .. Len(stack[t]) - 1 /\ 1 + 1 = 2
        BY <2>1, FrameAt
      <3>3. Len(stack[t]) > 1 => stack[t][2].ph = "block"
        BY <3>1, <3>2 DEF Stacks, Shape
      <3> QED
        BY <2>1, <2>2, <2>4, <3>3, StacksPop
    <2> QED
      BY <1>19, <2>3, <2>4, PickNextStack
  <1> QED
    BY <1>3, <1>4, <1>5, <1>6, <1>7, <1>8, <1>9, <1>10, <1>11, <1>12, <1>13, <1>14,
       <1>15, <1>16, <1>17, <1>18, <1>19 DEF Step

-----------------------------------------------------------------------------
(* The rings.                                                              *)

LEMMA RingSteps ==
    ASSUME NEW h \in Slots, NEW k \in Slots, NEW i \in Slots
    PROVE  /\ (h - k - 1) % SIZE \in Nat
           /\ h # k => ((i - k - 1) % SIZE < (((h + 1) % SIZE) - k - 1) % SIZE
                           <=> (i - k - 1) % SIZE < (h - k - 1) % SIZE \/ i = h)
           /\ h # k /\ (h - k - 1) % SIZE > 0 => (((h + 1) % SIZE) - k - 1) % SIZE > 0
           /\ (h - k - 1) % SIZE > 0 =>
                 /\ (k + 1) % SIZE # h
                 /\ (((k + 1) % SIZE) - k - 1) % SIZE < (h - k - 1) % SIZE
                 /\ (i - ((k + 1) % SIZE) - 1) % SIZE < (h - ((k + 1) % SIZE) - 1) % SIZE
                        <=> (i - k - 1) % SIZE < (h - k - 1) % SIZE /\ i # (k + 1) % SIZE
  <1> DEFINE D(a, b) == IF a > b THEN a - b - 1 ELSE a - b - 1 + SIZE
             h1 == (h + 1) % SIZE
             k1 == (k + 1) % SIZE
  <1>a. SIZE \in Nat /\ SIZE > 1
    BY SchedAssumption
  <1>b. h \in 0 .. SIZE - 1 /\ k \in 0 .. SIZE - 1 /\ i \in 0 .. SIZE - 1
    BY DEF Slots
  <1>1. h1 \in Slots /\ k1 \in Slots
    BY SlotSteps
  <1>2. /\ h1 = IF h + 1 = SIZE THEN 0 ELSE h + 1
        /\ k1 = IF k + 1 = SIZE THEN 0 ELSE k + 1
    BY SlotSteps
  <1> HIDE DEF h1, k1
  <1>3. /\ (h - k - 1) % SIZE = D(h, k) /\ (i - k - 1) % SIZE = D(i, k)
        /\ (h1 - k - 1) % SIZE = D(h1, k) /\ (k1 - k - 1) % SIZE = D(k1, k)
        /\ (i - k1 - 1) % SIZE = D(i, k1) /\ (h - k1 - 1) % SIZE = D(h, k1)
    BY <1>1, SlotSteps
  <1>4. D(h, k) \in Nat
    BY ONLY <1>a, <1>b
  <1>5. h # k => (D(i, k) < D(h1, k) <=> D(i, k) < D(h, k) \/ i = h)
    BY ONLY <1>a, <1>b, <1>2
  <1>6. h # k /\ D(h, k) > 0 => D(h1, k) > 0
    BY ONLY <1>a, <1>b, <1>2
  <1>7. D(h, k) > 0 => k1 # h /\ D(k1, k) < D(h, k)
    BY ONLY <1>a, <1>b, <1>2
  <1>8. D(h, k) > 0 => (D(i, k1) < D(h, k1) <=> D(i, k) < D(h, k) /\ i # k1)
    BY ONLY <1>a, <1>b, <1>2
  <1> HIDE DEF D
  <1>9. (h - k - 1) % SIZE \in Nat
    BY ONLY <1>3, <1>4
  <1>10. h # k => ((i - k - 1) % SIZE < (h1 - k - 1) % SIZE
                      <=> (i - k - 1) % SIZE < (h - k - 1) % SIZE \/ i = h)
    BY ONLY <1>3, <1>5
  <1>11. h # k /\ (h - k - 1) % SIZE > 0 => (h1 - k - 1) % SIZE > 0
    BY ONLY <1>3, <1>6
  <1>12. (h - k - 1) % SIZE > 0 =>
            k1 # h /\ (k1 - k - 1) % SIZE < (h - k - 1) % SIZE
    BY ONLY <1>3, <1>7
  <1>13. (h - k - 1) % SIZE > 0 =>
            ((i - k1 - 1) % SIZE < (h - k1 - 1) % SIZE
                <=> (i - k - 1) % SIZE < (h - k - 1) % SIZE /\ i # k1)
    BY ONLY <1>3, <1>8
  <1>14. (h - k - 1) % SIZE > 0 =>
            /\ k1 # h
            /\ (k1 - k - 1) % SIZE < (h - k - 1) % SIZE
            /\ (i - k1 - 1) % SIZE < (h - k1 - 1) % SIZE
                   <=> (i - k - 1) % SIZE < (h - k - 1) % SIZE /\ i # k1
    BY ONLY <1>12, <1>13
  <1> QED
    BY ONLY <1>9, <1>10, <1>11, <1>14, Zenon DEF h1, k1

LEMMA LiveSlots ==
    /\ \A s \in Live : s[1] \in Queues /\ s[2] \in Slots /\ s = <<s[1], s[2]>>
    /\ \A q \in Queues, i \in Slots :
          <<q, i>> \in Live <=> (i - tail[q] - 1) % SIZE < QueueSize(q)
  BY DEF Live

\* The slot to be filled next is not live.
LEMMA HeadNotLive ==
    ASSUME TypeOK, NEW q \in Queues
    PROVE  <<q, head[q]>> \notin Live
  <1>1. head[q] \in Slots /\ tail[q] \in Slots
    BY DEF TypeOK
  <1>2. (head[q] - tail[q] - 1) % SIZE \in Nat
    BY <1>1, RingSteps
  <1>3. ~((head[q] - tail[q] - 1) % SIZE < (head[q] - tail[q] - 1) % SIZE)
    BY <1>2
  <1> QED
    BY <1>1, <1>3, LiveSlots DEF QueueSize

LEMMA PublishLive ==
    ASSUME TypeOK, NEW q \in Queues, head[q] # tail[q],
           head' = [head EXCEPT ![q] = (@ + 1) % SIZE], tail' = tail
    PROVE  Live' = Live \cup {<<q, head[q]>>}
  <1>1. head[q] \in Slots /\ tail[q] \in Slots
    BY DEF TypeOK
  <1>2. /\ head'[q] = (head[q] + 1) % SIZE /\ tail'[q] = tail[q]
        /\ \A p \in Queues \ {q} : head'[p] = head[p] /\ tail'[p] = tail[p]
    BY DEF TypeOK
  <1>3. ASSUME NEW p \in Queues, NEW i \in Slots
        PROVE  <<p, i>> \in Live' <=> <<p, i>> \in Live \cup {<<q, head[q]>>}
    <2>1. <<p, i>> \in Live' <=> (i - tail'[p] - 1) % SIZE < (head'[p] - tail'[p] - 1) % SIZE
      BY DEF Live, QueueSize
    <2>2. <<p, i>> \in Live <=> (i - tail[p] - 1) % SIZE < (head[p] - tail[p] - 1) % SIZE
      BY DEF Live, QueueSize
    <2>3. CASE p # q
      BY <1>2, <2>1, <2>2, <2>3
    <2>4. CASE p = q
      <3>1. (i - tail[q] - 1) % SIZE < (((head[q] + 1) % SIZE) - tail[q] - 1) % SIZE
                <=> (i - tail[q] - 1) % SIZE < (head[q] - tail[q] - 1) % SIZE \/ i = head[q]
        BY <1>1, RingSteps
      <3> QED
        BY <1>2, <2>1, <2>2, <2>4, <3>1
    <2> QED
      BY <2>3, <2>4
  <1>4. Live' \subseteq Queues \X Slots /\ Live \cup {<<q, head[q]>>} \subseteq Queues \X Slots
    BY <1>1 DEF Live
  <1> QED
    BY <1>3, <1>4

LEMMA TakeLive ==
    ASSUME TypeOK, NEW q \in Queues, QueueSize(q) > 0,
           head' = head, tail' = [tail EXCEPT ![q] = (@ + 1) % SIZE]
    PROVE  /\ <<q, (tail[q] + 1) % SIZE>> \in Live
           /\ Live' = Live \ {<<q, (tail[q] + 1) % SIZE>>}
           /\ head'[q] # tail'[q]
  <1> DEFINE k == (tail[q] + 1) % SIZE
  <1>1. head[q] \in Slots /\ tail[q] \in Slots /\ k \in Slots
    BY SlotSteps DEF TypeOK
  <1>2. /\ tail'[q] = k /\ head'[q] = head[q]
        /\ \A p \in Queues \ {q} : head'[p] = head[p] /\ tail'[p] = tail[p]
    BY DEF TypeOK
  <1>3. (head[q] - tail[q] - 1) % SIZE > 0
    BY DEF QueueSize
  <1>4. /\ k # head[q] /\ (k - tail[q] - 1) % SIZE < (head[q] - tail[q] - 1) % SIZE
        /\ \A i \in Slots :
              (i - k - 1) % SIZE < (head[q] - k - 1) % SIZE
                  <=> (i - tail[q] - 1) % SIZE < (head[q] - tail[q] - 1) % SIZE /\ i # k
    <2>1. ASSUME NEW i \in Slots
          PROVE  /\ k # head[q] /\ (k - tail[q] - 1) % SIZE < (head[q] - tail[q] - 1) % SIZE
                 /\ (i - k - 1) % SIZE < (head[q] - k - 1) % SIZE
                        <=> (i - tail[q] - 1) % SIZE < (head[q] - tail[q] - 1) % SIZE /\ i # k
      <3>1. head[q] \in Slots /\ tail[q] \in Slots
        BY <1>1
      <3>2. /\ (tail[q] + 1) % SIZE # head[q]
            /\ (((tail[q] + 1) % SIZE) - tail[q] - 1) % SIZE < (head[q] - tail[q] - 1) % SIZE
        BY <1>3, <3>1, RingSteps
      <3>3. (i - ((tail[q] + 1) % SIZE) - 1) % SIZE < (head[q] - ((tail[q] + 1) % SIZE) - 1) % SIZE
                <=> (i - tail[q] - 1) % SIZE < (head[q] - tail[q] - 1) % SIZE /\ i # (tail[q] + 1) % SIZE
        BY <1>3, <3>1, RingSteps
      <3> QED
        BY <3>2, <3>3
    <2> HIDE DEF k
    <2> QED
      BY <1>1, <2>1
  <1> HIDE DEF k
  <1>5. ASSUME NEW p \in Queues, NEW i \in Slots
        PROVE  <<p, i>> \in Live' <=> <<p, i>> \in Live \ {<<q, k>>}
    <2>1. <<p, i>> \in Live' <=> (i - tail'[p] - 1) % SIZE < (head'[p] - tail'[p] - 1) % SIZE
      BY DEF Live, QueueSize
    <2>2. <<p, i>> \in Live <=> (i - tail[p] - 1) % SIZE < (head[p] - tail[p] - 1) % SIZE
      BY DEF Live, QueueSize
    <2>3. CASE p # q
      BY <1>2, <2>1, <2>2, <2>3
    <2>4. CASE p = q
      BY <1>2, <1>4, <2>1, <2>2, <2>4
    <2> QED
      BY <2>3, <2>4
  <1>6. Live' \subseteq Queues \X Slots /\ Live \subseteq Queues \X Slots
    BY DEF Live
  <1>7. Live' = Live \ {<<q, k>>}
    BY <1>5, <1>6
  <1>8. <<q, k>> \in Live
    BY <1>1, <1>4, LiveSlots DEF QueueSize
  <1> QED
    BY <1>2, <1>4, <1>7, <1>8 DEF k

-----------------------------------------------------------------------------
(* What a step leaves alone.                                               *)

\* Phases in which the innermost frame has nothing to do with a ring.
Quiet == {"body", "yield", "block", "ret", "lock"}

QuietTop(t) == stack[t] # << >> => stack[t][1].ph \in Quiet

\* The steps that touch no ring.
QuietStep(t) ==
    \/ CallInline(t) \/ Join(t) \/ JoinYield(t) \/ JoinDone(t)
    \/ ReturnInline(t) \/ ReturnPicked(t) \/ ReturnRoot(t) \/ WorkerYield(t)

LEMMA QuietSteps ==
    ASSUME TypeOK, StackOK, Taking, Stacks, NEW t \in Threads, QuietStep(t)
    PROVE  /\ StackOK' /\ Others(t) /\ QuietTop(t) /\ QuietTop(t)'
           /\ UNCHANGED <<queue_vars, pending>>
  <1> USE DEF Quiet, QuietTop
  <1>1. ASSUME NEW ph \in Quiet, Goes(t, ph) PROVE Others(t) /\ QuietTop(t)'
    BY <1>1 DEF Goes, Replaces
  <1>2. CASE CallInline(t)
    BY <1>2, CallInlineStack DEF CallInline, Pushes
  <1>3. CASE Join(t)
    <2>1. /\ StackOK' /\ stack[t][1].ph = "body"
          /\ Goes(t, IF guard[stack[t][1].id] # 0 THEN "yield" ELSE "ret")
      BY <1>3, JoinStack
    <2>2. Others(t) /\ QuietTop(t)'
      <3>1. CASE guard[stack[t][1].id] # 0
        BY <1>1, <2>1, <3>1
      <3>2. CASE guard[stack[t][1].id] = 0
        BY <1>1, <2>1, <3>2
      <3> QED
        BY <3>1, <3>2
    <2> QED
      BY <1>3, <2>1, <2>2 DEF Join
  <1>4. CASE JoinYield(t)
    <2>1. StackOK' /\ stack[t][1].ph = "yield"
      BY <1>4, JoinYieldStack
    <2>2. Others(t) /\ QuietTop(t)'
      BY <1>1, <1>4, JoinYieldStack DEF ReplacesAndPushes
    <2> QED
      BY <1>4, <2>1, <2>2 DEF JoinYield
  <1>5. CASE JoinDone(t)
    BY <1>1, <1>5, JoinDoneStack DEF JoinDone
  <1>6. CASE ReturnInline(t)
    <2>1. /\ StackOK' /\ stack[t] # << >> /\ stack[t][1].ph = "ret"
          /\ Len(stack[t]) > 1 /\ stack[t][2].ph = "body" /\ Pops(t)
      BY <1>6, ReturnInlineStack
    <2>2. stack'[t] # << >> => stack'[t][1] = stack[t][1 + 1]
      BY <2>1, Lengths DEF Pops
    <2> QED
      BY <1>6, <2>1, <2>2 DEF ReturnInline, Pops
  <1>7. CASE ReturnPicked(t)
    BY <1>7, ReturnPickedStack DEF ReturnPicked, PopsAndReplaces
  <1>8. CASE ReturnRoot(t)
    <2>1. StackOK' /\ stack[t][1].ph = "ret" /\ Len(stack[t]) = 1 /\ Pops(t)
      BY <1>8, ReturnRootStack
    <2>2. ~(Len(stack'[t]) > 0)
      BY <2>1, Lengths DEF Pops
    <2>3. stack'[t] = << >>
      BY <2>1, <2>2, Lengths
    <2> QED
      BY <1>8, <2>1, <2>3 DEF ReturnRoot, Pops
  <1>9. CASE WorkerYield(t)
    BY <1>9, WorkerYieldStack DEF WorkerYield, Pushes
  <1> QED
    BY <1>2, <1>3, <1>4, <1>5, <1>6, <1>7, <1>8, <1>9 DEF QuietStep

\* The steps that end one at a ring.
LEMMA PickCallQuiet ==
    ASSUME TypeOK, StackOK, Taking, NEW t \in Threads, PickCall(t)
    PROVE  StackOK' /\ Others(t) /\ QuietTop(t)' /\ stack[t] # << >> /\ stack[t][1].ph = "decr"
  BY PickCallStack DEF QuietTop, Quiet, ReplacesAndPushes

LEMMA PickNextQuiet ==
    ASSUME TypeOK, StackOK, Stacks, NEW t \in Threads, PickNext(t)
    PROVE  StackOK' /\ Others(t) /\ QuietTop(t)' /\ stack[t] # << >> /\ stack[t][1].ph = "test"
  <1>1. StackOK' /\ stack[t] # << >> /\ stack[t][1].ph = "test"
    BY PickNextStack
  <1>2. CASE Replaces(t, stack'[t][1]) /\ stack'[t][1].ph = "lock"
    BY <1>1, <1>2 DEF Replaces, QuietTop, Quiet
  <1>3. CASE Pops(t)
    <2>1. ~IsTask(stack[t][1])
      BY <1>1, PhaseKind DEF PickPhases
    <2>2. /\ stack'[t] # << >> => stack'[t][1] = stack[t][1 + 1]
          /\ stack'[t] # << >> => Len(stack[t]) > 1 /\ 1 \in 1 .. Len(stack[t]) - 1
      BY <1>1, <1>3, Lengths DEF Pops
    <2>3. stack'[t] # << >> => stack'[t][1].ph = "block"
      BY <2>1, <2>2 DEF Stacks, Shape
    <2> QED
      BY <1>1, <1>3, <2>3 DEF Pops, QuietTop, Quiet
  <1> QED
    BY <1>1, <1>2, <1>3, PickNextStack

LEMMA StackElsewhere ==
    ASSUME TypeOK, StackOK, Taking, Stacks, NEW t \in Threads, Step(t)
    PROVE  StackOK' /\ Others(t)
  <1>1. ASSUME QuietStep(t) PROVE StackOK' /\ Others(t)
    BY <1>1, QuietSteps
  <1>2. ASSUME CallEnqueue(t) \/ CallPublish(t) \/ CallIncr(t) PROVE StackOK' /\ Others(t)
    BY <1>2, CallEnqueueStack, CallPublishStack, CallIncrStack DEF Goes, Replaces
  <1>3. ASSUME PickLock(t) \/ PickTest(t) \/ PickTake(t) PROVE StackOK' /\ Others(t)
    BY <1>3, PickLockStack, PickTestStack, PickTakeStack DEF Goes, Replaces
  <1>4. ASSUME PickRead(t) PROVE StackOK' /\ Others(t)
    BY <1>4, PickReadStack DEF Replaces
  <1>5. ASSUME PickCall(t) \/ PickNext(t) PROVE StackOK' /\ Others(t)
    BY <1>5, PickCallQuiet, PickNextQuiet
  <1> QED
    BY <1>1, <1>2, <1>3, <1>4, <1>5 DEF Step, QuietStep

\* A task scheduled by one thread is not on the stack of another.
LEMMA ScheduleElsewhere ==
    ASSUME TypeOK, StackOK, Taking, Running, NEW t \in Threads, Step(t), NEW u \in Threads \ {t}
    PROVE  /\ exeqpri'[u] = exeqpri[u]
           /\ \A i \in 1 .. Len(stack[u]) :
                 IsTask(stack[u][i]) => issued'[stack[u][i].id] = issued[stack[u][i].id]
  <1>1. exeqpri'[u] = exeqpri[u]
    <2>1. CASE PickNext(t)
      <3> DEFINE e == stack[t][1].caller_pri
      <3>1. exeqpri' = [exeqpri EXCEPT ![t] = e] \/ exeqpri' = exeqpri
        BY <2>1, PickNextStack
      <3>2. exeqpri \in [Threads -> Pris]
        BY DEF TypeOK
      <3> HIDE DEF e
      <3> QED
        BY ONLY <3>1, <3>2, u \in Threads \ {t}
    <2>2. CASE CallInline(t) \/ ReturnInline(t) \/ PickCall(t)
      BY <2>2 DEF CallInline, ReturnInline, PickCall, TypeOK
    <2>3. CASE ~(PickNext(t) \/ CallInline(t) \/ ReturnInline(t) \/ PickCall(t))
      BY <2>3 DEF Step, CallEnqueue, CallPublish, CallIncr, Join, JoinYield, JoinDone,
           ReturnPicked, ReturnRoot, WorkerYield, PickLock, PickTest, PickRead, PickTake
    <2> QED
      BY <2>1, <2>2, <2>3
  <1>2. ASSUME issued' # issued
        PROVE  /\ issued' = [issued EXCEPT ![Top(t).id] = @ + 1]
               /\ stack[t] # << >> /\ stack[t][1].ph \in {"incr", "body"}
    <2>1. CallIncr(t) \/ CallInline(t)
      BY <1>2 DEF Step, CallEnqueue, CallPublish, Join, JoinYield, JoinDone,
         ReturnInline, ReturnPicked, ReturnRoot, WorkerYield, PickLock, PickTest, PickRead,
         PickTake, PickCall, PickNext
    <2> QED
      BY <2>1, FrameAt DEF CallIncr, CallInline, InPhase
  <1>3. ASSUME NEW i \in 1 .. Len(stack[u]), IsTask(stack[u][i])
        PROVE  issued'[stack[u][i].id] = issued[stack[u][i].id]
    <2>1. CASE issued' # issued
      <3>1. IsTask(stack[t][1]) /\ Top(t) = stack[t][1] /\ Len(stack[t]) \in Nat /\ Len(stack[t]) > 0
        BY <1>2, <2>1, FrameAt, PhaseKind DEF TaskPhases
      <3>2. Len(stack[u]) \in Nat
        BY DEF StackOK
      <3>3. IsFrame(t, 1) /\ IsFrame(u, i) /\ i \in Nat
        BY <1>3, <3>1, <3>2 DEF IsFrame
      <3>4. stack[t][1].id # stack[u][i].id
        BY <3>3 DEF Running
      <3>5. issued' = [issued EXCEPT ![stack[t][1].id] = @ + 1]
        BY <1>2, <2>1, <3>1
      <3> QED
        BY <3>4, <3>5 DEF TypeOK
    <2> QED
      BY <2>1
  <1> QED
    BY <1>1, <1>3

\* What another thread is about to schedule stays the same.
LEMMA NextElsewhere ==
    ASSUME TypeOK, StackOK, Taking, Running, Stacks, NEW t \in Threads, Step(t),
           NEW u \in Threads \ {t}, stack[u] # << >>, IsTask(stack[u][1])
    PROVE  /\ MoreToCall(u)' <=> MoreToCall(u)
           /\ NextTask(u)' = NextTask(u) /\ CallQueue(u)' = CallQueue(u)
           /\ issued'[stack[u][1].id] = issued[stack[u][1].id]
  <1>1. stack'[u] = stack[u] /\ exeqpri'[u] = exeqpri[u]
    BY StackElsewhere, ScheduleElsewhere DEF Others
  <1>2. 1 \in 1 .. Len(stack[u]) /\ Top(u) = stack[u][1]
    BY FrameAt
  <1>3. issued'[stack[u][1].id] = issued[stack[u][1].id]
    BY <1>2, ScheduleElsewhere
  <1>4. Top(u)' = Top(u)
    BY <1>1 DEF Top
  <1>5. NextTask(u)' = NextTask(u)
    BY <1>2, <1>3, <1>4 DEF NextTask
  <1>6. CallQueue(u)' = CallQueue(u)
    BY <1>1, <1>5 DEF CallQueue, CallPri
  <1> QED
    BY <1>2, <1>3, <1>4, <1>5, <1>6 DEF MoreToCall

-----------------------------------------------------------------------------
(* The locks of the rings.                                                 *)

LEMMA MutexFromOwn ==
    ASSUME StackOK', MutexHeld, NEW t \in Threads, Others(t),
           \A u \in Threads \ {t}, q \in Queues : pickup_mutex'[q] = u <=> pickup_mutex[q] = u,
           \A q \in Queues : pickup_mutex'[q] = t <=>
               /\ stack'[t] # << >> /\ stack'[t][1].ph \in Picking
               /\ <<stack'[t][1].ts, stack'[t][1].pri>> = q
    PROVE  MutexHeld'
  <1> SUFFICES ASSUME NEW u \in Threads, NEW q \in Queues
               PROVE  pickup_mutex'[q] = u <=>
                          (stack[u] # << >> /\ Top(u).ph \in Picking /\ Visited(u) = q)'
    BY DEF MutexHeld
  <1>1. CASE u # t
    <2>1. stack'[u] = stack[u]
      BY <1>1 DEF Others
    <2>2. pickup_mutex[q] = u <=> stack[u] # << >> /\ Top(u).ph \in Picking /\ Visited(u) = q
      BY DEF MutexHeld
    <2> QED
      BY <1>1, <2>1, <2>2 DEF Top, Visited
  <1>2. CASE u = t
    <2>1. stack'[t] # << >> => Top(t)' = stack'[t][1]
      BY DEF StackOK, Top
    <2> QED
      BY <1>2, <2>1 DEF Visited
  <1> QED
    BY <1>1, <1>2

LEMMA MutexOwn ==
    ASSUME StackOK, MutexHeld, NEW t \in Threads, NEW q \in Queues
    PROVE  pickup_mutex[q] = t <=>
               /\ stack[t] # << >> /\ stack[t][1].ph \in Picking
               /\ <<stack[t][1].ts, stack[t][1].pri>> = q
  <1>1. stack[t] # << >> => Top(t) = stack[t][1]
    BY FrameAt
  <1> QED
    BY <1>1 DEF MutexHeld, Visited

LEMMA MutexKept ==
    ASSUME TypeOK, StackOK, Taking, Stacks, MutexHeld, NEW t \in Threads, Step(t)
    PROVE  MutexHeld'
  <1> USE DEF Picking
  <1>0. StackOK' /\ Others(t)
    BY StackElsewhere
  <1>1. \A q \in Queues : pickup_mutex[q] = t <=>
               /\ stack[t] # << >> /\ stack[t][1].ph \in Picking
               /\ <<stack[t][1].ts, stack[t][1].pri>> = q
    BY MutexOwn
  <1>2. ASSUME pickup_mutex' = pickup_mutex, stack[t] # << >> => stack[t][1].ph \notin Picking,
               stack'[t] # << >> => stack'[t][1].ph \notin Picking
        PROVE  MutexHeld'
    BY <1>0, <1>1, <1>2, MutexFromOwn
  <1>3. CASE QuietStep(t)
    <2>1. QuietTop(t) /\ QuietTop(t)' /\ pickup_mutex' = pickup_mutex
      BY <1>3, QuietSteps DEF queue_vars
    <2> QED
      BY <1>2, <2>1 DEF QuietTop, Quiet
  <1>4. CASE CallEnqueue(t)
    BY <1>2, <1>4, CallEnqueueStack DEF CallEnqueue, Goes
  <1>5. CASE CallPublish(t)
    BY <1>2, <1>5, CallPublishStack DEF CallPublish, Goes
  <1>6. CASE CallIncr(t)
    BY <1>2, <1>6, CallIncrStack DEF CallIncr, queue_vars, Goes
  <1>7. ASSUME pickup_mutex' = pickup_mutex, stack[t] # << >>, stack[t][1].ph \in Picking,
               stack'[t] # << >>, stack'[t][1].ph \in Picking,
               stack'[t][1].ts = stack[t][1].ts, stack'[t][1].pri = stack[t][1].pri
        PROVE  MutexHeld'
    BY <1>0, <1>1, <1>7, MutexFromOwn
  <1>8. CASE PickTest(t)
    <2>1. stack[t][1].ph = "test" /\ Goes(t, "read") /\ pickup_mutex' = pickup_mutex
      BY <1>8, PickTestStack DEF PickTest, queue_vars
    <2> QED
      BY <1>7, <2>1, PhaseKind DEF Goes, Replaces, PickPhases
  <1>9. CASE PickTake(t)
    <2>1. stack[t][1].ph = "take" /\ Goes(t, "decr") /\ pickup_mutex' = pickup_mutex
      BY <1>9, PickTakeStack DEF PickTake
    <2> QED
      BY <1>7, <2>1, PhaseKind DEF Goes, Replaces, PickPhases
  <1>10. CASE PickRead(t)
    BY <1>7, <1>10, PickReadStack DEF PickRead, queue_vars, Replaces
  <1>11. CASE PickLock(t)
    <2> DEFINE p == Visited(t)
    <2>1. stack[t] # << >> /\ stack[t][1].ph = "lock" /\ Goes(t, "test")
      BY <1>11, PickLockStack DEF PickLock, InPhase
    <2>2. p \in Queues /\ p = <<stack[t][1].ts, stack[t][1].pri>>
      BY <2>1, VisitedQueue DEF PickPhases
    <2>3. pickup_mutex[p] = None /\ pickup_mutex' = [pickup_mutex EXCEPT ![p] = t]
      BY <1>11 DEF PickLock
    <2>4. /\ stack'[t] # << >> /\ stack'[t][1].ph = "test"
          /\ <<stack'[t][1].ts, stack'[t][1].pri>> = p
      BY <2>1, <2>2, PhaseKind DEF Goes, Replaces, PickPhases
    <2> HIDE DEF p
    <2>5. None \notin Threads /\ pickup_mutex \in [Queues -> Threads \cup {None}]
      BY SchedAssumption DEF TypeOK
    <2>6. \A u \in Threads \ {t}, q \in Queues : pickup_mutex'[q] = u <=> pickup_mutex[q] = u
      BY <2>2, <2>3, <2>5
    <2>7. \A q \in Queues : pickup_mutex'[q] = t <=> p = q
      BY <1>1, <2>1, <2>2, <2>3, <2>5
    <2> QED
      BY <1>0, <2>4, <2>6, <2>7, MutexFromOwn
  <1>12. ASSUME stack[t] # << >>, stack[t][1].ph \in Picking, QuietTop(t)',
                pickup_mutex' = [pickup_mutex EXCEPT ![Visited(t)] = None]
         PROVE  MutexHeld'
    <2> DEFINE p == Visited(t)
    <2>2. p \in Queues /\ p = <<stack[t][1].ts, stack[t][1].pri>>
      BY <1>12, VisitedQueue DEF PickPhases
    <2>3. pickup_mutex' = [pickup_mutex EXCEPT ![p] = None]
      BY <1>12
    <2> HIDE DEF p
    <2>4. pickup_mutex[p] = t /\ \A q \in Queues : pickup_mutex[q] = t => q = p
      BY <1>1, <1>12, <2>2
    <2>5. None \notin Threads /\ pickup_mutex \in [Queues -> Threads \cup {None}]
      BY SchedAssumption DEF TypeOK
    <2>6. \A u \in Threads \ {t}, q \in Queues : pickup_mutex'[q] = u <=> pickup_mutex[q] = u
      BY <2>2, <2>3, <2>4, <2>5
    <2>7. \A q \in Queues : pickup_mutex'[q] # t
      BY <2>2, <2>3, <2>4, <2>5
    <2>8. stack'[t] # << >> => stack'[t][1].ph \notin Picking
      BY <1>12 DEF QuietTop, Quiet
    <2> QED
      BY <1>0, <2>6, <2>7, <2>8, MutexFromOwn
  <1>13. CASE PickCall(t)
    BY <1>12, <1>13, PickCallQuiet DEF PickCall
  <1>14. CASE PickNext(t)
    BY <1>12, <1>14, PickNextQuiet DEF PickNext
  <1> QED
    BY <1>3, <1>4, <1>5, <1>6, <1>8, <1>9, <1>10, <1>11, <1>13, <1>14 DEF Step, QuietStep

-----------------------------------------------------------------------------
(* What those who take from a ring and its owner know of it.               *)

TakingBy(t) ==
    /\ InPhase(t, "read") \/ InPhase(t, "take") => QueueSize(Visited(t)) > 0
    /\ InPhase(t, "take") =>
          Top(t).id = call_arr[Visited(t)][(tail[Visited(t)] + 1) % SIZE]
    /\ InPhase(t, "decr") => Top(t).id \in Tasks \ {Root}

AddingBy(t) ==
    /\ InPhase(t, "publish") \/ InPhase(t, "incr") => MoreToCall(t)
    /\ InPhase(t, "publish") =>
          /\ head[CallQueue(t)] # tail[CallQueue(t)]
          /\ call_arr[CallQueue(t)][head[CallQueue(t)]] = NextTask(t)

Rings == MutexHeld /\ Taking /\ Adding /\ LiveOK

LEMMA SameTop ==
    ASSUME NEW u, stack'[u] = stack[u], NEW ph
    PROVE  /\ InPhase(u, ph)' <=> InPhase(u, ph)
           /\ Top(u)' = Top(u) /\ Visited(u)' = Visited(u)
  BY DEF InPhase, Top, Visited

LEMMA QuietBy ==
    ASSUME StackOK', NEW t \in Threads,
           stack'[t] # << >> => stack'[t][1].ph \in Quiet \cup {"test"}
    PROVE  TakingBy(t)' /\ AddingBy(t)'
  <1>1. stack'[t] # << >> => Top(t)' = stack'[t][1]
    BY DEF StackOK, Top
  <1>2. ~InPhase(t, "read")' /\ ~InPhase(t, "take")' /\ ~InPhase(t, "decr")'
        /\ ~InPhase(t, "publish")' /\ ~InPhase(t, "incr")'
    BY <1>1 DEF InPhase, Quiet
  <1> QED
    BY <1>2 DEF TakingBy, AddingBy

LEMMA SameRings ==
    ASSUME TypeOK, StackOK, Running, Stacks, Rings, NEW t \in Threads, Step(t),
           head' = head, tail' = tail, call_arr' = call_arr, TakingBy(t)', AddingBy(t)'
    PROVE  Taking' /\ Adding' /\ LiveOK'
  <1> USE DEF Rings
  <1>1. StackOK' /\ Others(t)
    BY StackElsewhere
  <1>2. ASSUME NEW u \in Threads \ {t} PROVE TakingBy(u)'
    <2>1. stack'[u] = stack[u]
      BY <1>1 DEF Others
    <2>2. TakingBy(u)
      BY DEF Taking, TakingBy
    <2> QED
      BY <2>1, <2>2, SameTop DEF TakingBy, QueueSize
  <1>3. ASSUME NEW u \in Threads \ {t} PROVE AddingBy(u)'
    <2>1. stack'[u] = stack[u]
      BY <1>1 DEF Others
    <2>2. AddingBy(u)
      BY DEF Adding, AddingBy
    <2>3. CASE InPhase(u, "publish") \/ InPhase(u, "incr")
      <3>1. stack[u] # << >> /\ IsTask(stack[u][1])
        BY <2>3, FrameAt, PhaseKind DEF InPhase, TaskPhases
      <3>2. /\ MoreToCall(u)' <=> MoreToCall(u)
            /\ NextTask(u)' = NextTask(u) /\ CallQueue(u)' = CallQueue(u)
        BY <3>1, NextElsewhere
      <3> QED
        BY <2>1, <2>2, <3>2, SameTop DEF AddingBy
    <2>4. CASE ~(InPhase(u, "publish") \/ InPhase(u, "incr"))
      BY <2>1, <2>4, SameTop DEF AddingBy
    <2> QED
      BY <2>3, <2>4
  <1>4. LiveOK'
    BY DEF LiveOK, Live, QueueSize
  <1>5. Taking'
    BY <1>2 DEF Taking, TakingBy
  <1>6. Adding'
    BY <1>3 DEF Adding, AddingBy
  <1> QED
    BY <1>4, <1>5, <1>6

LEMMA EnqueueRings ==
    ASSUME TypeOK, StackOK, Running, Stacks, Rings, NEW t \in Threads, CallEnqueue(t)
    PROVE  Taking' /\ Adding' /\ LiveOK'
  <1> USE DEF Rings
  <1> DEFINE q == CallQueue(t)
             x == NextTask(t)
  <1>0. Step(t)
    BY DEF Step
  <1>1. StackOK' /\ stack[t] # << >> /\ stack[t][1].ph = "body" /\ Goes(t, "publish") /\ Others(t)
    BY CallEnqueueStack DEF CallEnqueue, InPhase, Goes, Replaces
  <1>2. IsTask(stack[t][1]) /\ MoreToCall(t)
    BY <1>1, PhaseKind DEF TaskPhases, CallEnqueue
  <1>3. q \in Queues /\ q[1] = t /\ head[q] \in Slots /\ tail[q] \in Slots
    BY <1>1, <1>2, NextTaskOf DEF TypeOK, CallQueue
  <1>4. /\ head' = head /\ tail' = tail /\ head[q] # tail[q]
        /\ call_arr' = [call_arr EXCEPT ![q][head[q]] = x]
        /\ exeqpri' = exeqpri /\ issued' = issued
    BY DEF CallEnqueue
  <1>5. Top(t)' = stack'[t][1] /\ Top(t) = stack[t][1] /\ Top(t)'.id = Top(t).id /\ Top(t)'.ph = "publish"
    BY <1>1, FrameAt DEF Goes, StackOK, Top
  <1>6. CallQueue(t)' = q /\ NextTask(t)' = x /\ (MoreToCall(t)' <=> MoreToCall(t))
    BY <1>4, <1>5 DEF CallQueue, CallPri, NextTask, MoreToCall
  <1> HIDE DEF q, x
  <1>7. /\ call_arr'[q][head[q]] = x
        /\ \A p \in Queues, i \in Slots : <<p, i>> # <<q, head[q]>> => call_arr'[p][i] = call_arr[p][i]
    BY <1>3, <1>4 DEF TypeOK
  <1>8. ASSUME NEW u \in Threads PROVE TakingBy(u)'
    <2>1. CASE u = t
      BY <1>5, <2>1 DEF TakingBy, InPhase
    <2>2. CASE u # t
      <3>1. stack'[u] = stack[u]
        BY <1>1, <2>2 DEF Others
      <3>2. TakingBy(u)
        BY DEF Taking, TakingBy
      <3>3. ASSUME InPhase(u, "take")
            PROVE  LET p == Visited(u) IN
                   call_arr'[p][(tail[p] + 1) % SIZE] = call_arr[p][(tail[p] + 1) % SIZE]
        <4> DEFINE p == Visited(u)
        <4>1. p \in Queues /\ QueueSize(p) > 0
          BY <3>2, <3>3, VisitedQueue, FrameAt DEF InPhase, TakingBy, PickPhases
        <4>2. head[p] \in Slots /\ tail[p] \in Slots /\ (tail[p] + 1) % SIZE \in Slots
          BY <4>1, SlotSteps DEF TypeOK
        <4>3. (tail[p] + 1) % SIZE # head[p]
          BY <4>1, <4>2, RingSteps DEF QueueSize
        <4> HIDE DEF p
        <4>4. <<p, (tail[p] + 1) % SIZE>> # <<q, head[q]>>
          BY <4>3
        <4>5. call_arr'[p][(tail[p] + 1) % SIZE] = call_arr[p][(tail[p] + 1) % SIZE]
          BY <1>7, <4>1, <4>2, <4>4
        <4> QED
          BY <4>5 DEF p
      <3> QED
        BY <1>4, <3>1, <3>2, <3>3, SameTop DEF TakingBy, QueueSize
    <2> QED
      BY <2>1, <2>2
  <1>9. ASSUME NEW u \in Threads PROVE AddingBy(u)'
    <2>1. CASE u = t
      BY <1>2, <1>4, <1>6, <1>7, <2>1 DEF AddingBy
    <2>2. CASE u # t /\ (InPhase(u, "publish") \/ InPhase(u, "incr"))
      <3>1. stack'[u] = stack[u]
        BY <1>1, <2>2 DEF Others
      <3>2. AddingBy(u)
        BY DEF Adding, AddingBy
      <3>3. stack[u] # << >> /\ IsTask(stack[u][1])
        BY <2>2, FrameAt, PhaseKind DEF InPhase, TaskPhases
      <3>4. /\ MoreToCall(u)' <=> MoreToCall(u)
            /\ NextTask(u)' = NextTask(u) /\ CallQueue(u)' = CallQueue(u)
        BY <1>0, <2>2, <3>3, NextElsewhere
      <3>5. MoreToCall(u)
        BY <2>2, <3>2 DEF AddingBy
      <3>6. CallQueue(u) \in Queues /\ CallQueue(u) # q
        BY <1>3, <2>2, <3>3, <3>5, NextTaskOf DEF CallQueue
      <3>7. call_arr'[CallQueue(u)] = call_arr[CallQueue(u)]
        BY <1>4, <3>6 DEF TypeOK
      <3> QED
        BY <1>4, <3>1, <3>2, <3>4, <3>7, SameTop DEF AddingBy
    <2>3. CASE u # t /\ ~(InPhase(u, "publish") \/ InPhase(u, "incr"))
      <3>1. stack'[u] = stack[u]
        BY <1>1, <2>3 DEF Others
      <3> QED
        BY <2>3, <3>1, SameTop DEF AddingBy
    <2> QED
      BY <2>1, <2>2, <2>3
  <1>10. LiveOK'
    <2>1. Live' = Live
      BY <1>4 DEF Live, QueueSize
    <2>2. <<q, head[q]>> \notin Live
      BY <1>3, HeadNotLive
    <2>3. \A s \in Live : call_arr'[s[1]][s[2]] = call_arr[s[1]][s[2]]
      BY <1>7, <2>2, LiveSlots
    <2> QED
      BY <2>1, <2>3 DEF LiveOK
  <1> QED
    BY <1>8, <1>9, <1>10 DEF Taking, TakingBy, Adding, AddingBy

LEMMA PublishRings ==
    ASSUME TypeOK, StackOK, Running, Stacks, Rings, NEW t \in Threads, CallPublish(t)
    PROVE  /\ Taking' /\ Adding' /\ LiveOK'
           /\ MoreToCall(t) /\ CallQueue(t) \in Queues /\ NextTask(t) \in Tasks \ {Root}
           /\ Live' = Live \cup {<<CallQueue(t), head[CallQueue(t)]>>}
           /\ <<CallQueue(t), head[CallQueue(t)]>> \notin Live
           /\ call_arr[CallQueue(t)][head[CallQueue(t)]] = NextTask(t)
  <1> USE DEF Rings
  <1> DEFINE q == CallQueue(t)
             x == NextTask(t)
  <1>0. Step(t)
    BY DEF Step
  <1>1. StackOK' /\ stack[t] # << >> /\ stack[t][1].ph = "publish" /\ Goes(t, "incr") /\ Others(t)
    BY CallPublishStack DEF CallPublish, InPhase, Goes, Replaces
  <1>2. IsTask(stack[t][1]) /\ MoreToCall(t) /\ head[q] # tail[q] /\ call_arr[q][head[q]] = x
    <2>1. InPhase(t, "publish")
      BY DEF CallPublish
    <2> QED
      BY <1>1, <2>1, PhaseKind DEF TaskPhases, Adding
  <1>3. q \in Queues /\ q[1] = t /\ x \in Tasks \ {Root} /\ head[q] \in Slots /\ tail[q] \in Slots
    BY <1>1, <1>2, NextTaskOf DEF TypeOK, CallQueue
  <1>4. /\ head' = [head EXCEPT ![q] = (@ + 1) % SIZE] /\ tail' = tail
        /\ call_arr' = call_arr /\ exeqpri' = exeqpri /\ issued' = issued
    BY DEF CallPublish
  <1>5. Top(t)' = stack'[t][1] /\ Top(t) = stack[t][1] /\ Top(t)'.id = Top(t).id /\ Top(t)'.ph = "incr"
    BY <1>1, FrameAt DEF Goes, StackOK, Top
  <1>6. MoreToCall(t)' <=> MoreToCall(t)
    BY <1>4, <1>5 DEF MoreToCall
  <1> HIDE DEF q, x
  <1>7. head'[q] = (head[q] + 1) % SIZE /\ \A p \in Queues \ {q} : head'[p] = head[p]
    BY <1>3, <1>4 DEF TypeOK
  <1>8. ASSUME NEW u \in Threads PROVE TakingBy(u)'
    <2>1. CASE u = t
      BY <1>5, <2>1 DEF TakingBy, InPhase
    <2>2. CASE u # t
      <3>1. stack'[u] = stack[u]
        BY <1>1, <2>2 DEF Others
      <3>2. TakingBy(u)
        BY DEF Taking, TakingBy
      <3>3. ASSUME InPhase(u, "read") \/ InPhase(u, "take")
            PROVE  (head'[Visited(u)] - tail[Visited(u)] - 1) % SIZE > 0
        <4> DEFINE p == Visited(u)
        <4>1. p \in Queues /\ (head[p] - tail[p] - 1) % SIZE > 0
          BY <3>2, <3>3, VisitedQueue, FrameAt DEF InPhase, TakingBy, PickPhases, QueueSize
        <4> HIDE DEF p
        <4>2. CASE p # q
          BY <1>7, <4>1, <4>2 DEF p
        <4>3. CASE p = q
          <5>1. (((head[q] + 1) % SIZE) - tail[q] - 1) % SIZE > 0
            BY <1>2, <1>3, <4>1, <4>3, RingSteps DEF q
          <5> QED
            BY <1>7, <4>3, <5>1 DEF p
        <4> QED
          BY <4>2, <4>3
      <3> QED
        BY <1>4, <3>1, <3>2, <3>3, SameTop DEF TakingBy, QueueSize
    <2> QED
      BY <2>1, <2>2
  <1>9. ASSUME NEW u \in Threads PROVE AddingBy(u)'
    <2>1. CASE u = t
      BY <1>2, <1>5, <1>6, <2>1 DEF AddingBy, InPhase
    <2>2. CASE u # t /\ (InPhase(u, "publish") \/ InPhase(u, "incr"))
      <3>1. stack'[u] = stack[u]
        BY <1>1, <2>2 DEF Others
      <3>2. AddingBy(u)
        BY DEF Adding, AddingBy
      <3>3. stack[u] # << >> /\ IsTask(stack[u][1])
        BY <2>2, FrameAt, PhaseKind DEF InPhase, TaskPhases
      <3>4. /\ MoreToCall(u)' <=> MoreToCall(u)
            /\ NextTask(u)' = NextTask(u) /\ CallQueue(u)' = CallQueue(u)
        BY <1>0, <2>2, <3>3, NextElsewhere
      <3>5. MoreToCall(u)
        BY <2>2, <3>2 DEF AddingBy
      <3>6. CallQueue(u) \in Queues \ {q}
        BY <1>3, <2>2, <3>3, <3>5, NextTaskOf DEF CallQueue
      <3>7. head'[CallQueue(u)] = head[CallQueue(u)]
        BY <1>7, <3>6
      <3> QED
        BY <1>4, <3>1, <3>2, <3>4, <3>7, SameTop DEF AddingBy
    <2>3. CASE u # t /\ ~(InPhase(u, "publish") \/ InPhase(u, "incr"))
      <3>1. stack'[u] = stack[u]
        BY <1>1, <2>3 DEF Others
      <3> QED
        BY <2>3, <3>1, SameTop DEF AddingBy
    <2> QED
      BY <2>1, <2>2, <2>3
  <1>10. Live' = Live \cup {<<q, head[q]>>} /\ <<q, head[q]>> \notin Live
    BY <1>2, <1>3, <1>4, PublishLive, HeadNotLive DEF q
  <1>11. call_arr[q][head[q]] = x
    BY <1>2 DEF q, x
  <1>12. LiveOK'
    BY <1>3, <1>4, <1>10, <1>11 DEF LiveOK
  <1> QED
    BY <1>2, <1>3, <1>8, <1>9, <1>10, <1>11, <1>12
       DEF Taking, TakingBy, Adding, AddingBy, q, x

LEMMA TakeRings ==
    ASSUME TypeOK, StackOK, Running, Stacks, Rings, NEW t \in Threads, PickTake(t)
    PROVE  LET s == <<Visited(t), (tail[Visited(t)] + 1) % SIZE>> IN
           /\ Taking' /\ Adding' /\ LiveOK' /\ Visited(t) \in Queues
           /\ Live' = Live \ {s} /\ s \in Live
           /\ call_arr[s[1]][s[2]] = Top(t).id /\ Top(t).id \in Tasks \ {Root}
  <1> USE DEF Rings
  <1> DEFINE q == Visited(t)
             k == (tail[q] + 1) % SIZE
  <1>0. Step(t)
    BY DEF Step
  <1>1. StackOK' /\ stack[t] # << >> /\ stack[t][1].ph = "take" /\ Goes(t, "decr") /\ Others(t)
    BY PickTakeStack DEF PickTake, InPhase, Goes, Replaces
  <1>2. q \in Queues /\ QueueSize(q) > 0 /\ Top(t).id = call_arr[q][k]
    <2>1. InPhase(t, "take")
      BY DEF PickTake
    <2> QED
      BY <1>1, <2>1, VisitedQueue DEF PickPhases, Taking
  <1>3. tail[q] \in Slots /\ k \in Slots
    BY <1>2, SlotSteps DEF TypeOK
  <1>4. /\ tail' = [tail EXCEPT ![q] = (@ + 1) % SIZE] /\ head' = head
        /\ call_arr' = call_arr
    BY DEF PickTake
  <1>5. Top(t)' = stack'[t][1] /\ Top(t) = stack[t][1] /\ Top(t)'.id = Top(t).id /\ Top(t)'.ph = "decr"
    BY <1>1, FrameAt DEF Goes, StackOK, Top
  <1>6. <<q, k>> \in Live /\ Live' = Live \ {<<q, k>>} /\ head'[q] # tail'[q]
    BY <1>2, <1>4, TakeLive
  <1> HIDE DEF q, k
  <1>7. Top(t).id \in Tasks \ {Root}
    BY <1>2, <1>6 DEF LiveOK
  <1>8. \A p \in Queues \ {q} : tail'[p] = tail[p]
    BY <1>2, <1>4 DEF TypeOK
  <1>9. ASSUME NEW u \in Threads PROVE TakingBy(u)'
    <2>1. CASE u = t
      BY <1>5, <1>7, <2>1 DEF TakingBy, InPhase
    <2>2. CASE u # t
      <3>1. stack'[u] = stack[u]
        BY <1>1, <2>2 DEF Others
      <3>2. TakingBy(u)
        BY DEF Taking, TakingBy
      <3>3. ASSUME InPhase(u, "read") \/ InPhase(u, "take")
            PROVE  tail'[Visited(u)] = tail[Visited(u)]
        <4>1. Visited(u) \in Queues /\ stack[u] # << >> /\ Top(u).ph \in Picking
          BY <3>3, VisitedQueue, FrameAt DEF InPhase, PickPhases, Picking
        <4>2. pickup_mutex[Visited(u)] = u
          BY <4>1 DEF MutexHeld
        <4>3. pickup_mutex[q] = t
          BY <1>1, <1>2, <1>5 DEF MutexHeld, Picking, q
        <4> QED
          BY <1>8, <2>2, <4>1, <4>2, <4>3
      <3> QED
        BY <1>4, <3>1, <3>2, <3>3, SameTop DEF TakingBy, QueueSize
    <2> QED
      BY <2>1, <2>2
  <1>10. ASSUME NEW u \in Threads PROVE AddingBy(u)'
    <2>1. CASE u = t
      BY <1>5, <2>1 DEF AddingBy, InPhase
    <2>2. CASE u # t /\ (InPhase(u, "publish") \/ InPhase(u, "incr"))
      <3>1. stack'[u] = stack[u]
        BY <1>1, <2>2 DEF Others
      <3>2. AddingBy(u)
        BY DEF Adding, AddingBy
      <3>3. stack[u] # << >> /\ IsTask(stack[u][1])
        BY <2>2, FrameAt, PhaseKind DEF InPhase, TaskPhases
      <3>4. /\ MoreToCall(u)' <=> MoreToCall(u)
            /\ NextTask(u)' = NextTask(u) /\ CallQueue(u)' = CallQueue(u)
        BY <1>0, <2>2, <3>3, NextElsewhere
      <3>5. CallQueue(u) \in Queues
        BY <2>2, <3>2, <3>3, NextTaskOf DEF AddingBy
      <3>6. InPhase(u, "publish") => head'[CallQueue(u)] # tail'[CallQueue(u)]
        BY <1>4, <1>6, <1>8, <3>2, <3>5 DEF AddingBy
      <3> QED
        BY <1>4, <3>1, <3>2, <3>4, <3>6, SameTop DEF AddingBy
    <2>3. CASE u # t /\ ~(InPhase(u, "publish") \/ InPhase(u, "incr"))
      <3>1. stack'[u] = stack[u]
        BY <1>1, <2>3 DEF Others
      <3> QED
        BY <2>3, <3>1, SameTop DEF AddingBy
    <2> QED
      BY <2>1, <2>2, <2>3
  <1>11. LiveOK'
    BY <1>4, <1>6 DEF LiveOK
  <1> QED
    BY <1>2, <1>6, <1>7, <1>9, <1>10, <1>11 DEF Taking, TakingBy, Adding, AddingBy, q, k

LEMMA RingsKept ==
    ASSUME TypeOK, StackOK, Running, Stacks, Rings, NEW t \in Threads, Step(t)
    PROVE  Rings'
  <1>0. MutexHeld'
    BY MutexKept DEF Rings
  <1>1. StackOK' /\ Others(t) /\ Taking
    BY StackElsewhere DEF Rings
  <1>2. CASE CallEnqueue(t)
    BY <1>0, <1>2, EnqueueRings DEF Rings
  <1>3. CASE CallPublish(t)
    BY <1>0, <1>3, PublishRings DEF Rings
  <1>4. CASE PickTake(t)
    BY <1>0, <1>4, TakeRings DEF Rings
  <1>5. ASSUME head' = head, tail' = tail, call_arr' = call_arr, TakingBy(t)', AddingBy(t)'
        PROVE  Rings'
    BY <1>0, <1>5, SameRings DEF Rings
  <1>6. CASE QuietStep(t)
    <2>1. QuietTop(t)' /\ head' = head /\ tail' = tail /\ call_arr' = call_arr
      BY <1>1, <1>6, QuietSteps DEF queue_vars
    <2> QED
      BY <1>1, <1>5, <2>1, QuietBy DEF QuietTop
  <1>7. CASE CallIncr(t) \/ PickLock(t) \/ PickCall(t) \/ PickNext(t)
    <2>1. stack'[t] # << >> => stack'[t][1].ph \in Quiet \cup {"test"}
      BY <1>1, <1>7, CallIncrStack, PickLockStack, PickCallQuiet, PickNextQuiet
         DEF Goes, QuietTop, Quiet
    <2>2. head' = head /\ tail' = tail /\ call_arr' = call_arr
      BY <1>7 DEF CallIncr, PickLock, PickCall, PickNext, queue_vars
    <2> QED
      BY <1>1, <1>5, <2>1, <2>2, QuietBy
  <1>8. CASE PickTest(t)
    <2>1. /\ stack[t] # << >> /\ stack[t][1].ph = "test" /\ Goes(t, "read")
          /\ QueueSize(Visited(t)) > 0
          /\ head' = head /\ tail' = tail /\ call_arr' = call_arr
      BY <1>8, PickTestStack DEF PickTest, InPhase, queue_vars
    <2>2. Top(t)' = stack'[t][1] /\ Visited(t)' = Visited(t) /\ Top(t)'.ph = "read"
      BY <1>1, <2>1, PhaseKind, FrameAt DEF Goes, Replaces, PickPhases, Visited, StackOK, Top
    <2>3. TakingBy(t)' /\ AddingBy(t)'
      BY <2>1, <2>2 DEF TakingBy, AddingBy, InPhase, QueueSize
    <2> QED
      BY <1>5, <2>1, <2>3
  <1>9. CASE PickRead(t)
    <2>1. /\ stack[t] # << >> /\ stack[t][1].ph = "read"
          /\ head' = head /\ tail' = tail /\ call_arr' = call_arr /\ InPhase(t, "read")
      BY <1>9, PickReadStack DEF PickRead, InPhase, queue_vars
    <2>2. /\ Top(t)' = stack'[t][1] /\ Visited(t)' = Visited(t) /\ Top(t)'.ph = "take"
          /\ Top(t)'.id = call_arr[Visited(t)][(tail[Visited(t)] + 1) % SIZE]
      BY <1>1, <1>9, <2>1, PickReadStack, FrameAt DEF Replaces, Visited, StackOK, Top
    <2>3. QueueSize(Visited(t)) > 0
      BY <1>1, <2>1 DEF Taking
    <2>4. TakingBy(t)' /\ AddingBy(t)'
      BY <2>1, <2>2, <2>3 DEF TakingBy, AddingBy, InPhase, QueueSize
    <2> QED
      BY <1>5, <2>1, <2>4
  <1> QED
    BY <1>2, <1>3, <1>4, <1>6, <1>7, <1>8, <1>9 DEF Step, QuietStep

-----------------------------------------------------------------------------
(* Which step takes a thread from one phase to another.                    *)

LEMMA FromPhases ==
    ASSUME NEW t \in Threads, Step(t)
    PROVE  /\ InPhase(t, "publish") <=> CallPublish(t)
           /\ InPhase(t, "incr") <=> CallIncr(t)
           /\ InPhase(t, "decr") <=> PickCall(t)
  <1>1. CASE CallEnqueue(t) \/ CallPublish(t) \/ CallIncr(t) \/ CallInline(t) \/ Join(t)
             \/ JoinYield(t) \/ JoinDone(t) \/ ReturnInline(t) \/ ReturnPicked(t) \/ ReturnRoot(t)
    BY <1>1 DEF CallEnqueue, CallPublish, CallIncr, CallInline, Join, JoinYield, JoinDone,
       ReturnInline, ReturnPicked, ReturnRoot, PickCall, InPhase
  <1>2. CASE WorkerYield(t) \/ PickLock(t) \/ PickTest(t) \/ PickRead(t) \/ PickTake(t)
             \/ PickCall(t) \/ PickNext(t)
    BY <1>2 DEF WorkerYield, PickLock, PickTest, PickRead, PickTake, PickNext,
       CallPublish, CallIncr, PickCall, InPhase
  <1> QED
    BY <1>1, <1>2 DEF Step

LEMMA NextPhase ==
    ASSUME StackOK', NEW t \in Threads, stack'[t] # << >>, NEW ph
    PROVE  InPhase(t, ph)' <=> stack'[t][1].ph = ph
  BY DEF StackOK, InPhase, Top

LEMMA ToPhases ==
    ASSUME TypeOK, StackOK, Taking, Stacks, NEW t \in Threads, Step(t)
    PROVE  /\ InPhase(t, "publish")' => CallEnqueue(t)
           /\ InPhase(t, "incr")' => CallPublish(t)
           /\ InPhase(t, "decr")' => PickTake(t)
           /\ CallEnqueue(t) => InPhase(t, "publish")'
           /\ CallPublish(t) => InPhase(t, "incr")'
           /\ PickTake(t) => InPhase(t, "decr")'
  <1>1. StackOK'
    BY StackElsewhere
  <1>2. ASSUME QuietTop(t)'
        PROVE  ~InPhase(t, "publish")' /\ ~InPhase(t, "incr")' /\ ~InPhase(t, "decr")'
    <2>1. CASE stack'[t] # << >>
      BY <1>1, <1>2, <2>1, NextPhase DEF QuietTop, Quiet
    <2>2. CASE stack'[t] = << >>
      BY <2>2 DEF InPhase
    <2> QED
      BY <2>1, <2>2
  <1>3. ASSUME NEW ph, stack'[t] # << >>, stack'[t][1].ph = ph
        PROVE  /\ InPhase(t, "publish")' <=> ph = "publish"
               /\ InPhase(t, "incr")' <=> ph = "incr"
               /\ InPhase(t, "decr")' <=> ph = "decr"
    BY <1>1, <1>3, NextPhase
  <1>4. ASSUME NEW ph, Goes(t, ph) PROVE stack'[t] # << >> /\ stack'[t][1].ph = ph
    BY <1>4 DEF Goes, Replaces
  <1>5. ASSUME CallPublish(t)
        PROVE InPhase(t, "incr")' /\ ~InPhase(t, "publish")' /\ ~InPhase(t, "decr")'
    <2>1. stack'[t] # << >> /\ stack'[t][1].ph = "incr"
      BY <1>4, <1>5, CallPublishStack
    <2> QED
      BY <1>3, <2>1
  <1>6. ASSUME CallEnqueue(t)
        PROVE InPhase(t, "publish")' /\ ~InPhase(t, "incr")' /\ ~InPhase(t, "decr")'
    <2>1. stack'[t] # << >> /\ stack'[t][1].ph = "publish"
      BY <1>4, <1>6, CallEnqueueStack
    <2> QED
      BY <1>3, <2>1
  <1>7. ASSUME PickTake(t)
        PROVE InPhase(t, "decr")' /\ ~InPhase(t, "incr")' /\ ~InPhase(t, "publish")'
    <2>1. stack'[t] # << >> /\ stack'[t][1].ph = "decr"
      BY <1>4, <1>7, PickTakeStack
    <2> QED
      BY <1>3, <2>1
  <1>8. ASSUME QuietStep(t) \/ PickCall(t) \/ PickNext(t)
        PROVE ~InPhase(t, "publish")' /\ ~InPhase(t, "incr")' /\ ~InPhase(t, "decr")'
    BY <1>2, <1>8, QuietSteps, PickCallQuiet, PickNextQuiet
  <1>9. ASSUME NEW ph \in {"body", "test", "read", "take"}, stack'[t] # << >>, stack'[t][1].ph = ph
        PROVE ~InPhase(t, "publish")' /\ ~InPhase(t, "incr")' /\ ~InPhase(t, "decr")'
    BY <1>3, <1>9
  <1>10. CASE CallIncr(t)
    <2>1. stack'[t] # << >> /\ stack'[t][1].ph = "body"
      BY <1>4, <1>10, CallIncrStack
    <2> QED
      BY <1>5, <1>6, <1>7, <1>9, <2>1
  <1>11. CASE PickLock(t)
    <2>1. stack'[t] # << >> /\ stack'[t][1].ph = "test"
      BY <1>4, <1>11, PickLockStack
    <2> QED
      BY <1>5, <1>6, <1>7, <1>9, <2>1
  <1>12. CASE PickTest(t)
    <2>1. stack'[t] # << >> /\ stack'[t][1].ph = "read"
      BY <1>4, <1>12, PickTestStack
    <2> QED
      BY <1>5, <1>6, <1>7, <1>9, <2>1
  <1>13. CASE PickRead(t)
    <2>1. stack'[t] # << >> /\ stack'[t][1].ph = "take"
      BY <1>13, PickReadStack DEF Replaces
    <2> QED
      BY <1>5, <1>6, <1>7, <1>9, <2>1
  <1> QED
    BY <1>5, <1>6, <1>7, <1>8, <1>10, <1>11, <1>12, <1>13 DEF Step, QuietStep

\* The threads in a phase before and after a step of t.
LEMMA InTopKept ==
    ASSUME NEW t \in Threads, Others(t), NEW ph
    PROVE  /\ \A u \in Threads \ {t} : (u \in InTop(ph)' <=> u \in InTop(ph)) /\ Top(u)' = Top(u)
           /\ t \in InTop(ph) <=> InPhase(t, ph)
           /\ t \in InTop(ph)' <=> InPhase(t, ph)'
           /\ InTop(ph)' = IF InPhase(t, ph)' THEN InTop(ph) \cup {t} ELSE InTop(ph) \ {t}
  <1>1. ASSUME NEW u \in Threads \ {t}
        PROVE  (u \in InTop(ph)' <=> u \in InTop(ph)) /\ Top(u)' = Top(u)
    <2>1. stack'[u] = stack[u]
      BY DEF Others
    <2> QED
      BY <2>1, SameTop DEF InTop
  <1>2. t \in InTop(ph) <=> InPhase(t, ph)
    BY DEF InTop
  <1>3. t \in InTop(ph)' <=> InPhase(t, ph)'
    BY DEF InTop
  <1>4. InTop(ph) \subseteq Threads /\ InTop(ph)' \subseteq Threads
    BY DEF InTop
  <1> QED
    BY <1>1, <1>2, <1>3, <1>4

-----------------------------------------------------------------------------
(* The tasks which are running.                                            *)

\* The same task has frames a and b, before and after the step.
SameFrame(t, a, b) == IsFrame(t, b)' /\ IsFrame(t, a) /\ stack'[t][b].id = stack[t][a].id

\* No task is started or returns, and frames are found d places deeper before.
FramesMove(t, d) ==
    /\ \A b \in Nat : IsFrame(t, b)' => b + d \in Nat /\ SameFrame(t, b + d, b)
    /\ \A a \in Nat : IsFrame(t, a) => a - d \in Nat /\ SameFrame(t, a, a - d)

FrameAdded(t, x) ==
    /\ IsFrame(t, 1)' /\ stack'[t][1].id = x
    /\ \A b \in Nat : IsFrame(t, b)' /\ b # 1 => b - 1 \in Nat /\ SameFrame(t, b - 1, b)
    /\ \A a \in Nat : IsFrame(t, a) => SameFrame(t, a, a + 1)

FrameGone(t, x) ==
    /\ IsFrame(t, 1) /\ stack[t][1].id = x
    /\ \A b \in Nat : IsFrame(t, b)' => SameFrame(t, b + 1, b)
    /\ \A a \in Nat : IsFrame(t, a) /\ a # 1 => a - 1 \in Nat /\ SameFrame(t, a, a - 1)

LEMMA ReplaceFrames ==
    ASSUME StackOK, StackOK', NEW t \in Threads, NEW g, Replaces(t, g), GoesOn(stack[t][1], g)
    PROVE  FramesMove(t, 0)
  <1>1. ASSUME NEW b \in Nat
        PROVE  /\ IsFrame(t, b)' <=> IsFrame(t, b)
               /\ IsFrame(t, b) => stack'[t][b].id = stack[t][b].id
    <2>1. CASE b = 1
      BY <2>1 DEF Replaces, GoesOn, IsFrame
    <2>2. CASE b # 1
      <3>1. b \in 1 .. Len(stack[t]) <=> b \in 2 .. Len(stack[t])
        BY <2>2
      <3> QED
        BY <3>1 DEF Replaces, IsFrame
    <2> QED
      BY <2>1, <2>2
  <1>2. \A b \in Nat : b + 0 = b /\ b - 0 = b
    OBVIOUS
  <1> QED
    BY <1>1, <1>2 DEF FramesMove, SameFrame

LEMMA PushFrames ==
    ASSUME StackOK, StackOK', NEW t \in Threads, NEW g, Pushes(t, g)
    PROVE  /\ ~IsTask(g) => FramesMove(t, -1)
           /\ IsTask(g) => FrameAdded(t, g.id)
  <1>0. Len(stack[t]) \in Nat /\ Len(stack'[t]) = Len(stack[t]) + 1 /\ stack'[t][1] = g
    BY Lengths DEF Pushes
  <1>1. ASSUME NEW a \in Nat, IsFrame(t, a) PROVE SameFrame(t, a, a + 1)
    <2>1. a \in 1 .. Len(stack[t]) /\ a + 1 \in 1 .. Len(stack'[t])
      BY <1>0, <1>1 DEF IsFrame
    <2>2. stack'[t][a + 1] = stack[t][a]
      BY <2>1 DEF Pushes
    <2> QED
      BY <1>1, <2>1, <2>2 DEF SameFrame, IsFrame
  <1>2. ASSUME NEW b \in Nat, IsFrame(t, b)', b # 1 PROVE b - 1 \in Nat /\ SameFrame(t, b - 1, b)
    <2>1. b - 1 \in 1 .. Len(stack[t]) /\ b \in 1 .. Len(stack'[t]) /\ b - 1 \in Nat /\ (b - 1) + 1 = b
      BY <1>0, <1>2 DEF IsFrame
    <2>2. stack'[t][(b - 1) + 1] = stack[t][b - 1]
      BY <2>1 DEF Pushes
    <2> QED
      BY <1>2, <2>1, <2>2 DEF SameFrame, IsFrame
  <1>3. IsFrame(t, 1)' <=> IsTask(g)
    BY <1>0 DEF IsFrame
  <1>4. \A a \in Nat : a - (-1) = a + 1 /\ a + 1 \in Nat /\ a + (-1) = a - 1
    OBVIOUS
  <1>5. ~IsTask(g) => FramesMove(t, -1)
    BY <1>1, <1>2, <1>3, <1>4 DEF FramesMove
  <1>6. IsTask(g) => FrameAdded(t, g.id)
    BY <1>0, <1>1, <1>2, <1>3 DEF FrameAdded
  <1> QED
    BY <1>5, <1>6

LEMMA ReplacePushFrames ==
    ASSUME StackOK, StackOK', NEW t \in Threads, NEW f, NEW g,
           ReplacesAndPushes(t, f, g), GoesOn(stack[t][1], f)
    PROVE  /\ ~IsTask(g) => FramesMove(t, -1)
           /\ IsTask(g) => FrameAdded(t, g.id)
  <1>0. /\ Len(stack[t]) \in Nat /\ Len(stack[t]) > 0 /\ Len(stack'[t]) = Len(stack[t]) + 1
        /\ stack'[t][1] = g /\ stack'[t][2] = f
    BY Lengths DEF ReplacesAndPushes
  <1>a. ASSUME NEW a \in 1 .. Len(stack[t]) PROVE GoesOn(stack[t][a], stack'[t][a + 1])
    <2>1. CASE a = 1
      BY <1>0, <2>1
    <2>2. CASE a # 1
      <3>1. a \in 2 .. Len(stack[t])
        BY <2>2
      <3> QED
        BY <3>1 DEF ReplacesAndPushes, GoesOn
    <2> QED
      BY <2>1, <2>2
  <1>1. ASSUME NEW a \in Nat, IsFrame(t, a) PROVE SameFrame(t, a, a + 1)
    <2>1. a \in 1 .. Len(stack[t]) /\ a + 1 \in 1 .. Len(stack'[t])
      BY <1>0, <1>1 DEF IsFrame
    <2>2. GoesOn(stack[t][a], stack'[t][a + 1])
      BY <1>a, <2>1
    <2> QED
      BY <1>1, <2>1, <2>2 DEF SameFrame, IsFrame, GoesOn
  <1>2. ASSUME NEW b \in Nat, IsFrame(t, b)', b # 1 PROVE b - 1 \in Nat /\ SameFrame(t, b - 1, b)
    <2>1. b - 1 \in 1 .. Len(stack[t]) /\ b \in 1 .. Len(stack'[t]) /\ b - 1 \in Nat /\ (b - 1) + 1 = b
      BY <1>0, <1>2 DEF IsFrame
    <2>2. GoesOn(stack[t][b - 1], stack'[t][(b - 1) + 1])
      BY <1>a, <2>1
    <2> QED
      BY <1>2, <2>1, <2>2 DEF SameFrame, IsFrame, GoesOn
  <1>3. IsFrame(t, 1)' <=> IsTask(g)
    BY <1>0 DEF IsFrame
  <1>4. \A a \in Nat : a - (-1) = a + 1 /\ a + 1 \in Nat /\ a + (-1) = a - 1
    OBVIOUS
  <1>5. ~IsTask(g) => FramesMove(t, -1)
    BY <1>1, <1>2, <1>3, <1>4 DEF FramesMove
  <1>6. IsTask(g) => FrameAdded(t, g.id)
    BY <1>0, <1>1, <1>2, <1>3 DEF FrameAdded
  <1> QED
    BY <1>5, <1>6

LEMMA PopFrames ==
    ASSUME StackOK, StackOK', NEW t \in Threads, Pops(t)
    PROVE  /\ ~IsTask(stack[t][1]) => FramesMove(t, 1)
           /\ IsTask(stack[t][1]) => FrameGone(t, stack[t][1].id)
  <1>0. Len(stack[t]) \in Nat /\ Len(stack[t]) > 0 /\ Len(stack'[t]) = Len(stack[t]) - 1
    BY Lengths DEF Pops
  <1>1. ASSUME NEW b \in Nat, IsFrame(t, b)' PROVE SameFrame(t, b + 1, b)
    <2>1. b + 1 \in 1 .. Len(stack[t]) /\ b \in 1 .. Len(stack'[t])
      BY <1>0, <1>1 DEF IsFrame
    <2>2. stack'[t][b] = stack[t][b + 1]
      BY <2>1 DEF Pops
    <2> QED
      BY <1>1, <2>1, <2>2 DEF SameFrame, IsFrame
  <1>2. ASSUME NEW a \in Nat, IsFrame(t, a), a # 1 PROVE a - 1 \in Nat /\ SameFrame(t, a, a - 1)
    <2>1. a \in 1 .. Len(stack[t]) /\ a - 1 \in 1 .. Len(stack'[t]) /\ a - 1 \in Nat /\ (a - 1) + 1 = a
      BY <1>0, <1>2 DEF IsFrame
    <2>2. stack'[t][a - 1] = stack[t][(a - 1) + 1]
      BY <2>1 DEF Pops
    <2> QED
      BY <1>2, <2>1, <2>2 DEF SameFrame, IsFrame
  <1>3. IsFrame(t, 1) <=> IsTask(stack[t][1])
    BY <1>0 DEF IsFrame
  <1>4. \A b \in Nat : b + 1 \in Nat
    OBVIOUS
  <1>5. ~IsTask(stack[t][1]) => FramesMove(t, 1)
    BY <1>1, <1>2, <1>3, <1>4 DEF FramesMove
  <1>6. IsTask(stack[t][1]) => FrameGone(t, stack[t][1].id)
    BY <1>1, <1>2, <1>3 DEF FrameGone
  <1> QED
    BY <1>5, <1>6

LEMMA PopReplaceFrames ==
    ASSUME StackOK, StackOK', NEW t \in Threads, NEW g,
           PopsAndReplaces(t, g), GoesOn(stack[t][2], g), IsTask(stack[t][1])
    PROVE  FrameGone(t, stack[t][1].id)
  <1>0. /\ Len(stack[t]) \in Nat /\ Len(stack[t]) > 1 /\ Len(stack'[t]) = Len(stack[t]) - 1
        /\ stack'[t][1] = g
    BY Lengths DEF PopsAndReplaces
  <1>a. ASSUME NEW b \in 1 .. Len(stack'[t]) PROVE GoesOn(stack[t][b + 1], stack'[t][b])
    <2>1. CASE b = 1
      BY <1>0, <2>1
    <2>2. CASE b # 1
      <3>1. b \in 2 .. Len(stack'[t])
        BY <2>2
      <3> QED
        BY <3>1 DEF PopsAndReplaces, GoesOn
    <2> QED
      BY <2>1, <2>2
  <1>1. ASSUME NEW b \in Nat, IsFrame(t, b)' PROVE SameFrame(t, b + 1, b)
    <2>1. b + 1 \in 1 .. Len(stack[t]) /\ b \in 1 .. Len(stack'[t])
      BY <1>0, <1>1 DEF IsFrame
    <2>2. GoesOn(stack[t][b + 1], stack'[t][b])
      BY <1>a, <2>1
    <2> QED
      BY <1>1, <2>1, <2>2 DEF SameFrame, IsFrame, GoesOn
  <1>2. ASSUME NEW a \in Nat, IsFrame(t, a), a # 1 PROVE a - 1 \in Nat /\ SameFrame(t, a, a - 1)
    <2>1. a \in 1 .. Len(stack[t]) /\ a - 1 \in 1 .. Len(stack'[t]) /\ a - 1 \in Nat /\ (a - 1) + 1 = a
      BY <1>0, <1>2 DEF IsFrame
    <2>2. GoesOn(stack[t][(a - 1) + 1], stack'[t][a - 1])
      BY <1>a, <2>1
    <2> QED
      BY <1>2, <2>1, <2>2 DEF SameFrame, IsFrame, GoesOn
  <1>3. IsFrame(t, 1)
    BY <1>0 DEF IsFrame
  <1> QED
    BY <1>1, <1>2, <1>3 DEF FrameGone

LEMMA FramesElsewhere ==
    ASSUME NEW t \in Threads, Others(t), NEW u \in Threads \ {t}, NEW i \in Nat
    PROVE  /\ IsFrame(u, i)' <=> IsFrame(u, i)
           /\ stack'[u][i] = stack[u][i]
  BY DEF Others, IsFrame

-----------------------------------------------------------------------------

LEMMA RunningMoves ==
    ASSUME StackOK, StackOK', Running, NEW t \in Threads, Others(t),
           NEW d \in {-1, 0, 1}, FramesMove(t, d), UNCHANGED <<runs, finished>>
    PROVE  Running'
  <1> DEFINE Old(u, b) == IF u = t THEN b + d ELSE b
             New(u, a) == IF u = t THEN a - d ELSE a
  <1>1. ASSUME NEW u \in Threads, NEW b \in Nat, IsFrame(u, b)'
        PROVE  Old(u, b) \in Nat /\ IsFrame(u, Old(u, b)) /\ stack'[u][b].id = stack[u][Old(u, b)].id
    <2>1. CASE u = t
      BY <1>1, <2>1 DEF FramesMove, SameFrame
    <2>2. CASE u # t
      BY <1>1, <2>2, FramesElsewhere
    <2> QED
      BY <2>1, <2>2
  <1>2. ASSUME NEW u \in Threads, NEW a \in Nat, IsFrame(u, a)
        PROVE  New(u, a) \in Nat /\ IsFrame(u, New(u, a))' /\ stack'[u][New(u, a)].id = stack[u][a].id
    <2>1. CASE u = t
      BY <1>2, <2>1 DEF FramesMove, SameFrame
    <2>2. CASE u # t
      BY <1>2, <2>2, FramesElsewhere
    <2> QED
      BY <2>1, <2>2
  <1>3. ASSUME NEW u \in Threads, NEW v \in Threads, NEW a \in Nat, NEW b \in Nat, u = v,
               Old(u, a) = Old(v, b)
        PROVE  a = b
    BY <1>3
  <1> HIDE DEF Old, New
  <1>4. ASSUME NEW u \in Threads, NEW v \in Threads, NEW a \in Nat, NEW b \in Nat,
               IsFrame(u, a)', IsFrame(v, b)', stack'[u][a].id = stack'[v][b].id
        PROVE  u = v /\ a = b
    <2>1. u = v /\ Old(u, a) = Old(v, b)
      BY <1>1, <1>4 DEF Running
    <2> QED
      BY <1>3, <2>1
  <1>5. ASSUME NEW u \in Threads, NEW b \in Nat, IsFrame(u, b)'
        PROVE  runs'[stack'[u][b].id] # 0 /\ stack'[u][b].id \notin finished'
    BY <1>1, <1>5 DEF Running
  <1>6. ASSUME NEW x \in Tasks, runs'[x] # 0, x \notin finished'
        PROVE  \E u \in Threads : \E i \in Nat : IsFrame(u, i)' /\ stack'[u][i].id = x
    <2>1. PICK u \in Threads : \E i \in Nat : IsFrame(u, i) /\ stack[u][i].id = x
      BY <1>6 DEF Running
    <2>2. PICK i \in Nat : IsFrame(u, i) /\ stack[u][i].id = x
      BY <2>1
    <2>3. New(u, i) \in Nat /\ IsFrame(u, New(u, i))' /\ stack'[u][New(u, i)].id = x
      BY <1>2, <2>2
    <2> QED
      BY <2>3
  <1>7. (\A x \in finished' : runs'[x] # 0) /\ runs'[Root] # 0
    BY DEF Running
  <1> QED
    BY <1>4, <1>5, <1>6, <1>7 DEF Running

LEMMA RunningAdds ==
    ASSUME TypeOK, StackOK, StackOK', Running, NEW t \in Threads, Others(t),
           NEW x \in Tasks, FrameAdded(t, x), runs[x] = 0,
           runs' = [runs EXCEPT ![x] = @ + 1], finished' = finished
    PROVE  Running'
  <1> DEFINE Old(u, b) == IF u = t THEN b - 1 ELSE b
             New(u, a) == IF u = t THEN a + 1 ELSE a
  <1>1. ASSUME NEW u \in Threads, NEW b \in Nat, IsFrame(u, b)', u # t \/ b # 1
        PROVE  Old(u, b) \in Nat /\ IsFrame(u, Old(u, b)) /\ stack'[u][b].id = stack[u][Old(u, b)].id
    <2>1. CASE u = t
      BY <1>1, <2>1 DEF FrameAdded, SameFrame
    <2>2. CASE u # t
      BY <1>1, <2>2, FramesElsewhere
    <2> QED
      BY <2>1, <2>2
  <1>2. ASSUME NEW u \in Threads, NEW a \in Nat, IsFrame(u, a)
        PROVE  New(u, a) \in Nat /\ IsFrame(u, New(u, a))' /\ stack'[u][New(u, a)].id = stack[u][a].id
    <2>1. CASE u = t
      BY <1>2, <2>1 DEF FrameAdded, SameFrame
    <2>2. CASE u # t
      BY <1>2, <2>2, FramesElsewhere
    <2> QED
      BY <2>1, <2>2
  <1>3. ASSUME NEW u \in Threads, NEW v \in Threads, NEW a \in Nat, NEW b \in Nat, u = v,
               Old(u, a) = Old(v, b)
        PROVE  a = b
    BY <1>3
  <1> HIDE DEF Old, New
  <1>4. runs'[x] # 0 /\ (\A y \in Tasks : y # x => runs'[y] = runs[y]) /\ x \notin finished
    BY DEF TypeOK, Running
  <1>5. ASSUME NEW u \in Threads, NEW b \in Nat, IsFrame(u, b)', u # t \/ b # 1
        PROVE  stack'[u][b].id # x /\ runs[stack'[u][b].id] # 0 /\ stack'[u][b].id \notin finished
    BY <1>1, <1>5 DEF Running
  <1>6. IsFrame(t, 1)' /\ stack'[t][1].id = x
    BY DEF FrameAdded
  <1>7. ASSUME NEW u \in Threads, NEW v \in Threads, NEW a \in Nat, NEW b \in Nat,
               IsFrame(u, a)', IsFrame(v, b)', stack'[u][a].id = stack'[v][b].id
        PROVE  u = v /\ a = b
    <2>1. CASE (u # t \/ a # 1) /\ (v # t \/ b # 1)
      <3>1. u = v /\ Old(u, a) = Old(v, b)
        BY <1>1, <1>7, <2>1 DEF Running
      <3> QED
        BY <1>3, <3>1
    <2>2. CASE (u = t /\ a = 1) \/ (v = t /\ b = 1)
      BY <1>5, <1>6, <1>7, <2>2
    <2> QED
      BY <2>1, <2>2
  <1>8. ASSUME NEW u \in Threads, NEW b \in Nat, IsFrame(u, b)'
        PROVE  runs'[stack'[u][b].id] # 0 /\ stack'[u][b].id \notin finished'
    <2>1. CASE u = t /\ b = 1
      BY <1>4, <1>6, <2>1
    <2>2. CASE u # t \/ b # 1
      <3>1. stack'[u][b] \in Frames /\ IsTask(stack'[u][b])
        BY <1>8 DEF IsFrame, IsTask, StackOK
      <3>2. stack'[u][b].id \in Tasks
        BY <3>1, FrameKinds DEF TaskFrames
      <3> QED
        BY <1>4, <1>5, <1>8, <2>2, <3>2
    <2> QED
      BY <2>1, <2>2
  <1>9. ASSUME NEW y \in Tasks, runs'[y] # 0, y \notin finished'
        PROVE  \E u \in Threads : \E i \in Nat : IsFrame(u, i)' /\ stack'[u][i].id = y
    <2>1. CASE y = x
      BY <1>6, <2>1
    <2>2. CASE y # x
      <3>1. runs[y] # 0 /\ y \notin finished
        BY <1>4, <1>9, <2>2
      <3>2. PICK u \in Threads : \E i \in Nat : IsFrame(u, i) /\ stack[u][i].id = y
        BY <3>1 DEF Running
      <3>3. PICK i \in Nat : IsFrame(u, i) /\ stack[u][i].id = y
        BY <3>2
      <3>4. New(u, i) \in Nat /\ IsFrame(u, New(u, i))' /\ stack'[u][New(u, i)].id = y
        BY <1>2, <3>3
      <3> QED
        BY <3>4
    <2> QED
      BY <2>1, <2>2
  <1>10. (\A y \in finished' : runs'[y] # 0) /\ runs'[Root] # 0
    <2>1. Root \in Tasks
      BY SchedAssumption
    <2> QED
      BY <1>4, <2>1 DEF Running, TypeOK
  <1> QED
    BY <1>7, <1>8, <1>9, <1>10 DEF Running

LEMMA RunningDrops ==
    ASSUME TypeOK, StackOK, StackOK', Running, NEW t \in Threads, Others(t),
           NEW x \in Tasks, FrameGone(t, x), runs' = runs, finished' = finished \cup {x}
    PROVE  Running'
  <1> DEFINE Old(u, b) == IF u = t THEN b + 1 ELSE b
             New(u, a) == IF u = t THEN a - 1 ELSE a
  <1>1. ASSUME NEW u \in Threads, NEW b \in Nat, IsFrame(u, b)'
        PROVE  /\ Old(u, b) \in Nat /\ IsFrame(u, Old(u, b))
               /\ stack'[u][b].id = stack[u][Old(u, b)].id
               /\ u # t \/ Old(u, b) # 1
    <2>1. CASE u = t
      <3>1. b # 0
        BY <1>1 DEF IsFrame
      <3> QED
        BY <1>1, <2>1, <3>1 DEF FrameGone, SameFrame
    <2>2. CASE u # t
      BY <1>1, <2>2, FramesElsewhere
    <2> QED
      BY <2>1, <2>2
  <1>2. ASSUME NEW u \in Threads, NEW a \in Nat, IsFrame(u, a), u # t \/ a # 1
        PROVE  New(u, a) \in Nat /\ IsFrame(u, New(u, a))' /\ stack'[u][New(u, a)].id = stack[u][a].id
    <2>1. CASE u = t
      BY <1>2, <2>1 DEF FrameGone, SameFrame
    <2>2. CASE u # t
      BY <1>2, <2>2, FramesElsewhere
    <2> QED
      BY <2>1, <2>2
  <1>3. ASSUME NEW u \in Threads, NEW v \in Threads, NEW a \in Nat, NEW b \in Nat, u = v,
               Old(u, a) = Old(v, b)
        PROVE  a = b
    BY <1>3
  <1> HIDE DEF Old, New
  <1>4. IsFrame(t, 1) /\ stack[t][1].id = x /\ 1 \in Nat
    BY DEF FrameGone
  <1>5. ASSUME NEW u \in Threads, NEW b \in Nat, IsFrame(u, b)'
        PROVE  stack'[u][b].id # x
    BY <1>1, <1>4, <1>5 DEF Running
  <1>6. ASSUME NEW u \in Threads, NEW v \in Threads, NEW a \in Nat, NEW b \in Nat,
               IsFrame(u, a)', IsFrame(v, b)', stack'[u][a].id = stack'[v][b].id
        PROVE  u = v /\ a = b
    <2>1. u = v /\ Old(u, a) = Old(v, b)
      BY <1>1, <1>6 DEF Running
    <2> QED
      BY <1>3, <2>1
  <1>7. ASSUME NEW u \in Threads, NEW b \in Nat, IsFrame(u, b)'
        PROVE  runs'[stack'[u][b].id] # 0 /\ stack'[u][b].id \notin finished'
    BY <1>1, <1>5, <1>7 DEF Running
  <1>8. ASSUME NEW y \in Tasks, runs'[y] # 0, y \notin finished'
        PROVE  \E u \in Threads : \E i \in Nat : IsFrame(u, i)' /\ stack'[u][i].id = y
    <2>1. runs[y] # 0 /\ y \notin finished /\ y # x
      BY <1>8
    <2>2. PICK u \in Threads : \E i \in Nat : IsFrame(u, i) /\ stack[u][i].id = y
      BY <2>1 DEF Running
    <2>3. PICK i \in Nat : IsFrame(u, i) /\ stack[u][i].id = y
      BY <2>2
    <2>4. u # t \/ i # 1
      BY <1>4, <2>1, <2>3
    <2>5. New(u, i) \in Nat /\ IsFrame(u, New(u, i))' /\ stack'[u][New(u, i)].id = y
      BY <1>2, <2>3, <2>4
    <2> QED
      BY <2>5
  <1>9. (\A y \in finished' : runs'[y] # 0) /\ runs'[Root] # 0
    BY <1>4 DEF Running
  <1> QED
    BY <1>6, <1>7, <1>8, <1>9 DEF Running

-----------------------------------------------------------------------------
(* What has been scheduled.                                                *)

\* Subtasks of p in a ring or called.
InIncr(p) == \E u \in InTop("incr") : Top(u).id = p
Placed(p) == issued[p] + (IF InIncr(p) THEN 1 ELSE 0)

LEMMA Positions ==
    ASSUME NEW p \in Tasks
    PROVE  Children[p] \in Seq(Tasks) /\ \A k \in DOMAIN Children[p] : k \in Nat /\ Children[p][k] \in Tasks
  <1>1. Children[p] \in Seq(Tasks)
    BY SchedAssumption
  <1> QED
    BY <1>1

LEMMA OnePlace ==
    ASSUME NEW p1 \in Tasks, NEW p2 \in Tasks, NEW k1 \in DOMAIN Children[p1],
           NEW k2 \in DOMAIN Children[p2], Children[p1][k1] = Children[p2][k2]
    PROVE  p1 = p2 /\ k1 = k2
  BY TreeAssumption

LEMMA ScheduledIs ==
    ASSUME issued \in [Tasks -> Nat], NEW x
    PROVE  Scheduled(x) <=> \E p \in Tasks : \E k \in DOMAIN Children[p] :
                                Children[p][k] = x /\ k <= Placed(p)
  <1>1. ASSUME NEW p \in Tasks, NEW k \in DOMAIN Children[p]
        PROVE  (k <= issued[p] \/ (k = issued[p] + 1 /\ InIncr(p))) <=> k <= Placed(p)
    <2>1. k \in Nat /\ issued[p] \in Nat
      BY Positions
    <2> QED
      BY <2>1 DEF Placed
  <1>2. Scheduled(x) <=> \E p \in Tasks : \E k \in DOMAIN Children[p] :
            Children[p][k] = x /\ (k <= issued[p] \/ (k = issued[p] + 1 /\ InIncr(p)))
    BY DEF Scheduled, InIncr
  <1> QED
    BY ONLY <1>1, <1>2

\* The same after a step.
LEMMA ScheduledNext ==
    ASSUME issued' \in [Tasks -> Nat], NEW x
    PROVE  Scheduled(x)' <=> \E p \in Tasks : \E k \in DOMAIN Children[p] :
                                 Children[p][k] = x /\ k <= Placed(p)'
  <1>1. ASSUME NEW p \in Tasks, NEW k \in DOMAIN Children[p]
        PROVE  (k <= issued'[p] \/ (k = issued'[p] + 1 /\ InIncr(p)')) <=> k <= Placed(p)'
    <2>1. k \in Nat /\ issued'[p] \in Nat
      BY Positions
    <2> QED
      BY <2>1 DEF Placed
  <1>2. Scheduled(x)' <=> \E p \in Tasks : \E k \in DOMAIN Children[p] :
            Children[p][k] = x /\ (k <= issued'[p] \/ (k = issued'[p] + 1 /\ InIncr(p)'))
    BY DEF Scheduled, InIncr
  <1> QED
    BY ONLY <1>1, <1>2

LEMMA TopUnique ==
    ASSUME StackOK, Running, NEW t \in Threads, NEW u \in Threads,
           stack[t] # << >>, stack[u] # << >>, IsTask(stack[t][1]), IsTask(stack[u][1]),
           stack[t][1].id = stack[u][1].id
    PROVE  t = u
  <1>1. IsFrame(t, 1) /\ IsFrame(u, 1) /\ 1 \in Nat
    BY FrameAt DEF IsFrame
  <1> QED
    BY <1>1 DEF Running

\* A task which adds an entry is not doing so elsewhere.
LEMMA OneAdds ==
    ASSUME StackOK, Running, NEW t \in Threads, stack[t] # << >>, IsTask(stack[t][1]),
           NEW u \in Threads, NEW ph \in {"publish", "incr"}, InPhase(u, ph),
           Top(u).id = stack[t][1].id
    PROVE  u = t
  <1>1. stack[u] # << >> /\ Top(u) = stack[u][1] /\ IsTask(stack[u][1])
    BY FrameAt, PhaseKind DEF InPhase, TaskPhases
  <1> QED
    BY <1>1, TopUnique

LEMMA PlacedSteps ==
    ASSUME TypeOK, StackOK, Taking, Running, Stacks, NEW t \in Threads, Step(t), NEW p \in Tasks
    PROVE  IF (CallPublish(t) \/ CallInline(t)) /\ p = Top(t).id
           THEN Placed(p)' = issued[p] + 1 /\ Placed(p) = issued[p]
           ELSE Placed(p)' = Placed(p)
  <1>0. StackOK' /\ Others(t)
    BY StackElsewhere
  <1>1. issued[p] \in Nat
    BY DEF TypeOK
  <1>2. \A u \in Threads \ {t} : (u \in InTop("incr")' <=> u \in InTop("incr")) /\ Top(u)' = Top(u)
    BY <1>0, InTopKept
  <1>3. /\ t \in InTop("incr") <=> CallIncr(t)
        /\ t \in InTop("incr")' <=> CallPublish(t)
        /\ InTop("incr") \subseteq Threads /\ InTop("incr")' \subseteq Threads
    BY FromPhases, ToPhases DEF InTop
  <1>4. CASE CallPublish(t)
    <2>1. stack[t] # << >> /\ stack[t][1].ph = "publish" /\ IsTask(stack[t][1])
      BY <1>4, CallPublishStack, PhaseKind DEF Goes, Replaces, TaskPhases
    <2>2. Top(t) = stack[t][1] /\ Top(t)' = stack'[t][1] /\ Top(t)'.id = Top(t).id
      BY <1>0, <1>4, <2>1, CallPublishStack, FrameAt DEF Goes, Replaces, Top, StackOK
    <2>3. ~InPhase(t, "incr") /\ issued' = issued
      BY <1>4, <2>1, <2>2 DEF InPhase, CallPublish
    <2>4. CASE p = Top(t).id
      <3>1. ~InIncr(p)
        BY <2>1, <2>2, <2>3, <2>4, OneAdds DEF InIncr, InTop
      <3>2. InIncr(p)'
        BY <1>3, <1>4, <2>2, <2>4 DEF InIncr
      <3> QED
        BY <1>1, <1>4, <2>3, <2>4, <3>1, <3>2 DEF Placed
    <2>5. CASE p # Top(t).id
      <3>1. InIncr(p)' <=> InIncr(p)
        BY <1>2, <1>3, <2>2, <2>3, <2>5 DEF InIncr, InTop
      <3> QED
        BY <2>3, <2>5, <3>1 DEF Placed
    <2> QED
      BY <2>4, <2>5
  <1>5. CASE CallIncr(t)
    <2>1. stack[t] # << >> /\ stack[t][1].ph = "incr" /\ IsTask(stack[t][1])
      BY <1>5, CallIncrStack, PhaseKind DEF Goes, Replaces, TaskPhases
    <2>2. Top(t) = stack[t][1] /\ t \in InTop("incr") /\ t \notin InTop("incr")'
      BY <1>3, <1>5, <2>1, FrameAt DEF CallIncr, CallPublish, InPhase
    <2>3. /\ ~CallPublish(t) /\ ~CallInline(t)
          /\ issued' = [issued EXCEPT ![Top(t).id] = @ + 1]
      BY <1>5 DEF CallIncr, CallPublish, CallInline, InPhase
    <2>4. CASE p = Top(t).id
      <3>1. InIncr(p)
        BY <2>2, <2>4 DEF InIncr
      <3>2. ~InIncr(p)'
        <4>1. SUFFICES ASSUME NEW u \in InTop("incr")', Top(u)'.id = p PROVE FALSE
          BY DEF InIncr
        <4>2. u \in Threads \ {t} /\ u \in InTop("incr") /\ Top(u).id = p
          BY <1>2, <1>3, <2>2, <4>1
        <4> QED
          BY <2>1, <2>2, <2>4, <4>2, OneAdds DEF InTop
      <3>3. issued'[p] = issued[p] + 1
        BY <2>3, <2>4 DEF TypeOK
      <3> QED
        BY <1>1, <2>3, <3>1, <3>2, <3>3 DEF Placed
    <2>5. CASE p # Top(t).id
      <3>1. InIncr(p)' <=> InIncr(p)
        BY <1>2, <1>3, <2>2, <2>5 DEF InIncr, InTop
      <3>2. issued'[p] = issued[p]
        BY <2>3, <2>5 DEF TypeOK
      <3> QED
        BY <2>3, <3>1, <3>2 DEF Placed
    <2> QED
      BY <2>4, <2>5
  <1>6. CASE ~CallPublish(t) /\ ~CallIncr(t)
    <2>1. t \notin InTop("incr") /\ t \notin InTop("incr")'
      BY <1>3, <1>6
    <2>2. InIncr(p)' <=> InIncr(p)
      BY <1>2, <1>3, <2>1 DEF InIncr
    <2>3. CASE CallInline(t)
      <3>1. stack[t] # << >> /\ stack[t][1].ph = "body" /\ IsTask(stack[t][1])
        BY <2>3, CallInlineStack, PhaseKind DEF TaskPhases
      <3>2. Top(t) = stack[t][1] /\ issued' = [issued EXCEPT ![Top(t).id] = @ + 1]
        BY <2>3, <3>1, FrameAt DEF CallInline
      <3>3. CASE p = Top(t).id
        <4>1. ~InIncr(p)
          BY <2>1, <3>1, <3>2, <3>3, OneAdds DEF InIncr, InTop
        <4>2. issued'[p] = issued[p] + 1
          BY <3>2, <3>3 DEF TypeOK
        <4> QED
          BY <1>1, <2>2, <2>3, <3>3, <4>1, <4>2 DEF Placed
      <3>4. CASE p # Top(t).id
        <4>1. issued'[p] = issued[p]
          BY <3>2, <3>4 DEF TypeOK
        <4> QED
          BY <2>2, <3>4, <4>1 DEF Placed
      <3> QED
        BY <3>3, <3>4
    <2>4. CASE ~CallInline(t)
      <3>1. issued' = issued
        BY <1>6, <2>4 DEF Step, CallEnqueue, Join, JoinYield, JoinDone, ReturnInline,
           ReturnPicked, ReturnRoot, WorkerYield, PickLock, PickTest, PickRead, PickTake,
           PickCall, PickNext
      <3> QED
        BY <1>6, <2>2, <2>4, <3>1 DEF Placed
    <2> QED
      BY <2>3, <2>4
  <1> QED
    BY <1>4, <1>5, <1>6

\* The next subtask is not scheduled, and nobody else is about to publish it.
LEMMA NextNotScheduled ==
    ASSUME TypeOK, StackOK, Running, NEW t \in Threads,
           InPhase(t, "body") \/ InPhase(t, "publish"), MoreToCall(t)
    PROVE  /\ NextTask(t) \in Tasks /\ NextTask(t) # Root /\ ~Scheduled(NextTask(t))
           /\ \A u \in InTop("publish") : MoreToCall(u) /\ NextTask(u) = NextTask(t) => u = t
  <1> DEFINE p == stack[t][1].id
             k == issued[p] + 1
  <1>1. /\ stack[t] # << >> /\ IsTask(stack[t][1]) /\ Top(t) = stack[t][1]
        /\ Top(t).ph = "body" \/ Top(t).ph = "publish"
    BY FrameAt, PhaseKind DEF InPhase, TaskPhases
  <1>2. /\ p \in Tasks /\ k \in DOMAIN Children[p] /\ NextTask(t) = Children[p][k]
        /\ NextTask(t) \in Tasks /\ NextTask(t) # Root
    BY <1>1, NextTaskOf
  <1>3. issued[p] \in Nat
    BY <1>2 DEF TypeOK
  <1>4. ~InPhase(t, "incr")
    BY <1>1 DEF InPhase
  <1>5. ~InIncr(p)
    BY <1>1, <1>4, OneAdds DEF InIncr, InTop
  <1>6. ~(k <= Placed(p))
    BY <1>3, <1>5 DEF Placed
  <1>7. ~Scheduled(NextTask(t))
    BY <1>2, <1>6, ScheduledIs, TreeAssumption DEF TypeOK
  <1>8. ASSUME NEW u \in InTop("publish"), MoreToCall(u), NextTask(u) = NextTask(t) PROVE u = t
    <2>1. u \in Threads /\ InPhase(u, "publish")
      BY DEF InTop
    <2>2. stack[u] # << >> /\ IsTask(stack[u][1]) /\ Top(u) = stack[u][1]
      BY <2>1, FrameAt, PhaseKind DEF InPhase, TaskPhases
    <2>3. LET pu == stack[u][1].id IN
          pu \in Tasks /\ issued[pu] + 1 \in DOMAIN Children[pu]
          /\ NextTask(u) = Children[pu][issued[pu] + 1]
      BY <1>8, <2>1, <2>2, NextTaskOf
    <2>4. stack[u][1].id = p
      <3> DEFINE pu == stack[u][1].id
                 ku == issued[pu] + 1
      <3>1. pu \in Tasks /\ ku \in DOMAIN Children[pu] /\ Children[pu][ku] = Children[p][k]
        BY <1>2, <1>8, <2>3
      <3> HIDE DEF p, k, pu, ku
      <3>2. pu = p
        BY <1>2, <3>1, OnePlace
      <3> QED
        BY <3>2 DEF pu
    <2> QED
      BY <1>1, <2>1, <2>2, <2>4, TopUnique
  <1> QED
    BY <1>2, <1>7, <1>8

LEMMA ScheduledSteps ==
    ASSUME TypeOK, StackOK, Taking, Running, Stacks, Adding, NEW t \in Threads, Step(t), NEW x
    PROVE  /\ CallPublish(t) \/ CallInline(t) =>
                 (Scheduled(x)' <=> Scheduled(x) \/ x = NextTask(t))
           /\ ~CallPublish(t) /\ ~CallInline(t) => (Scheduled(x)' <=> Scheduled(x))
  <1>1. Scheduled(x)' <=> \E p \in Tasks : \E k \in DOMAIN Children[p] :
                                Children[p][k] = x /\ k <= Placed(p)'
    <2>1. issued' \in [Tasks -> Nat]
      BY TypesKept DEF VarTypes
    <2> QED
      BY <2>1, ScheduledNext
  <1>0. issued \in [Tasks -> Nat]
    BY DEF TypeOK
  <1>2. CASE ~CallPublish(t) /\ ~CallInline(t)
    <2>1. \A p \in Tasks : Placed(p)' = Placed(p)
      BY <1>2, PlacedSteps
    <2> QED
      BY <1>0, <1>1, <1>2, <2>1, ScheduledIs
  <1>3. CASE CallPublish(t) \/ CallInline(t)
    <2>1. /\ stack[t] # << >> /\ IsTask(stack[t][1]) /\ Top(t) = stack[t][1] /\ MoreToCall(t)
      BY <1>3, FrameAt, PhaseKind DEF InPhase, TaskPhases, CallPublish, CallInline, Adding
    <2>0. PICK p \in Tasks : p = stack[t][1].id
      BY <2>1, NextTaskOf
    <2> DEFINE k == issued[p] + 1
    <2>2. /\ p \in Tasks /\ k \in DOMAIN Children[p] /\ NextTask(t) = Children[p][k]
      BY <2>0, <2>1, NextTaskOf
    <2>3. Placed(p)' = issued[p] + 1 /\ Placed(p) = issued[p] /\ issued[p] \in Nat
      <3>1. p = Top(t).id
        BY <2>0, <2>1
      <3>2. Placed(p)' = issued[p] + 1 /\ Placed(p) = issued[p]
        BY ONLY <1>3, <2>2, <3>1, PlacedSteps, TypeOK, StackOK, Taking, Running, Stacks, Step(t),
           t \in Threads
      <3> QED
        BY <2>2, <3>2 DEF TypeOK
    <2>4. \A r \in Tasks : r # p => Placed(r)' = Placed(r)
      BY <2>0, <2>1, PlacedSteps
    <2>5. ASSUME NEW j \in DOMAIN Children[p] PROVE j <= Placed(p)' <=> j <= Placed(p) \/ j = k
      <3>1. j \in Nat
        BY <2>2, SchedAssumption
      <3> QED
        BY <2>3, <3>1
    <2>6. Scheduled(x)' <=> Scheduled(x) \/ x = Children[p][k]
      <3>1. Scheduled(x) <=> \E r \in Tasks : \E j \in DOMAIN Children[r] :
                                Children[r][j] = x /\ j <= Placed(r)
        BY <1>0, ScheduledIs
      <3>2. ASSUME NEW r \in Tasks, NEW j \in DOMAIN Children[r]
            PROVE  j <= Placed(r)' <=> (j <= Placed(r) \/ (r = p /\ j = k))
        <4>1. CASE r = p
          BY <2>5, <4>1
        <4>2. CASE r # p
          BY <2>4, <4>2
        <4> QED
          BY <4>1, <4>2
      <3> HIDE DEF k
      <3> QED
        BY ONLY <1>1, <2>2, <3>1, <3>2
    <2> QED
      BY <1>3, <2>2, <2>6
  <1> QED
    BY <1>2, <1>3

-----------------------------------------------------------------------------
(* A scheduled task is in one place.                                       *)

LiveAt(x) == {s \in Live : call_arr[s[1]][s[2]] = x}
DecrAt(x) == {t \in InTop("decr") : Top(t).id = x}

LEMMA FiniteParts == IsFiniteSet(Threads) /\ IsFiniteSet(Queues \X Slots)
  <1>1. IsFiniteSet(Threads)
    BY WorkersFinite, FS_AddElement DEF Threads
  <1>2. IsFiniteSet(Pris) /\ IsFiniteSet(Slots)
    <2>1. 0 \in Int /\ 1 \in Int /\ SIZE - 1 \in Int
      BY SchedAssumption
    <2>2. IsFiniteSet(0 .. 1) /\ IsFiniteSet(0 .. SIZE - 1)
      BY <2>1, FS_Interval
    <2> QED
      BY <2>2 DEF Pris, Slots
  <1>3. IsFiniteSet(Queues)
    BY <1>1, <1>2, FS_Product DEF Queues
  <1> QED
    BY <1>1, <1>2, <1>3, FS_Product

LEMMA FiniteSets ==
    ASSUME NEW x, NEW ph
    PROVE  /\ IsFiniteSet(Live) /\ IsFiniteSet(LiveAt(x)) /\ IsFiniteSet(InTop(ph)) /\ IsFiniteSet(DecrAt(x))
           /\ Cardinality(Live) \in Nat /\ Cardinality(LiveAt(x)) \in Nat
           /\ Cardinality(InTop(ph)) \in Nat /\ Cardinality(DecrAt(x)) \in Nat
  <1>1. Live \subseteq Queues \X Slots /\ LiveAt(x) \subseteq Queues \X Slots
    BY DEF Live, LiveAt
  <1>2. InTop(ph) \subseteq Threads /\ DecrAt(x) \subseteq Threads
    BY DEF InTop, DecrAt
  <1>3. IsFiniteSet(Live) /\ IsFiniteSet(LiveAt(x))
    BY <1>1, FiniteParts, FS_Subset
  <1>4. IsFiniteSet(InTop(ph)) /\ IsFiniteSet(DecrAt(x))
    BY <1>2, FiniteParts, FS_Subset
  <1> QED
    BY <1>3, <1>4, FS_CardinalityType

LEMMA OnceSays ==
    ASSUME TypeOK, EachOnce, NEW x \in Tasks \ {Root}
    PROVE  /\ ~Scheduled(x) => LiveAt(x) = {} /\ DecrAt(x) = {} /\ runs[x] = 0
           /\ Scheduled(x) => LiveAt(x) # {} \/ DecrAt(x) # {} \/ runs[x] # 0
           /\ LiveAt(x) # {} => DecrAt(x) = {} /\ runs[x] = 0
           /\ DecrAt(x) # {} => LiveAt(x) = {} /\ runs[x] = 0
           /\ runs[x] # 0 => LiveAt(x) = {} /\ DecrAt(x) = {}
  <1> DEFINE L == Cardinality(LiveAt(x))
             D == Cardinality(DecrAt(x))
  <1>1. L + D + runs[x] = IF Scheduled(x) THEN 1 ELSE 0
    BY DEF EachOnce, LiveAt, DecrAt
  <1>2. L \in Nat /\ D \in Nat /\ IsFiniteSet(LiveAt(x)) /\ IsFiniteSet(DecrAt(x))
    BY FiniteSets
  <1>3. runs[x] \in Nat
    BY DEF TypeOK
  <1>4. (L = 0 <=> LiveAt(x) = {}) /\ (D = 0 <=> DecrAt(x) = {})
    BY <1>2, FS_EmptySet
  <1> HIDE DEF L, D
  <1> QED
    BY <1>1, <1>2, <1>3, <1>4

LEMMA DecrSteps ==
    ASSUME TypeOK, StackOK, Taking, Stacks, NEW t \in Threads, Step(t), NEW x
    PROVE  /\ PickTake(t) => /\ t \notin DecrAt(x)
                             /\ DecrAt(x)' = IF Top(t).id = x THEN DecrAt(x) \cup {t} ELSE DecrAt(x)
           /\ PickCall(t) => /\ t \in DecrAt(x) <=> Top(t).id = x
                             /\ DecrAt(x)' = DecrAt(x) \ {t}
           /\ ~PickTake(t) /\ ~PickCall(t) => DecrAt(x)' = DecrAt(x)
  <1>0. StackOK' /\ Others(t)
    BY StackElsewhere
  <1>1. \A u \in Threads \ {t} : (u \in DecrAt(x)' <=> u \in DecrAt(x))
    BY <1>0, InTopKept DEF DecrAt
  <1>2. /\ t \in InTop("decr") <=> PickCall(t)
        /\ t \in InTop("decr")' <=> PickTake(t)
    BY FromPhases, ToPhases DEF InTop
  <1>3. DecrAt(x) \subseteq Threads /\ DecrAt(x)' \subseteq Threads
    BY DEF DecrAt, InTop
  <1>4. PickTake(t) => Top(t)'.id = Top(t).id
    BY <1>0, PickTakeStack, FrameAt DEF Goes, Replaces, Top, StackOK
  <1>5. PickTake(t) => ~PickCall(t)
    BY DEF PickTake, PickCall, InPhase
  <1>6. /\ t \in DecrAt(x) <=> PickCall(t) /\ Top(t).id = x
        /\ t \in DecrAt(x)' <=> PickTake(t) /\ Top(t).id = x
    BY <1>2, <1>4 DEF DecrAt
  <1> QED
    BY <1>1, <1>3, <1>5, <1>6

LEMMA LiveAtSame ==
    ASSUME TypeOK, StackOK, Taking, Running, Stacks, Rings, NEW t \in Threads, Step(t),
           ~CallPublish(t), ~PickTake(t), NEW x
    PROVE  Live' = Live /\ LiveAt(x)' = LiveAt(x)
  <1>1. CASE CallEnqueue(t)
    <2> DEFINE q == CallQueue(t)
    <2>1. stack[t] # << >> /\ IsTask(stack[t][1]) /\ MoreToCall(t)
      BY <1>1, FrameAt, PhaseKind DEF CallEnqueue, InPhase, TaskPhases
    <2>2. q \in Queues
      BY <2>1, NextTaskOf
    <2>3. <<q, head[q]>> \notin Live
      BY <2>2, HeadNotLive
    <2>4. head' = head /\ tail' = tail /\ call_arr' = [call_arr EXCEPT ![q][head[q]] = NextTask(t)]
      BY <1>1 DEF CallEnqueue
    <2> HIDE DEF q
    <2>5. Live' = Live
      BY <2>4 DEF Live, QueueSize
    <2>6. ASSUME NEW s \in Live PROVE call_arr'[s[1]][s[2]] = call_arr[s[1]][s[2]]
      <3>1. s[1] \in Queues /\ s[2] \in Slots /\ s = <<s[1], s[2]>>
        BY LiveSlots
      <3>2. s[1] # q \/ s[2] # head[q]
        BY <2>3, <2>6, <3>1
      <3> QED
        BY <2>2, <2>4, <3>1, <3>2 DEF TypeOK
    <2> QED
      BY <2>5, <2>6 DEF LiveAt
  <1>2. CASE ~CallEnqueue(t)
    <2>1. head' = head /\ tail' = tail /\ call_arr' = call_arr
      BY <1>2 DEF Step, CallIncr, CallInline, Join, JoinYield, JoinDone, ReturnInline,
         ReturnPicked, ReturnRoot, WorkerYield, PickLock, PickTest, PickRead, PickCall, PickNext,
         queue_vars
    <2>2. Live' = Live
      BY <2>1 DEF Live, QueueSize
    <2> QED
      BY <2>1, <2>2 DEF LiveAt
  <1> QED
    BY <1>1, <1>2

LEMMA RunsSteps ==
    ASSUME TypeOK, StackOK, Taking, Running, Stacks, EachOnce, NEW t \in Threads, Step(t)
    PROVE  /\ CallInline(t) => /\ NextTask(t) \in Tasks \ {Root} /\ runs[NextTask(t)] = 0
                               /\ runs' = [runs EXCEPT ![NextTask(t)] = @ + 1]
           /\ PickCall(t) => /\ Top(t).id \in Tasks \ {Root} /\ runs[Top(t).id] = 0
                             /\ runs' = [runs EXCEPT ![Top(t).id] = @ + 1]
           /\ ~CallInline(t) /\ ~PickCall(t) => runs' = runs
  <1>1. ASSUME CallInline(t)
        PROVE  /\ NextTask(t) \in Tasks \ {Root} /\ runs[NextTask(t)] = 0
               /\ runs' = [runs EXCEPT ![NextTask(t)] = @ + 1]
    <2>1. InPhase(t, "body") /\ MoreToCall(t)
      BY <1>1 DEF CallInline
    <2>2. NextTask(t) \in Tasks \ {Root} /\ ~Scheduled(NextTask(t))
      BY <2>1, NextNotScheduled
    <2>3. runs[NextTask(t)] = 0
      BY <2>2, OnceSays
    <2> QED
      BY <1>1, <2>2, <2>3 DEF CallInline
  <1>2. ASSUME PickCall(t)
        PROVE  /\ Top(t).id \in Tasks \ {Root} /\ runs[Top(t).id] = 0
               /\ runs' = [runs EXCEPT ![Top(t).id] = @ + 1]
    <2>1. InPhase(t, "decr")
      BY <1>2 DEF PickCall
    <2>2. Top(t).id \in Tasks \ {Root}
      BY <2>1 DEF Taking
    <2>3. t \in DecrAt(Top(t).id)
      BY <2>1 DEF DecrAt, InTop
    <2>4. runs[Top(t).id] = 0
      BY <2>2, <2>3, OnceSays
    <2> QED
      BY <1>2, <2>2, <2>4 DEF PickCall
  <1>3. ASSUME ~CallInline(t), ~PickCall(t) PROVE runs' = runs
    BY <1>3 DEF Step, CallEnqueue, CallPublish, CallIncr, Join, JoinYield, JoinDone,
       ReturnInline, ReturnPicked, ReturnRoot, WorkerYield, PickLock, PickTest, PickRead,
       PickTake, PickNext
  <1> QED
    BY <1>1, <1>2, <1>3

LEMMA EachOnceKept ==
    ASSUME TypeOK, StackOK, Running, Stacks, Rings, EachOnce, NEW t \in Threads, Step(t)
    PROVE  EachOnce'
  <1>0. Taking /\ Adding
    BY DEF Rings
  <1>1. SUFFICES ASSUME NEW x \in Tasks \ {Root}
                 PROVE  Cardinality(LiveAt(x)') + Cardinality(DecrAt(x)') + runs'[x]
                            = IF Scheduled(x)' THEN 1 ELSE 0
    BY DEF EachOnce, LiveAt, DecrAt
  <1> DEFINE L == Cardinality(LiveAt(x))
             D == Cardinality(DecrAt(x))
  <1>2. L + D + runs[x] = IF Scheduled(x) THEN 1 ELSE 0
    BY DEF EachOnce, LiveAt, DecrAt
  <1>3. L \in Nat /\ D \in Nat /\ IsFiniteSet(LiveAt(x)) /\ IsFiniteSet(DecrAt(x)) /\ runs[x] \in Nat
    BY FiniteSets DEF TypeOK
  <1>4. CASE CallPublish(t)
    <2> DEFINE s == <<CallQueue(t), head[CallQueue(t)]>>
    <2>1. /\ MoreToCall(t) /\ Live' = Live \cup {s} /\ s \notin Live
          /\ call_arr[s[1]][s[2]] = NextTask(t) /\ call_arr' = call_arr /\ runs' = runs
      BY <1>4, PublishRings DEF CallPublish
    <2>2. ~PickTake(t) /\ ~PickCall(t)
      BY <1>4 DEF CallPublish, PickTake, PickCall, InPhase
    <2>3. DecrAt(x)' = DecrAt(x)
      BY <1>0, <2>2, DecrSteps
    <2>4. ~Scheduled(NextTask(t))
      BY <1>4, <2>1, NextNotScheduled DEF CallPublish
    <2>5. Scheduled(x)' <=> Scheduled(x) \/ x = NextTask(t)
      BY <1>0, <1>4, ScheduledSteps
    <2> HIDE DEF s
    <2>6. CASE x = NextTask(t)
      <3>1. LiveAt(x)' = LiveAt(x) \cup {s} /\ s \notin LiveAt(x)
        BY <2>1, <2>6 DEF LiveAt
      <3>2. Cardinality(LiveAt(x)') = L + 1
        BY <1>3, <3>1, FS_AddElement
      <3> HIDE DEF L, D
      <3> QED
        BY <1>2, <1>3, <2>1, <2>3, <2>4, <2>5, <2>6, <3>2 DEF D
    <2>7. CASE x # NextTask(t)
      <3>1. LiveAt(x)' = LiveAt(x)
        BY <2>1, <2>7 DEF LiveAt
      <3> QED
        BY <1>2, <2>1, <2>3, <2>5, <2>7, <3>1
    <2> QED
      BY <2>6, <2>7
  <1>5. CASE PickTake(t)
    <2> DEFINE s == <<Visited(t), (tail[Visited(t)] + 1) % SIZE>>
    <2>1. /\ Live' = Live \ {s} /\ s \in Live /\ call_arr[s[1]][s[2]] = Top(t).id
          /\ call_arr' = call_arr /\ runs' = runs
      BY <1>5, TakeRings DEF PickTake
    <2>2. ~CallPublish(t) /\ ~CallInline(t)
      BY <1>5 DEF CallPublish, PickTake, CallInline, InPhase
    <2>3. Scheduled(x)' <=> Scheduled(x)
      BY <1>0, <2>2, ScheduledSteps
    <2>4. /\ t \notin DecrAt(x)
          /\ DecrAt(x)' = IF Top(t).id = x THEN DecrAt(x) \cup {t} ELSE DecrAt(x)
      BY <1>0, <1>5, DecrSteps
    <2> HIDE DEF s
    <2>5. CASE x = Top(t).id
      <3>1. LiveAt(x)' = LiveAt(x) \ {s} /\ s \in LiveAt(x)
        BY <2>1, <2>5 DEF LiveAt
      <3>2. Cardinality(LiveAt(x)') = L - 1
        BY <1>3, <3>1, FS_RemoveElement
      <3>3. Cardinality(DecrAt(x)') = D + 1
        BY <1>3, <2>4, <2>5, FS_AddElement
      <3> HIDE DEF L, D
      <3> QED
        BY <1>2, <1>3, <2>1, <2>3, <3>2, <3>3
    <2>6. CASE x # Top(t).id
      <3>1. LiveAt(x)' = LiveAt(x)
        BY <2>1, <2>6 DEF LiveAt
      <3> QED
        BY <1>2, <2>1, <2>3, <2>4, <2>6, <3>1
    <2> QED
      BY <2>5, <2>6
  <1>6. CASE PickCall(t)
    <2>1. ~CallPublish(t) /\ ~CallInline(t) /\ ~PickTake(t)
      BY <1>6 DEF CallPublish, PickTake, CallInline, PickCall, InPhase
    <2>2. (Scheduled(x)' <=> Scheduled(x)) /\ LiveAt(x)' = LiveAt(x)
      BY <1>0, <2>1, ScheduledSteps, LiveAtSame
    <2>3. (t \in DecrAt(x) <=> Top(t).id = x) /\ DecrAt(x)' = DecrAt(x) \ {t}
      BY <1>0, <1>6, DecrSteps
    <2>4. Cardinality(DecrAt(x)') = IF Top(t).id = x THEN D - 1 ELSE D
      <3>1. CASE Top(t).id = x
        <4>1. Cardinality(DecrAt(x) \ {t}) = Cardinality(DecrAt(x)) - 1
          BY <1>3, <2>3, <3>1, FS_RemoveElement
        <4> QED
          BY <2>3, <3>1, <4>1
      <3>2. CASE Top(t).id # x
        <4>1. DecrAt(x)' = DecrAt(x)
          BY ONLY <2>3, <3>2
        <4> QED
          BY <3>2, <4>1
      <3> QED
        BY <3>1, <3>2
    <2>5. runs' = [runs EXCEPT ![Top(t).id] = @ + 1]
      BY <1>6 DEF PickCall
    <2>6. runs'[x] = IF Top(t).id = x THEN runs[x] + 1 ELSE runs[x]
      BY <2>5 DEF TypeOK
    <2>7. Cardinality(LiveAt(x)') = L
      BY <2>2
    <2> HIDE DEF L, D
    <2> QED
      BY <1>2, <1>3, <2>2, <2>4, <2>6, <2>7
  <1>7. CASE CallInline(t)
    <2>1. ~CallPublish(t) /\ ~PickCall(t) /\ ~PickTake(t)
      BY <1>7 DEF CallPublish, PickTake, CallInline, PickCall, InPhase
    <2>2. DecrAt(x)' = DecrAt(x) /\ LiveAt(x)' = LiveAt(x)
      BY <1>0, <2>1, DecrSteps, LiveAtSame
    <2>3. Scheduled(x)' <=> Scheduled(x) \/ x = NextTask(t)
      BY <1>0, <1>7, ScheduledSteps
    <2>4. ~Scheduled(NextTask(t))
      BY <1>7, NextNotScheduled DEF CallInline
    <2>5. runs'[x] = IF NextTask(t) = x THEN runs[x] + 1 ELSE runs[x]
      BY <1>7 DEF CallInline, TypeOK
    <2>6. Cardinality(LiveAt(x)') = L /\ Cardinality(DecrAt(x)') = D
      BY <2>2
    <2> HIDE DEF L, D
    <2> QED
      BY <1>2, <1>3, <2>3, <2>4, <2>5, <2>6
  <1>8. CASE ~CallPublish(t) /\ ~PickTake(t) /\ ~PickCall(t) /\ ~CallInline(t)
    <2>1. /\ LiveAt(x)' = LiveAt(x) /\ DecrAt(x)' = DecrAt(x) /\ runs' = runs
          /\ Scheduled(x)' <=> Scheduled(x)
      BY <1>0, <1>8, LiveAtSame, DecrSteps, RunsSteps, ScheduledSteps
    <2> QED
      BY <1>2, <2>1
  <1> QED
    BY <1>4, <1>5, <1>6, <1>7, <1>8

LEMMA RunningKept ==
    ASSUME TypeOK, StackOK, Taking, Running, Stacks, EachOnce, NEW t \in Threads, Step(t)
    PROVE  Running'
  <1>0. StackOK' /\ Others(t)
    BY StackElsewhere
  <1>1. ASSUME NEW ph, Goes(t, ph), UNCHANGED <<runs, finished>> PROVE Running'
    <2>1. FramesMove(t, 0)
      BY <1>0, <1>1, ReplaceFrames DEF Goes
    <2> QED
      BY <1>0, <1>1, <2>1, RunningMoves
  <1> DEFINE f == stack'[t][2]
             g == stack'[t][1]
  <1>2. CASE CallEnqueue(t)
    BY <1>1, <1>2, CallEnqueueStack DEF CallEnqueue
  <1>3. CASE CallPublish(t)
    BY <1>1, <1>3, CallPublishStack DEF CallPublish
  <1>4. CASE CallIncr(t)
    BY <1>1, <1>4, CallIncrStack DEF CallIncr
  <1>5. CASE CallInline(t)
    <2> DEFINE x == NextTask(t)
    <2>1. Pushes(t, g) /\ g.ph = "body" /\ g.id = x
      BY <1>5, CallInlineStack
    <2>2. IsTask(g)
      BY <2>1, PhaseKind DEF TaskPhases
    <2>3. FrameAdded(t, x)
      BY <1>0, <2>1, <2>2, PushFrames
    <2>4. x \in Tasks /\ runs[x] = 0 /\ runs' = [runs EXCEPT ![x] = @ + 1]
      BY <1>5, RunsSteps
    <2>5. finished' = finished
      BY <1>5 DEF CallInline
    <2> HIDE DEF x
    <2> QED
      BY <1>0, <2>3, <2>4, <2>5, RunningAdds
  <1>6. CASE Join(t)
    BY <1>1, <1>6, JoinStack DEF Join
  <1>7. CASE JoinYield(t)
    <2>1. stack[t][1].ph = "yield" /\ UNCHANGED <<runs, finished>>
      BY <1>7, JoinYieldStack DEF JoinYield
    <2>2. CASE Goes(t, "block")
      BY <1>1, <2>1, <2>2
    <2>3. CASE /\ ReplacesAndPushes(t, f, g)
               /\ f.ph = "block" /\ f.id = stack[t][1].id /\ f.pri = stack[t][1].pri
               /\ g.ph = "lock"
      <3>1. GoesOn(stack[t][1], f)
        BY <2>1, <2>3, PhaseKind DEF GoesOn, TaskPhases
      <3>2. ~IsTask(g)
        BY <2>3, PhaseKind DEF PickPhases
      <3>3. FramesMove(t, -1)
        BY <1>0, <2>3, <3>1, <3>2, ReplacePushFrames
      <3> QED
        BY <1>0, <2>1, <3>3, RunningMoves
    <2> QED
      BY <1>7, <2>2, <2>3, JoinYieldStack
  <1>8. CASE JoinDone(t)
    BY <1>1, <1>8, JoinDoneStack DEF JoinDone
  <1>9. ASSUME IsTask(stack[t][1]), stack[t] # << >>, FrameGone(t, stack[t][1].id),
               runs' = runs, finished' = finished \cup {Top(t).id}
        PROVE  Running'
    <2>1. Top(t).id = stack[t][1].id /\ stack[t][1].id \in Tasks
      BY <1>9, TopTyped
    <2> QED
      BY <1>0, <1>9, <2>1, RunningDrops
  <1>10. CASE ReturnInline(t)
    <2>1. stack[t] # << >> /\ IsTask(stack[t][1]) /\ Pops(t)
      BY <1>10, ReturnInlineStack, PhaseKind DEF TaskPhases
    <2>2. FrameGone(t, stack[t][1].id)
      BY <1>0, <2>1, PopFrames
    <2> QED
      BY <1>9, <1>10, <2>1, <2>2 DEF ReturnInline
  <1>11. CASE ReturnPicked(t)
    <2>1. /\ stack[t] # << >> /\ IsTask(stack[t][1])
          /\ PopsAndReplaces(t, g) /\ GoesOn(stack[t][2], g)
      BY <1>11, ReturnPickedStack, PhaseKind DEF TaskPhases
    <2>2. FrameGone(t, stack[t][1].id)
      BY <1>0, <2>1, PopReplaceFrames
    <2> QED
      BY <1>9, <1>11, <2>1, <2>2 DEF ReturnPicked
  <1>12. CASE ReturnRoot(t)
    <2>1. stack[t] # << >> /\ IsTask(stack[t][1]) /\ Pops(t)
      BY <1>12, ReturnRootStack, PhaseKind DEF TaskPhases
    <2>2. FrameGone(t, stack[t][1].id)
      BY <1>0, <2>1, PopFrames
    <2> QED
      BY <1>9, <1>12, <2>1, <2>2 DEF ReturnRoot
  <1>13. CASE WorkerYield(t)
    <2>1. Pushes(t, g) /\ ~IsTask(g)
      BY <1>13, WorkerYieldStack, PhaseKind DEF PickPhases
    <2>2. FramesMove(t, -1)
      BY <1>0, <2>1, PushFrames
    <2> QED
      BY <1>0, <1>13, <2>2, RunningMoves DEF WorkerYield
  <1>14. CASE PickLock(t)
    BY <1>1, <1>14, PickLockStack DEF PickLock
  <1>15. CASE PickTest(t)
    BY <1>1, <1>15, PickTestStack DEF PickTest
  <1>16. CASE PickRead(t)
    <2>1. Replaces(t, g) /\ GoesOn(stack[t][1], g)
      BY <1>16, PickReadStack
    <2>2. FramesMove(t, 0)
      BY <1>0, <2>1, ReplaceFrames
    <2> QED
      BY <1>0, <1>16, <2>2, RunningMoves DEF PickRead
  <1>17. CASE PickTake(t)
    BY <1>1, <1>17, PickTakeStack DEF PickTake
  <1>18. CASE PickCall(t)
    <2>1. /\ ReplacesAndPushes(t, f, g) /\ GoesOn(stack[t][1], f) /\ stack[t] # << >>
          /\ g.ph = "body" /\ g.id = stack[t][1].id
      BY <1>18, PickCallStack
    <2>2. IsTask(g) /\ Top(t) = stack[t][1]
      BY <2>1, PhaseKind, FrameAt DEF TaskPhases
    <2>3. FrameAdded(t, Top(t).id)
      BY <1>0, <2>1, <2>2, ReplacePushFrames
    <2>4. /\ Top(t).id \in Tasks /\ runs[Top(t).id] = 0
          /\ runs' = [runs EXCEPT ![Top(t).id] = @ + 1]
      BY <1>18, RunsSteps
    <2>5. finished' = finished
      BY <1>18 DEF PickCall
    <2> QED
      BY <1>0, <2>3, <2>4, <2>5, RunningAdds
  <1>19. CASE PickNext(t)
    <2>1. stack[t] # << >> /\ ~IsTask(stack[t][1])
      BY <1>19, PickNextStack, PhaseKind DEF PickPhases
    <2>2. CASE Replaces(t, g) /\ GoesOn(stack[t][1], g)
      <3>1. FramesMove(t, 0)
        BY <1>0, <2>2, ReplaceFrames
      <3> QED
        BY <1>0, <1>19, <3>1, RunningMoves DEF PickNext
    <2>3. CASE Pops(t)
      <3>1. FramesMove(t, 1)
        BY <1>0, <2>1, <2>3, PopFrames
      <3> QED
        BY <1>0, <1>19, <3>1, RunningMoves DEF PickNext
    <2> QED
      BY <1>19, <2>2, <2>3, PickNextStack
  <1> QED
    BY <1>2, <1>3, <1>4, <1>5, <1>6, <1>7, <1>8, <1>10, <1>11, <1>12, <1>13, <1>14,
       <1>15, <1>16, <1>17, <1>18, <1>19 DEF Step

-----------------------------------------------------------------------------
(* Pending work is counted exactly.                                        *)

LEMMA PendingKept ==
    ASSUME TypeOK, StackOK, Running, Stacks, Rings, PendingExact, NEW t \in Threads, Step(t)
    PROVE  PendingExact'
  <1> DEFINE L == Cardinality(Live)
             I == Cardinality(InTop("incr"))
             D == Cardinality(InTop("decr"))
  <1>0. Taking /\ Adding /\ StackOK' /\ Others(t)
    BY StackElsewhere DEF Rings
  <1>1. pending = L - I + D /\ L \in Nat /\ I \in Nat /\ D \in Nat
    BY FiniteSets DEF PendingExact
  <1>2. IsFiniteSet(Live) /\ IsFiniteSet(InTop("incr")) /\ IsFiniteSet(InTop("decr"))
    BY FiniteSets
  <1>3. /\ t \in InTop("incr") <=> CallIncr(t)
        /\ InTop("incr")' = IF CallPublish(t) THEN InTop("incr") \cup {t} ELSE InTop("incr") \ {t}
        /\ t \in InTop("decr") <=> PickCall(t)
        /\ InTop("decr")' = IF PickTake(t) THEN InTop("decr") \cup {t} ELSE InTop("decr") \ {t}
    <2>1. InPhase(t, "incr")' <=> CallPublish(t)
      BY <1>0, ToPhases
    <2>2. InPhase(t, "decr")' <=> PickTake(t)
      BY <1>0, ToPhases
    <2>3. (InPhase(t, "incr") <=> CallIncr(t)) /\ (InPhase(t, "decr") <=> PickCall(t))
      BY FromPhases
    <2> QED
      BY <1>0, <2>1, <2>2, <2>3, InTopKept
  <1>4. SUFFICES pending' = Cardinality(Live') - Cardinality(InTop("incr")') + Cardinality(InTop("decr")')
    BY DEF PendingExact
  <1>5. CASE CallPublish(t)
    <2>1. ~CallIncr(t) /\ ~PickTake(t) /\ ~PickCall(t) /\ pending' = pending
      BY <1>5 DEF CallPublish, CallIncr, PickTake, PickCall, InPhase
    <2>2. Cardinality(Live') = L + 1
      BY <1>2, <1>5, PublishRings, FS_AddElement
    <2>3. Cardinality(InTop("incr")') = I + 1
      BY <1>2, <1>3, <1>5, <2>1, FS_AddElement
    <2>4. InTop("decr")' = InTop("decr")
      BY <1>3, <2>1
    <2>5. Cardinality(InTop("decr")') = D
      BY <2>4
    <2> HIDE DEF L, I, D
    <2> QED
      BY <1>1, <2>1, <2>2, <2>3, <2>5
  <1>6. CASE CallIncr(t)
    <2>1. ~CallPublish(t) /\ ~PickTake(t) /\ ~PickCall(t) /\ pending' = pending + 1
      BY <1>6 DEF CallPublish, CallIncr, PickTake, PickCall, InPhase
    <2>2. Live' = Live
      BY <1>6 DEF CallIncr, Live, QueueSize, queue_vars
    <2>3. Cardinality(InTop("incr")') = I - 1
      BY <1>2, <1>3, <1>6, <2>1, FS_RemoveElement
    <2>4. InTop("decr")' = InTop("decr")
      BY <1>3, <2>1
    <2>5. Cardinality(InTop("decr")') = D /\ Cardinality(Live') = L
      BY <2>2, <2>4
    <2> HIDE DEF L, I, D
    <2> QED
      BY <1>1, <2>1, <2>3, <2>5
  <1>7. CASE PickTake(t)
    <2>1. ~CallPublish(t) /\ ~CallIncr(t) /\ ~PickCall(t) /\ pending' = pending
      BY <1>7 DEF CallPublish, CallIncr, PickTake, PickCall, InPhase
    <2>2. Cardinality(Live') = L - 1
      <3> DEFINE s == <<Visited(t), (tail[Visited(t)] + 1) % SIZE>>
      <3>1. Live' = Live \ {s} /\ s \in Live
        BY <1>7, TakeRings
      <3> HIDE DEF s
      <3> QED
        BY <1>2, <3>1, FS_RemoveElement
    <2>3. Cardinality(InTop("decr")') = D + 1
      BY <1>2, <1>3, <1>7, <2>1, FS_AddElement
    <2>4. InTop("incr")' = InTop("incr")
      BY <1>3, <2>1
    <2>5. Cardinality(InTop("incr")') = I
      BY <2>4
    <2> HIDE DEF L, I, D
    <2> QED
      BY <1>1, <2>1, <2>2, <2>3, <2>5
  <1>8. CASE PickCall(t)
    <2>1. ~CallPublish(t) /\ ~CallIncr(t) /\ ~PickTake(t) /\ pending' = pending - 1
      BY <1>8 DEF CallPublish, CallIncr, PickTake, PickCall, InPhase
    <2>2. Live' = Live
      BY <1>8 DEF PickCall, Live, QueueSize
    <2>3. Cardinality(InTop("decr")') = D - 1
      BY <1>2, <1>3, <1>8, <2>1, FS_RemoveElement
    <2>4. InTop("incr")' = InTop("incr")
      BY <1>3, <2>1
    <2>5. Cardinality(InTop("incr")') = I /\ Cardinality(Live') = L
      BY <2>2, <2>4
    <2> HIDE DEF L, I, D
    <2> QED
      BY <1>1, <2>1, <2>3, <2>5
  <1>9. CASE ~CallPublish(t) /\ ~CallIncr(t) /\ ~PickTake(t) /\ ~PickCall(t)
    <2>1. pending' = pending
      BY <1>9 DEF Step, CallEnqueue, CallInline, Join, JoinYield, JoinDone, ReturnInline,
         ReturnPicked, ReturnRoot, WorkerYield, PickLock, PickTest, PickRead, PickNext
    <2>2. Live' = Live
      BY <1>0, <1>9, LiveAtSame
    <2>3. InTop("incr")' = InTop("incr") /\ InTop("decr")' = InTop("decr")
      BY <1>3, <1>9
    <2> QED
      BY <1>1, <2>1, <2>2, <2>3
  <1> QED
    BY <1>5, <1>6, <1>7, <1>8, <1>9

-----------------------------------------------------------------------------
(* The subtasks which have been put in a ring, and not yet returned.       *)

Publishing(x) == \E u \in InTop("publish") : NextTask(u) = x
Called(t, x) == \E i \in 1 .. Len(stack[t]) : stack[t][i].ph = "called" /\ stack[t][i].id = x

LEMMA CalledIs ==
    ASSUME StackOK, Stacks, NEW t \in Threads, NEW x
    PROVE  Called(t, x) <=> \E i \in 1 .. Len(stack[t]) - 1 :
              IsTask(stack[t][i]) /\ stack[t][i].id = x /\ stack[t][i + 1].ph = "called"
  <1>0. Len(stack[t]) \in Nat /\ (stack[t] # << >> <=> Len(stack[t]) > 0)
    BY LengthCases DEF StackOK
  <1>1. ASSUME NEW i \in 1 .. Len(stack[t]) - 1, stack[t][i + 1].ph = "called"
        PROVE  IsTask(stack[t][i]) /\ stack[t][i].id = stack[t][i + 1].id
    <2>1. StandsOn(stack[t][i], stack[t][i + 1])
      BY ShapeIs DEF Stacks
    <2> QED
      BY <1>1, <2>1 DEF StandsOn
  <1>2. ASSUME NEW j \in 1 .. Len(stack[t]), stack[t][j].ph = "called"
        PROVE  j - 1 \in 1 .. Len(stack[t]) - 1 /\ (j - 1) + 1 = j
    <2>1. j # 1
      BY <1>0, <1>2 DEF Stacks, TopOK
    <2> QED
      BY <1>0, <2>1
  <1>3. ASSUME Called(t, x)
        PROVE  \E i \in 1 .. Len(stack[t]) - 1 :
              IsTask(stack[t][i]) /\ stack[t][i].id = x /\ stack[t][i + 1].ph = "called"
    <2>1. PICK j \in 1 .. Len(stack[t]) : stack[t][j].ph = "called" /\ stack[t][j].id = x
      BY <1>3 DEF Called
    <2>2. j - 1 \in 1 .. Len(stack[t]) - 1 /\ (j - 1) + 1 = j
      BY <1>2, <2>1
    <2>3. IsTask(stack[t][j - 1]) /\ stack[t][j - 1].id = x /\ stack[t][(j - 1) + 1].ph = "called"
      BY <1>1, <2>1, <2>2
    <2> QED
      BY <2>2, <2>3
  <1>4. ASSUME NEW i \in 1 .. Len(stack[t]) - 1, IsTask(stack[t][i]), stack[t][i].id = x,
               stack[t][i + 1].ph = "called"
        PROVE  Called(t, x)
    <2>1. i + 1 \in 1 .. Len(stack[t])
      BY <1>0
    <2> QED
      BY <1>1, <1>4, <2>1 DEF Called
  <1> QED
    BY <1>3, <1>4

LEMMA DispatchedIs ==
    ASSUME StackOK, Stacks, NEW x
    PROVE  Dispatched(x) <=> \/ Publishing(x) \/ LiveAt(x) # {} \/ DecrAt(x) # {}
                             \/ \E t \in Threads : Called(t, x)
  BY CalledIs DEF Dispatched, Publishing, LiveAt, DecrAt

LEMMA CalledReplace ==
    ASSUME StackOK, StackOK', NEW t \in Threads, NEW g, Replaces(t, g), g.ph # "called",
           stack[t][1].ph # "called", NEW x
    PROVE  Called(t, x)' <=> Called(t, x)
  <1>1. ASSUME NEW i \in 1 .. Len(stack[t])
        PROVE  (stack'[t][i].ph = "called" /\ stack'[t][i].id = x)
                   <=> (stack[t][i].ph = "called" /\ stack[t][i].id = x)
    <2>1. CASE i = 1
      BY <2>1 DEF Replaces
    <2>2. CASE i # 1
      <3>1. i \in 2 .. Len(stack[t])
        BY <2>2
      <3> QED
        BY <3>1 DEF Replaces
    <2> QED
      BY <2>1, <2>2
  <1>2. Len(stack'[t]) = Len(stack[t])
    BY DEF Replaces
  <1> QED
    BY <1>1, <1>2 DEF Called

LEMMA CalledPush ==
    ASSUME StackOK, StackOK', NEW t \in Threads, NEW g, Pushes(t, g), g.ph # "called", NEW x
    PROVE  Called(t, x)' <=> Called(t, x)
  <1>0. Len(stack[t]) \in Nat /\ Len(stack'[t]) = Len(stack[t]) + 1 /\ stack'[t][1] = g
    BY Lengths DEF Pushes
  <1>1. ASSUME NEW i \in 1 .. Len(stack[t]) PROVE i + 1 \in 1 .. Len(stack'[t]) /\ stack'[t][i + 1] = stack[t][i]
    BY <1>0 DEF Pushes
  <1>2. ASSUME NEW j \in 1 .. Len(stack'[t]), j # 1
        PROVE  j - 1 \in 1 .. Len(stack[t]) /\ stack'[t][j] = stack[t][j - 1]
    <2>1. j - 1 \in 1 .. Len(stack[t]) /\ (j - 1) + 1 = j
      BY <1>0, <1>2
    <2>2. stack'[t][(j - 1) + 1] = stack[t][j - 1]
      BY <1>1, <2>1
    <2> QED
      BY <2>1, <2>2
  <1>3. ASSUME Called(t, x)' PROVE Called(t, x)
    <2>1. PICK j \in 1 .. Len(stack'[t]) : stack'[t][j].ph = "called" /\ stack'[t][j].id = x
      BY <1>3 DEF Called
    <2> QED
      BY <1>0, <1>2, <2>1 DEF Called
  <1>4. ASSUME Called(t, x) PROVE Called(t, x)'
    <2>1. PICK i \in 1 .. Len(stack[t]) : stack[t][i].ph = "called" /\ stack[t][i].id = x
      BY <1>4 DEF Called
    <2> QED
      BY <1>0, <1>1, <2>1 DEF Called
  <1> QED
    BY <1>3, <1>4

LEMMA CalledReplacePush ==
    ASSUME StackOK, StackOK', NEW t \in Threads, NEW f, NEW g, ReplacesAndPushes(t, f, g),
           g.ph # "called", stack[t][1].ph # "called", NEW x
    PROVE  Called(t, x)' <=> Called(t, x) \/ (f.ph = "called" /\ f.id = x)
  <1>0. /\ Len(stack[t]) \in Nat /\ Len(stack[t]) > 0 /\ Len(stack'[t]) = Len(stack[t]) + 1
        /\ stack'[t][1] = g /\ stack'[t][2] = f
    BY Lengths DEF ReplacesAndPushes
  <1>1. ASSUME NEW i \in 1 .. Len(stack[t]), i # 1
        PROVE  i + 1 \in 1 .. Len(stack'[t]) /\ stack'[t][i + 1] = stack[t][i]
    <2>1. i \in 2 .. Len(stack[t]) /\ i + 1 \in 1 .. Len(stack'[t])
      BY <1>0, <1>1
    <2> QED
      BY <2>1 DEF ReplacesAndPushes
  <1>2. ASSUME NEW j \in 1 .. Len(stack'[t]), j # 1, j # 2
        PROVE  j - 1 \in 1 .. Len(stack[t]) /\ stack'[t][j] = stack[t][j - 1]
    <2>1. j - 1 \in 1 .. Len(stack[t]) /\ (j - 1) + 1 = j /\ j - 1 # 1
      BY <1>0, <1>2
    <2>2. stack'[t][(j - 1) + 1] = stack[t][j - 1]
      BY <1>1, <2>1
    <2> QED
      BY <2>1, <2>2
  <1>3. 2 \in 1 .. Len(stack'[t])
    BY <1>0
  <1>4. ASSUME Called(t, x)' PROVE Called(t, x) \/ (f.ph = "called" /\ f.id = x)
    <2>1. PICK j \in 1 .. Len(stack'[t]) : stack'[t][j].ph = "called" /\ stack'[t][j].id = x
      BY <1>4 DEF Called
    <2> QED
      BY <1>0, <1>2, <2>1 DEF Called
  <1>5. ASSUME Called(t, x) PROVE Called(t, x)'
    <2>1. PICK i \in 1 .. Len(stack[t]) : stack[t][i].ph = "called" /\ stack[t][i].id = x
      BY <1>5 DEF Called
    <2> QED
      BY <1>0, <1>1, <2>1 DEF Called
  <1>6. ASSUME f.ph = "called", f.id = x PROVE Called(t, x)'
    BY <1>0, <1>3, <1>6 DEF Called
  <1> QED
    BY <1>4, <1>5, <1>6

LEMMA CalledPop ==
    ASSUME StackOK, StackOK', NEW t \in Threads, Pops(t), stack[t][1].ph # "called", NEW x
    PROVE  Called(t, x)' <=> Called(t, x)
  <1>0. Len(stack[t]) \in Nat /\ Len(stack[t]) > 0 /\ Len(stack'[t]) = Len(stack[t]) - 1
    BY Lengths DEF Pops
  <1>1. ASSUME NEW i \in 1 .. Len(stack'[t]) PROVE i + 1 \in 1 .. Len(stack[t]) /\ stack'[t][i] = stack[t][i + 1]
    BY <1>0 DEF Pops
  <1>2. ASSUME NEW j \in 1 .. Len(stack[t]), j # 1
        PROVE  j - 1 \in 1 .. Len(stack'[t]) /\ stack'[t][j - 1] = stack[t][j]
    <2>1. j - 1 \in 1 .. Len(stack'[t]) /\ (j - 1) + 1 = j
      BY <1>0, <1>2
    <2>2. stack'[t][j - 1] = stack[t][(j - 1) + 1]
      BY <1>1, <2>1
    <2> QED
      BY <2>1, <2>2
  <1>3. ASSUME Called(t, x)' PROVE Called(t, x)
    <2>1. PICK j \in 1 .. Len(stack'[t]) : stack'[t][j].ph = "called" /\ stack'[t][j].id = x
      BY <1>3 DEF Called
    <2> QED
      BY <1>0, <1>1, <2>1 DEF Called
  <1>4. ASSUME Called(t, x) PROVE Called(t, x)'
    <2>1. PICK i \in 1 .. Len(stack[t]) : stack[t][i].ph = "called" /\ stack[t][i].id = x
      BY <1>4 DEF Called
    <2> QED
      BY <1>0, <1>2, <2>1 DEF Called
  <1> QED
    BY <1>3, <1>4

LEMMA CalledPopReplace ==
    ASSUME StackOK, StackOK', NEW t \in Threads, NEW g, PopsAndReplaces(t, g),
           g.ph # "called", stack[t][1].ph # "called", NEW x
    PROVE  /\ Called(t, x)' => Called(t, x)
           /\ Called(t, x) => Called(t, x)' \/ x = stack[t][2].id
           /\ stack[t][2].ph = "called" => Called(t, stack[t][2].id)
  <1>0. /\ Len(stack[t]) \in Nat /\ Len(stack[t]) > 1 /\ Len(stack'[t]) = Len(stack[t]) - 1
        /\ stack'[t][1] = g
    BY Lengths DEF PopsAndReplaces
  <1>1. ASSUME NEW i \in 1 .. Len(stack'[t]), i # 1
        PROVE  i + 1 \in 1 .. Len(stack[t]) /\ stack'[t][i] = stack[t][i + 1]
    <2>1. i \in 2 .. Len(stack'[t]) /\ i + 1 \in 1 .. Len(stack[t])
      BY <1>0, <1>1
    <2> QED
      BY <2>1 DEF PopsAndReplaces
  <1>2. ASSUME NEW j \in 1 .. Len(stack[t]), j # 1, j # 2
        PROVE  j - 1 \in 1 .. Len(stack'[t]) /\ stack'[t][j - 1] = stack[t][j]
    <2>1. j - 1 \in 1 .. Len(stack'[t]) /\ (j - 1) + 1 = j /\ j - 1 # 1
      BY <1>0, <1>2
    <2>2. stack'[t][j - 1] = stack[t][(j - 1) + 1]
      BY <1>1, <2>1
    <2> QED
      BY <2>1, <2>2
  <1>3. 2 \in 1 .. Len(stack[t])
    BY <1>0
  <1>4. ASSUME Called(t, x)' PROVE Called(t, x)
    <2>1. PICK j \in 1 .. Len(stack'[t]) : stack'[t][j].ph = "called" /\ stack'[t][j].id = x
      BY <1>4 DEF Called
    <2> QED
      BY <1>0, <1>1, <2>1 DEF Called
  <1>5. ASSUME Called(t, x) PROVE Called(t, x)' \/ x = stack[t][2].id
    <2>1. PICK i \in 1 .. Len(stack[t]) : stack[t][i].ph = "called" /\ stack[t][i].id = x
      BY <1>5 DEF Called
    <2> QED
      BY <1>0, <1>2, <2>1 DEF Called
  <1>6. stack[t][2].ph = "called" => Called(t, stack[t][2].id)
    BY <1>3 DEF Called
  <1> QED
    BY <1>4, <1>5, <1>6

LEMMA CalledSteps ==
    ASSUME TypeOK, StackOK, Taking, Running, Stacks, NEW t \in Threads, Step(t), NEW x
    PROVE  /\ \A u \in Threads \ {t} : Called(u, x)' <=> Called(u, x)
           /\ PickCall(t) => (Called(t, x)' <=> Called(t, x) \/ x = Top(t).id)
           /\ ReturnPicked(t) => /\ Called(t, x)' => Called(t, x)
                                 /\ Called(t, x) => Called(t, x)' \/ x = Top(t).id
                                 /\ Called(t, Top(t).id)
           /\ ~PickCall(t) /\ ~ReturnPicked(t) => (Called(t, x)' <=> Called(t, x))
  <1>0. StackOK' /\ Others(t)
    BY StackElsewhere
  <1>1. \A u \in Threads \ {t} : Called(u, x)' <=> Called(u, x)
    BY <1>0 DEF Others, Called
  <1>2. ASSUME NEW ph, Goes(t, ph), ph # "called" PROVE Called(t, x)' <=> Called(t, x)
    <2>1. stack[t][1].ph # "called"
      BY <1>2 DEF Goes, Replaces, Stacks, TopOK
    <2> QED
      BY <1>0, <1>2, <2>1, CalledReplace DEF Goes
  <1>3. stack[t] # << >> => stack[t][1].ph # "called"
    BY DEF Stacks, TopOK
  <1> DEFINE f == stack'[t][2]
             g == stack'[t][1]
  <1>4. ASSUME CallEnqueue(t) \/ CallPublish(t) \/ CallIncr(t) \/ JoinDone(t) \/ PickLock(t)
               \/ PickTest(t) \/ PickTake(t)
        PROVE  Called(t, x)' <=> Called(t, x)
    BY <1>2, <1>4, CallEnqueueStack, CallPublishStack, CallIncrStack, JoinDoneStack,
       PickLockStack, PickTestStack, PickTakeStack
  <1>5. ASSUME Join(t) PROVE Called(t, x)' <=> Called(t, x)
    <2>1. Goes(t, IF guard[stack[t][1].id] # 0 THEN "yield" ELSE "ret")
      BY <1>5, JoinStack
    <2> QED
      BY <1>2, <2>1
  <1>6. ASSUME CallInline(t) \/ WorkerYield(t) PROVE Called(t, x)' <=> Called(t, x)
    <2>1. Pushes(t, g) /\ g.ph # "called"
      BY <1>6, CallInlineStack, WorkerYieldStack
    <2> QED
      BY <1>0, <2>1, CalledPush
  <1>7. ASSUME JoinYield(t) PROVE Called(t, x)' <=> Called(t, x)
    <2>1. CASE Goes(t, "block")
      BY <1>2, <2>1
    <2>2. CASE ReplacesAndPushes(t, f, g) /\ f.ph = "block" /\ g.ph = "lock"
      BY <1>0, <1>3, <2>2, CalledReplacePush DEF ReplacesAndPushes
    <2> QED
      BY <1>7, <2>1, <2>2, JoinYieldStack
  <1>8. ASSUME ReturnInline(t) \/ ReturnRoot(t) PROVE Called(t, x)' <=> Called(t, x)
    <2>1. Pops(t)
      BY <1>8, ReturnInlineStack, ReturnRootStack
    <2> QED
      BY <1>0, <1>3, <2>1, CalledPop DEF Pops
  <1>9. ASSUME PickRead(t) PROVE Called(t, x)' <=> Called(t, x)
    <2>1. Replaces(t, g) /\ g.ph = "take"
      BY <1>9, PickReadStack
    <2> QED
      BY <1>0, <1>3, <2>1, CalledReplace DEF Replaces
  <1>10. ASSUME PickNext(t) PROVE Called(t, x)' <=> Called(t, x)
    <2>1. CASE Replaces(t, g) /\ g.ph = "lock"
      BY <1>0, <1>3, <2>1, CalledReplace DEF Replaces
    <2>2. CASE Pops(t)
      BY <1>0, <1>3, <2>2, CalledPop DEF Pops
    <2> QED
      BY <1>10, <2>1, <2>2, PickNextStack
  <1>11. ASSUME PickCall(t) PROVE Called(t, x)' <=> Called(t, x) \/ x = Top(t).id
    <2>1. /\ ReplacesAndPushes(t, f, g) /\ f.ph = "called" /\ f.id = stack[t][1].id
          /\ g.ph = "body" /\ stack[t] # << >>
      BY <1>11, PickCallStack
    <2>2. Called(t, x)' <=> Called(t, x) \/ f.id = x
      BY <1>0, <1>3, <2>1, CalledReplacePush
    <2>3. f.id = Top(t).id
      BY <2>1, FrameAt
    <2> QED
      BY <2>2, <2>3
  <1>12. ASSUME ReturnPicked(t)
         PROVE  /\ Called(t, x)' => Called(t, x)
                /\ Called(t, x) => Called(t, x)' \/ x = Top(t).id
                /\ Called(t, Top(t).id)
    <2>1. /\ PopsAndReplaces(t, g) /\ g.ph = "lock" /\ stack[t] # << >> /\ stack[t][1].ph = "ret"
          /\ Len(stack[t]) > 1 /\ stack[t][2].ph = "called"
      BY <1>12, ReturnPickedStack
    <2>2. 1 \in 1 .. Len(stack[t]) - 1 /\ 1 + 1 = 2 /\ IsTask(stack[t][1])
      BY <2>1, FrameAt, PhaseKind DEF TaskPhases
    <2>3. StandsOn(stack[t][1], stack[t][2])
      BY <2>2, ShapeIs DEF Stacks
    <2>4. stack[t][2].id = Top(t).id
      BY <2>1, <2>2, <2>3, FrameAt DEF StandsOn
    <2>5. /\ Called(t, x)' => Called(t, x)
          /\ Called(t, x) => Called(t, x)' \/ x = stack[t][2].id
          /\ Called(t, stack[t][2].id)
      BY <1>0, <2>1, CalledPopReplace
    <2> QED
      BY <2>4, <2>5
  <1> QED
    BY <1>1, <1>4, <1>5, <1>6, <1>7, <1>8, <1>9, <1>10, <1>11, <1>12 DEF Step

LEMMA PublishingSteps ==
    ASSUME TypeOK, StackOK, Taking, Running, Stacks, NEW t \in Threads, Step(t), NEW x
    PROVE  /\ CallEnqueue(t) => (Publishing(x)' <=> Publishing(x) \/ x = NextTask(t))
           /\ CallPublish(t) => (Publishing(x) <=> Publishing(x)' \/ x = NextTask(t))
           /\ ~CallEnqueue(t) /\ ~CallPublish(t) => (Publishing(x)' <=> Publishing(x))
  <1> DEFINE Elsewhere == \E u \in InTop("publish") : u # t /\ NextTask(u) = x
  <1>0. StackOK' /\ Others(t)
    BY StackElsewhere
  <1>1. ASSUME NEW u \in Threads, u # t, u \in InTop("publish")
        PROVE  u \in InTop("publish")' /\ NextTask(u)' = NextTask(u)
    <2>1. stack[u] # << >> /\ IsTask(stack[u][1])
      BY <1>1, FrameAt, PhaseKind DEF InTop, InPhase, TaskPhases
    <2> QED
      BY <1>0, <1>1, <2>1, NextElsewhere, InTopKept
  <1>2. ASSUME NEW u \in Threads, u # t, u \in InTop("publish")'
        PROVE  u \in InTop("publish")
    BY <1>0, <1>2, InTopKept
  <1>3. InTop("publish") \subseteq Threads /\ InTop("publish")' \subseteq Threads
    BY DEF InTop
  <1>4. (\E u \in InTop("publish")' : u # t /\ NextTask(u)' = x) <=> Elsewhere
    BY <1>1, <1>2, <1>3
  <1>5. /\ t \in InTop("publish") <=> CallPublish(t)
        /\ t \in InTop("publish")' <=> CallEnqueue(t)
    BY FromPhases, ToPhases DEF InTop
  <1>6. CallEnqueue(t) => NextTask(t)' = NextTask(t)
    <2>1. SUFFICES ASSUME CallEnqueue(t) PROVE NextTask(t)' = NextTask(t)
      OBVIOUS
    <2>2. Goes(t, "publish") /\ issued' = issued /\ stack[t] # << >>
      BY <2>1, CallEnqueueStack DEF CallEnqueue, Goes, Replaces
    <2>3. Top(t)'.id = Top(t).id
      BY <1>0, <2>2, FrameAt DEF Goes, Replaces, Top, StackOK
    <2> QED
      BY <2>2, <2>3 DEF NextTask
  <1>7. CallEnqueue(t) => ~CallPublish(t)
    BY DEF CallEnqueue, CallPublish, InPhase
  <1>8. Publishing(x) <=> Elsewhere \/ (CallPublish(t) /\ NextTask(t) = x)
    BY <1>5 DEF Publishing
  <1>9. Publishing(x)' <=> Elsewhere \/ (CallEnqueue(t) /\ NextTask(t) = x)
    BY <1>4, <1>5, <1>6 DEF Publishing
  <1> HIDE DEF Elsewhere
  <1> QED
    BY <1>7, <1>8, <1>9

\* The same after a step as DispatchedIs says before it.
LEMMA DispatchedNext ==
    ASSUME TypeOK, StackOK, Taking, Running, Stacks, NEW t \in Threads, Step(t), NEW x
    PROVE  Dispatched(x)' <=> \/ Publishing(x)' \/ LiveAt(x)' # {} \/ DecrAt(x)' # {}
                              \/ \E u \in Threads : Called(u, x)'
  <1>0. StackOK' /\ Stacks'
    BY StacksKept, StackElsewhere
  <1>1. ASSUME NEW u \in Threads
        PROVE  Called(u, x)' <=> \E i \in 1 .. Len(stack'[u]) - 1 :
              IsTask(stack'[u][i]) /\ stack'[u][i].id = x /\ stack'[u][i + 1].ph = "called"
    <2>0. Len(stack'[u]) \in Nat /\ (stack'[u] # << >> <=> Len(stack'[u]) > 0)
      BY <1>0, LengthCases DEF StackOK
    <2>1. ASSUME NEW i \in 1 .. Len(stack'[u]) - 1, stack'[u][i + 1].ph = "called"
          PROVE  IsTask(stack'[u][i]) /\ stack'[u][i].id = stack'[u][i + 1].id
      BY <1>0, <2>1 DEF Stacks, Shape
    <2>2. ASSUME NEW j \in 1 .. Len(stack'[u]), stack'[u][j].ph = "called"
          PROVE  j - 1 \in 1 .. Len(stack'[u]) - 1 /\ (j - 1) + 1 = j
      <3>1. j # 1
        BY <1>0, <2>0, <2>2 DEF Stacks, TopOK
      <3> QED
        BY <2>0, <3>1
    <2>3. ASSUME Called(u, x)'
          PROVE  \E i \in 1 .. Len(stack'[u]) - 1 :
                IsTask(stack'[u][i]) /\ stack'[u][i].id = x /\ stack'[u][i + 1].ph = "called"
      <3>1. PICK j \in 1 .. Len(stack'[u]) : stack'[u][j].ph = "called" /\ stack'[u][j].id = x
        BY <2>3 DEF Called
      <3>2. j - 1 \in 1 .. Len(stack'[u]) - 1 /\ (j - 1) + 1 = j
        BY <2>2, <3>1
      <3>3. IsTask(stack'[u][j - 1]) /\ stack'[u][j - 1].id = x /\ stack'[u][(j - 1) + 1].ph = "called"
        BY <2>1, <3>1, <3>2
      <3> QED
        BY <3>2, <3>3
    <2>4. ASSUME NEW i \in 1 .. Len(stack'[u]) - 1, IsTask(stack'[u][i]), stack'[u][i].id = x,
                 stack'[u][i + 1].ph = "called"
          PROVE  Called(u, x)'
      <3>1. i + 1 \in 1 .. Len(stack'[u])
        BY <2>0
      <3> QED
        BY <2>1, <2>4, <3>1 DEF Called
    <2> QED
      BY <2>3, <2>4
  <1> QED
    BY <1>1 DEF Dispatched, Publishing, LiveAt, DecrAt, IsTask

LEMMA DispatchedSteps ==
    ASSUME TypeOK, StackOK, Running, Stacks, Rings, NEW t \in Threads, Step(t), NEW x
    PROVE  /\ CallEnqueue(t) => (Dispatched(x)' <=> Dispatched(x) \/ x = NextTask(t))
           /\ ReturnPicked(t) => /\ Dispatched(Top(t).id)
                                 /\ x # Top(t).id => (Dispatched(x)' <=> Dispatched(x))
           /\ ~CallEnqueue(t) /\ ~ReturnPicked(t) => (Dispatched(x)' <=> Dispatched(x))
  <1> DEFINE SomeCalled(y) == \E u \in Threads : Called(u, y)
  <1>0. Taking
    BY DEF Rings
  <1>1. Dispatched(x) <=> Publishing(x) \/ LiveAt(x) # {} \/ DecrAt(x) # {} \/ SomeCalled(x)
    BY DispatchedIs
  <1>2. Dispatched(x)' <=> Publishing(x)' \/ LiveAt(x)' # {} \/ DecrAt(x)' # {}
                           \/ \E u \in Threads : Called(u, x)'
    BY <1>0, DispatchedNext
  <1>3. ASSUME NEW c \in BOOLEAN, Called(t, x)' <=> Called(t, x) \/ c
        PROVE  (\E u \in Threads : Called(u, x)') <=> SomeCalled(x) \/ c
    BY <1>0, <1>3, CalledSteps
  <1>4. ASSUME ~PickCall(t), ~ReturnPicked(t)
        PROVE  (\E u \in Threads : Called(u, x)') <=> SomeCalled(x)
    BY <1>0, <1>4, CalledSteps
  <1>5. CASE CallEnqueue(t)
    <2>1. /\ ~CallPublish(t) /\ ~PickTake(t) /\ ~PickCall(t) /\ ~ReturnPicked(t)
      BY <1>5 DEF CallEnqueue, CallPublish, PickTake, PickCall, ReturnPicked, InPhase
    <2>2. LiveAt(x)' = LiveAt(x) /\ DecrAt(x)' = DecrAt(x)
      BY <1>0, <2>1, LiveAtSame, DecrSteps
    <2>3. Publishing(x)' <=> Publishing(x) \/ x = NextTask(t)
      BY <1>0, <1>5, PublishingSteps
    <2> HIDE DEF SomeCalled
    <2> QED
      BY <1>1, <1>2, <1>4, <1>5, <2>1, <2>2, <2>3
  <1>6. CASE CallPublish(t)
    <2> DEFINE s == <<CallQueue(t), head[CallQueue(t)]>>
    <2>1. ~CallEnqueue(t) /\ ~PickTake(t) /\ ~PickCall(t) /\ ~ReturnPicked(t)
      BY <1>6 DEF CallEnqueue, CallPublish, PickTake, PickCall, ReturnPicked, InPhase
    <2>2. DecrAt(x)' = DecrAt(x)
      BY <1>0, <2>1, DecrSteps
    <2>3. Publishing(x) <=> Publishing(x)' \/ x = NextTask(t)
      BY <1>0, <1>6, PublishingSteps
    <2>4. /\ Live' = Live \cup {s} /\ call_arr' = call_arr /\ call_arr[s[1]][s[2]] = NextTask(t)
      BY <1>6, PublishRings DEF CallPublish
    <2> HIDE DEF s, SomeCalled
    <2>5. LiveAt(x)' = IF x = NextTask(t) THEN LiveAt(x) \cup {s} ELSE LiveAt(x)
      BY <2>4 DEF LiveAt
    <2> QED
      BY <1>1, <1>2, <1>4, <2>1, <2>2, <2>3, <2>5
  <1>7. CASE PickTake(t)
    <2> DEFINE s == <<Visited(t), (tail[Visited(t)] + 1) % SIZE>>
    <2>1. ~CallEnqueue(t) /\ ~CallPublish(t) /\ ~PickCall(t) /\ ~ReturnPicked(t)
      BY <1>7 DEF CallEnqueue, CallPublish, PickTake, PickCall, ReturnPicked, InPhase
    <2>2. DecrAt(x)' = IF Top(t).id = x THEN DecrAt(x) \cup {t} ELSE DecrAt(x)
      BY <1>0, <1>7, DecrSteps
    <2>3. Publishing(x) <=> Publishing(x)'
      BY <1>0, <2>1, PublishingSteps
    <2>4. /\ Live' = Live \ {s} /\ s \in Live /\ call_arr' = call_arr
          /\ call_arr[s[1]][s[2]] = Top(t).id
      BY <1>7, TakeRings DEF PickTake
    <2> HIDE DEF s, SomeCalled
    <2>5. /\ x = Top(t).id => LiveAt(x) # {}
          /\ x # Top(t).id => LiveAt(x)' = LiveAt(x)
      BY <2>4 DEF LiveAt
    <2> QED
      BY <1>1, <1>2, <1>4, <2>1, <2>2, <2>3, <2>5
  <1>8. CASE PickCall(t)
    <2>1. ~CallEnqueue(t) /\ ~CallPublish(t) /\ ~PickTake(t) /\ ~ReturnPicked(t)
      BY <1>8 DEF CallEnqueue, CallPublish, PickTake, PickCall, ReturnPicked, InPhase
    <2>2. LiveAt(x)' = LiveAt(x) /\ (Publishing(x) <=> Publishing(x)')
      BY <1>0, <2>1, PublishingSteps, LiveAtSame
    <2>3. (t \in DecrAt(x) <=> Top(t).id = x) /\ DecrAt(x)' = DecrAt(x) \ {t}
      BY <1>0, <1>8, DecrSteps
    <2>4. (\E u \in Threads : Called(u, x)') <=> SomeCalled(x) \/ x = Top(t).id
      BY <1>0, <1>8, CalledSteps
    <2> HIDE DEF SomeCalled
    <2> QED
      BY <1>1, <1>2, <2>1, <2>2, <2>3, <2>4
  <1>9. CASE ReturnPicked(t)
    <2>1. ~CallEnqueue(t) /\ ~CallPublish(t) /\ ~PickTake(t) /\ ~PickCall(t)
      BY <1>9 DEF CallEnqueue, CallPublish, PickTake, PickCall, ReturnPicked, InPhase
    <2>2. LiveAt(x)' = LiveAt(x) /\ DecrAt(x)' = DecrAt(x) /\ (Publishing(x) <=> Publishing(x)')
      BY <1>0, <2>1, PublishingSteps, LiveAtSame, DecrSteps
    <2>3. x # Top(t).id => ((\E u \in Threads : Called(u, x)') <=> SomeCalled(x))
      BY <1>0, <1>9, CalledSteps
    <2>4. Called(t, Top(t).id)
      BY <1>0, <1>9, CalledSteps
    <2>5. Dispatched(Top(t).id)
      BY <2>4, DispatchedIs
    <2> HIDE DEF SomeCalled
    <2> QED
      BY <1>1, <1>2, <1>9, <2>1, <2>2, <2>3, <2>5
  <1>10. CASE ~CallEnqueue(t) /\ ~CallPublish(t) /\ ~PickTake(t) /\ ~PickCall(t) /\ ~ReturnPicked(t)
    <2>1. /\ LiveAt(x)' = LiveAt(x) /\ DecrAt(x)' = DecrAt(x) /\ (Publishing(x) <=> Publishing(x)')
      BY <1>0, <1>10, PublishingSteps, LiveAtSame, DecrSteps
    <2> HIDE DEF SomeCalled
    <2> QED
      BY <1>1, <1>2, <1>4, <1>10, <2>1
  <1> QED
    BY <1>5, <1>6, <1>7, <1>8, <1>9, <1>10

-----------------------------------------------------------------------------
(* The join: what the guard of a task counts.                              *)

LEMMA ParentIs ==
    ASSUME NEW p \in Tasks, NEW k \in DOMAIN Children[p], NEW y, y = Children[p][k]
    PROVE  /\ y \in Tasks \ {Root} /\ y \in Range(Children[p]) /\ Parent(y) = p
           /\ \A x \in Tasks : y \in Range(Children[x]) => x = p
  <1>1. y \in Tasks /\ y \in Range(Children[p])
    BY Positions DEF Range
  <1>2. y # Root
    BY <1>1, TreeAssumption
  <1>3. \A x \in Tasks : y \in Range(Children[x]) => x = p
    BY TreeAssumption DEF Range
  <1>4. Parent(y) = p
    BY <1>1, <1>3 DEF Parent
  <1> QED
    BY <1>1, <1>2, <1>3, <1>4

LEMMA ChildrenFinite ==
    ASSUME NEW x \in Tasks
    PROVE  IsFiniteSet(Range(Children[x])) /\ Range(Children[x]) \subseteq Tasks \ {Root}
  <1>1. Children[x] \in Seq(Tasks)
    BY Positions
  <1>2. DOMAIN Children[x] = 1 .. Len(Children[x]) /\ Len(Children[x]) \in Nat
    BY <1>1
  <1>3. Children[x] \in [DOMAIN Children[x] -> Range(Children[x])]
    BY <1>1 DEF Range
  <1>4. Children[x] \in Surjection(DOMAIN Children[x], Range(Children[x]))
    BY <1>3 DEF Surjection, Range
  <1>5. IsFiniteSet(DOMAIN Children[x])
    <2>1. 1 \in Int /\ Len(Children[x]) \in Int
      BY <1>2
    <2> QED
      BY <1>2, <2>1, FS_Interval
  <1>6. Range(Children[x]) \subseteq Tasks
    BY <1>1 DEF Range
  <1>7. Root \notin Range(Children[x])
    BY TreeAssumption
  <1> QED
    BY <1>4, <1>5, <1>6, <1>7, FS_Surjection

LEMMA OutstandingFinite ==
    ASSUME NEW x \in Tasks
    PROVE  /\ IsFiniteSet(Outstanding(x)) /\ Cardinality(Outstanding(x)) \in Nat
           /\ Outstanding(x) \subseteq Range(Children[x])
  <1>1. Outstanding(x) \subseteq Range(Children[x])
    BY DEF Outstanding
  <1>2. IsFiniteSet(Outstanding(x))
    BY <1>1, ChildrenFinite, FS_Subset
  <1> QED
    BY <1>1, <1>2, FS_CardinalityType

\* A guard is a natural number because of what it counts.
LEMMA GuardNat ==
    ASSUME VarTypes', GuardExact'
    PROVE  TypeOK'
  <1>1. ASSUME NEW x \in Tasks PROVE guard'[x] \in Nat
    <2>1. Outstanding(x)' \subseteq Range(Children[x])
      BY DEF Outstanding
    <2>2. IsFiniteSet(Outstanding(x)')
      BY <2>1, ChildrenFinite, FS_Subset
    <2>3. Cardinality(Outstanding(x)') \in Nat
      BY <2>2, FS_CardinalityType
    <2>4. guard'[x] = Cardinality(Outstanding(x)')
      BY DEF GuardExact
    <2> QED
      BY <2>3, <2>4
  <1>2. guard' \in [Tasks -> Nat]
    BY <1>1 DEF VarTypes
  <1> QED
    BY <1>2 DEF VarTypes, TypeOK

\* Only the root task stands on nothing.
LEMMA RootOutermost ==
    ASSUME TypeOK, StackOK, Running, Bottoms, MainDone, NEW t \in Threads,
           NEW i \in 1 .. Len(stack[t]), IsTask(stack[t][i])
    PROVE  stack[t][i].id # Root <=> i \in 1 .. Len(stack[t]) - 1
  <1>0. Len(stack[t]) \in Nat /\ Len(stack[Main]) \in Nat /\ Main \in Threads
    BY LengthCases DEF StackOK, Threads
  <1>1. i \in Nat /\ IsFrame(t, i) /\ stack[t] # << >>
    <2>1. i \in Nat /\ Len(stack[t]) > 0
      BY <1>0
    <2> QED
      BY <2>1, LengthCases DEF IsFrame, StackOK
  <1>2. ASSUME stack[t][i].id = Root PROVE t = Main /\ i = Len(stack[Main])
    <2>1. Root \notin finished
      BY <1>1, <1>2 DEF Running
    <2>2. stack[Main] # << >>
      BY <2>1 DEF MainDone
    <2>3. Len(stack[Main]) > 0
      BY <1>0, <2>2, LengthCases DEF StackOK
    <2>4. IsFrame(Main, Len(stack[Main])) /\ stack[Main][Len(stack[Main])].id = Root
      <3>1. Len(stack[Main]) \in 1 .. Len(stack[Main])
        BY <1>0, <2>3
      <3> QED
        BY <2>2, <3>1 DEF Bottoms, IsFrame
    <2> QED
      BY <1>0, <1>1, <1>2, <2>4 DEF Running
  <1>3. ASSUME i = Len(stack[t]) PROVE stack[t][i].id = Root
    <2>1. CASE t \in Workers
      BY <1>1, <1>3, <2>1 DEF Bottoms
    <2>2. CASE t = Main
      BY <1>1, <1>3, <2>2 DEF Bottoms
    <2> QED
      BY <2>1, <2>2 DEF Threads
  <1>4. i \in 1 .. Len(stack[t]) - 1 <=> i # Len(stack[t])
    BY <1>0
  <1> QED
    BY <1>2, <1>3, <1>4

\* When a task has scheduled all and its guard is zero, all have returned.
LEMMA JoinAll ==
    ASSUME TypeOK, StackOK, Running, Stacks, EachOnce, Bottoms, MainDone, GuardExact,
           NEW t \in Threads, stack[t] # << >>, IsTask(stack[t][1]),
           issued[stack[t][1].id] = Len(Children[stack[t][1].id]), guard[stack[t][1].id] = 0
    PROVE  Range(Children[stack[t][1].id]) \subseteq finished
  <1>1. PICK x \in Tasks : x = stack[t][1].id
    BY TopTyped
  <1>2. Outstanding(x) = {}
    <2>1. Cardinality(Outstanding(x)) = 0
      BY <1>1 DEF GuardExact
    <2> QED
      BY <2>1, OutstandingFinite, FS_EmptySet
  <1>3. SUFFICES ASSUME NEW y \in Range(Children[x]), y \notin finished PROVE FALSE
    BY <1>1
  <1>4. ~Dispatched(y)
    BY <1>2, <1>3 DEF Outstanding
  <1>5. PICK k \in DOMAIN Children[x] : y = Children[x][k]
    BY DEF Range
  <1>6. y \in Tasks \ {Root} /\ (\A p \in Tasks : y \in Range(Children[p]) => p = x)
    BY <1>5, ParentIs
  <1>7. Scheduled(y)
    <2>1. Children[x] \in Seq(Tasks) /\ k \in 1 .. Len(Children[x])
      BY <1>5, Positions
    <2>2. k <= issued[x]
      BY <1>1, <2>1
    <2> QED
      BY <1>5, <2>2 DEF Scheduled
  <1>8. LiveAt(y) = {} /\ DecrAt(y) = {}
    BY <1>4 DEF Dispatched, LiveAt, DecrAt
  <1>9. runs[y] # 0
    BY <1>6, <1>7, <1>8, OnceSays
  <1>10. PICK u \in Threads : \E i \in Nat : IsFrame(u, i) /\ stack[u][i].id = y
    BY <1>3, <1>6, <1>9 DEF Running
  <1>11. PICK i \in Nat : IsFrame(u, i) /\ stack[u][i].id = y
    BY <1>10
  <1>12. i \in 1 .. Len(stack[u]) - 1 /\ IsTask(stack[u][i])
    BY <1>6, <1>11, RootOutermost DEF IsFrame
  <1>13. StandsOn(stack[u][i], stack[u][i + 1])
    BY <1>12, ShapeIs DEF Stacks
  <1>14. stack[u][i + 1].ph # "called"
    BY <1>4, <1>11, <1>12 DEF Dispatched
  <1>15. stack[u][i + 1].ph = "body" /\ y \in Range(Children[stack[u][i + 1].id])
    BY <1>11, <1>12, <1>13, <1>14 DEF StandsOn, Range
  <1>16. IsFrame(u, i + 1) /\ i + 1 \in Nat /\ i + 1 # 1
    <2>1. Len(stack[u]) \in Nat
      BY LengthCases DEF StackOK
    <2>2. i + 1 \in 1 .. Len(stack[u]) /\ i + 1 # 1 /\ i + 1 \in Nat
      BY <1>12, <2>1
    <2> QED
      BY <1>15, <2>2, PhaseKind DEF IsFrame, TaskPhases
  <1>17. stack[u][i + 1].id = x
    <2>1. stack[u][i + 1] \in Frames
      BY <1>16 DEF IsFrame, StackOK
    <2>2. stack[u][i + 1].id \in Tasks
      BY <1>16, <2>1, FrameKinds DEF IsFrame, TaskFrames
    <2> QED
      BY <1>6, <1>15, <2>2
  <1>18. IsFrame(t, 1) /\ 1 \in Nat
    BY FrameAt DEF IsFrame
  <1> QED
    BY <1>1, <1>16, <1>17, <1>18 DEF Running

LEMMA NotCalledYet ==
    ASSUME TypeOK, StackOK, Running, EachOnce, Adding, NEW t \in Threads, InPhase(t, "body"), MoreToCall(t)
    PROVE  ~Dispatched(NextTask(t)) /\ NextTask(t) \notin finished
  <1>1. /\ NextTask(t) \in Tasks \ {Root} /\ ~Scheduled(NextTask(t))
        /\ \A u \in InTop("publish") : MoreToCall(u) /\ NextTask(u) = NextTask(t) => u = t
    BY NextNotScheduled
  <1>2. LiveAt(NextTask(t)) = {} /\ DecrAt(NextTask(t)) = {} /\ runs[NextTask(t)] = 0
    BY <1>1, OnceSays
  <1>3. NextTask(t) \notin finished
    BY <1>2 DEF Running
  <1>4. t \notin InTop("publish")
    BY DEF InTop, InPhase
  <1>5. ASSUME NEW u \in Threads, NEW i \in 1 .. Len(stack[u]) - 1,
               IsTask(stack[u][i]), stack[u][i].id = NextTask(t)
        PROVE  FALSE
    <2>1. i \in Nat /\ IsFrame(u, i)
      <3>1. Len(stack[u]) \in Nat
        BY LengthCases DEF StackOK
      <3> QED
        BY <1>5, <3>1 DEF IsFrame
    <2> QED
      BY <1>2, <1>5, <2>1 DEF Running
  <1>6. ASSUME NEW u \in InTop("publish"), NextTask(u) = NextTask(t) PROVE MoreToCall(u)
    BY DEF InTop, Adding
  <1> QED
    BY <1>1, <1>2, <1>3, <1>4, <1>5, <1>6 DEF Dispatched, LiveAt, DecrAt

\* A task called on the spot is in no ring.
LEMMA CalledInline ==
    ASSUME TypeOK, StackOK, Running, Stacks, EachOnce, Adding, Bottoms, MainDone,
           NEW t \in Threads, stack[t] # << >>, IsTask(stack[t][1]), Len(stack[t]) > 1,
           stack[t][2].ph = "body"
    PROVE  /\ ~Dispatched(stack[t][1].id)
           /\ \E p \in Tasks : \E k \in DOMAIN Children[p] : stack[t][1].id = Children[p][k]
  <1> DEFINE y == stack[t][1].id
  <1>0. Len(stack[t]) \in Nat /\ 1 \in 1 .. Len(stack[t]) /\ 1 \in 1 .. Len(stack[t]) - 1
        /\ 2 \in 1 .. Len(stack[t]) /\ 1 + 1 = 2
    BY LengthCases DEF StackOK
  <1>1. IsFrame(t, 1) /\ 1 \in Nat
    BY <1>0 DEF IsFrame
  <1>2. y \in Tasks /\ y # Root
    BY <1>0, TopTyped, RootOutermost
  <1>3. runs[y] # 0
    BY <1>1 DEF Running
  <1>4. LiveAt(y) = {} /\ DecrAt(y) = {}
    BY <1>2, <1>3, OnceSays
  <1>5. ASSUME NEW u \in InTop("publish"), NextTask(u) = y PROVE FALSE
    <2>1. u \in Threads /\ InPhase(u, "publish") /\ MoreToCall(u)
      BY DEF InTop, Adding
    <2>2. ~Scheduled(y)
      BY <1>5, <2>1, NextNotScheduled
    <2> QED
      BY <1>2, <1>3, <2>2, OnceSays
  <1>6. ASSUME NEW u \in Threads, NEW i \in 1 .. Len(stack[u]) - 1,
               IsTask(stack[u][i]), stack[u][i].id = y, stack[u][i + 1].ph = "called"
        PROVE  FALSE
    <2>1. i \in Nat /\ IsFrame(u, i)
      <3>1. Len(stack[u]) \in Nat
        BY LengthCases DEF StackOK
      <3> QED
        BY <1>6, <3>1 DEF IsFrame
    <2>2. u = t /\ i = 1
      BY <1>1, <1>6, <2>1 DEF Running
    <2> QED
      BY <1>0, <1>6, <2>2
  <1>7. ~Dispatched(y)
    BY <1>4, <1>5, <1>6 DEF Dispatched, LiveAt, DecrAt
  <1>8. \E p \in Tasks : \E k \in DOMAIN Children[p] : y = Children[p][k]
    <2> DEFINE g == stack[t][2]
    <2>1. StandsOn(stack[t][1], g)
      BY <1>0, ShapeIs DEF Stacks
    <2>2. g \in Frames /\ IsTask(g)
      BY <1>0, PhaseKind DEF StackOK, TaskPhases
    <2>3. g.id \in Tasks
      BY <2>2, FrameKinds DEF TaskFrames
    <2>4. issued[g.id] \in DOMAIN Children[g.id] /\ y = Children[g.id][issued[g.id]]
      BY <2>1 DEF StandsOn
    <2> QED
      BY <2>3, <2>4
  <1> QED
    BY <1>7, <1>8

\* A task picked up is a subtask.
LEMMA CalledPicked ==
    ASSUME TypeOK, StackOK, Running, EachOnce, Bottoms, MainDone,
           NEW t \in Threads, stack[t] # << >>, IsTask(stack[t][1]), Len(stack[t]) > 1
    PROVE  \E p \in Tasks : \E k \in DOMAIN Children[p] : stack[t][1].id = Children[p][k]
  <1>0. Len(stack[t]) \in Nat /\ 1 \in 1 .. Len(stack[t]) /\ 1 \in 1 .. Len(stack[t]) - 1
    BY LengthCases DEF StackOK
  <1>1. IsFrame(t, 1) /\ 1 \in Nat
    BY <1>0 DEF IsFrame
  <1>2. stack[t][1].id \in Tasks \ {Root} /\ runs[stack[t][1].id] # 0
    BY <1>0, <1>1, TopTyped, RootOutermost DEF Running
  <1>3. Scheduled(stack[t][1].id)
    BY <1>2, OnceSays
  <1> QED
    BY <1>3 DEF Scheduled

LEMMA OutstandingSame ==
    ASSUME NEW x \in Tasks, \A y : Dispatched(y)' <=> Dispatched(y), finished' = finished
    PROVE  Outstanding(x)' = Outstanding(x)
  BY DEF Outstanding

LEMMA GuardKept ==
    ASSUME TypeOK, StackOK, Running, Stacks, Rings, EachOnce, Bottoms, MainDone, GuardExact,
           NEW t \in Threads, Step(t)
    PROVE  GuardExact'
  <1>0. Taking /\ Adding
    BY DEF Rings
  <1>1. SUFFICES ASSUME NEW x \in Tasks PROVE guard'[x] = Cardinality(Outstanding(x)')
    BY DEF GuardExact
  <1>2. /\ guard[x] = Cardinality(Outstanding(x)) /\ guard \in [Tasks -> Nat]
        /\ IsFiniteSet(Outstanding(x)) /\ Cardinality(Outstanding(x)) \in Nat
    BY OutstandingFinite DEF GuardExact, TypeOK
  <1>3. CASE CallEnqueue(t)
    <2>1. /\ stack[t] # << >> /\ IsTask(stack[t][1]) /\ Top(t) = stack[t][1]
          /\ InPhase(t, "body") /\ MoreToCall(t)
      BY <1>3, FrameAt, PhaseKind DEF CallEnqueue, InPhase, TaskPhases
    <2>2. PICK p \in Tasks : p = Top(t).id
      BY <2>1, TopTyped
    <2>3. PICK k \in DOMAIN Children[p] : NextTask(t) = Children[p][k]
      BY <2>1, <2>2, NextTaskOf
    <2>4. PICK y \in Tasks : y = NextTask(t)
      BY <2>1, NextTaskOf
    <2>5. ~Dispatched(y) /\ y \notin finished
      BY <1>0, <2>1, <2>4, NotCalledYet
    <2>6. y \in Range(Children[p]) /\ (\A z \in Tasks : y \in Range(Children[z]) => z = p)
      BY <2>3, <2>4, ParentIs
    <2>7. \A z : Dispatched(z)' <=> (Dispatched(z) \/ z = y)
      BY <1>3, <2>4, DispatchedSteps
    <2>8. /\ finished' = finished
          /\ guard' = [guard EXCEPT ![p] = IF p \in Sub1 THEN @ ELSE @ + 1]
      BY <1>3, <2>2 DEF CallEnqueue
    <2>9. CASE x = p /\ p \notin Sub1
      <3>1. Outstanding(x)' = Outstanding(x) \cup {y} /\ y \notin Outstanding(x)
        BY <2>5, <2>6, <2>7, <2>8, <2>9 DEF Outstanding
      <3>2. Cardinality(Outstanding(x)') = Cardinality(Outstanding(x)) + 1
        BY <1>2, <3>1, FS_AddElement
      <3>3. guard'[x] = guard[x] + 1
        BY <1>2, <2>8, <2>9
      <3> QED
        BY <1>2, <3>2, <3>3
    <2>10. CASE x # p \/ p \in Sub1
      <3>1. Outstanding(x)' = Outstanding(x)
        BY <2>6, <2>7, <2>8, <2>10 DEF Outstanding
      <3>2. guard'[x] = guard[x]
        BY <1>2, <2>8, <2>10
      <3> QED
        BY <1>2, <3>1, <3>2
    <2> QED
      BY <2>9, <2>10
  <1>4. ASSUME NEW y, NEW p \in Tasks, NEW k \in DOMAIN Children[p], y = Children[p][k],
               finished' = finished \cup {y},
               \A z : z # y => (Dispatched(z)' <=> Dispatched(z)),
               y \notin finished, p \in Sub1 \/ Dispatched(y),
               guard' = [guard EXCEPT ![p] = @ - 1]
        PROVE  guard'[x] = Cardinality(Outstanding(x)')
    <2>1. y \in Range(Children[p]) /\ (\A z \in Tasks : y \in Range(Children[z]) => z = p)
      BY <1>4, ParentIs
    <2>2. CASE x = p
      <3>1. Outstanding(x)' = Outstanding(x) \ {y} /\ y \in Outstanding(x)
        BY <1>4, <2>1, <2>2 DEF Outstanding
      <3>2. Cardinality(Outstanding(x)') = Cardinality(Outstanding(x)) - 1
        BY <1>2, <3>1, FS_RemoveElement
      <3>3. guard'[x] = guard[x] - 1
        BY <1>2, <1>4, <2>2
      <3> QED
        BY <1>2, <3>2, <3>3
    <2>3. CASE x # p
      <3>1. Outstanding(x)' = Outstanding(x)
        BY <1>4, <2>1, <2>3 DEF Outstanding
      <3>2. guard'[x] = guard[x]
        BY <1>2, <1>4, <2>3
      <3> QED
        BY <1>2, <3>1, <3>2
    <2> QED
      BY <2>2, <2>3
  <1>5. ASSUME stack[t] # << >>, IsTask(stack[t][1])
        PROVE  Top(t) = stack[t][1] /\ Top(t).id \in Tasks /\ Top(t).id \notin finished
    <2>1. IsFrame(t, 1) /\ 1 \in Nat
      BY <1>5, FrameAt DEF IsFrame
    <2> QED
      BY <1>5, <2>1, TopTyped DEF Running
  <1>6. CASE ReturnPicked(t)
    <2>1. stack[t] # << >> /\ IsTask(stack[t][1]) /\ Len(stack[t]) > 1
      BY <1>6, ReturnPickedStack, PhaseKind DEF TaskPhases
    <2>2. PICK y \in Tasks : y = Top(t).id
      BY <1>5, <2>1
    <2>3. PICK p \in Tasks : \E k \in DOMAIN Children[p] : y = Children[p][k]
      BY <1>5, <2>1, <2>2, CalledPicked
    <2>4. PICK k \in DOMAIN Children[p] : y = Children[p][k]
      BY <2>3
    <2>5. Parent(y) = p
      BY <2>4, ParentIs
    <2>6. Dispatched(y) /\ (\A z : z # y => (Dispatched(z)' <=> Dispatched(z)))
      BY <1>6, <2>2, DispatchedSteps
    <2>7. finished' = finished \cup {y} /\ guard' = [guard EXCEPT ![p] = @ - 1]
      BY <1>6, <2>2, <2>5 DEF ReturnPicked
    <2> QED
      BY <1>4, <1>5, <2>1, <2>2, <2>4, <2>6, <2>7
  <1>7. CASE ReturnInline(t)
    <2>1. stack[t] # << >> /\ IsTask(stack[t][1]) /\ Len(stack[t]) > 1 /\ stack[t][2].ph = "body"
      BY <1>7, ReturnInlineStack, PhaseKind DEF TaskPhases
    <2>2. PICK y \in Tasks : y = Top(t).id
      BY <1>5, <2>1
    <2>3. ~Dispatched(y) /\ \E p \in Tasks : \E k \in DOMAIN Children[p] : y = Children[p][k]
      BY <1>0, <1>5, <2>1, <2>2, CalledInline
    <2>4. PICK p \in Tasks : \E k \in DOMAIN Children[p] : y = Children[p][k]
      BY <2>3
    <2>5. PICK k \in DOMAIN Children[p] : y = Children[p][k]
      BY <2>4
    <2>6. Parent(y) = p /\ y \in Range(Children[p]) /\ (\A z \in Tasks : y \in Range(Children[z]) => z = p)
      BY <2>5, ParentIs
    <2>7. /\ finished' = finished \cup {y}
          /\ guard' = [guard EXCEPT ![p] = IF p \in Sub1 THEN @ - 1 ELSE @]
      BY <1>7, <2>2, <2>6 DEF ReturnInline
    <2>8. ~CallEnqueue(t) /\ ~ReturnPicked(t)
      BY <1>7, <2>1 DEF ReturnInline, CallEnqueue, ReturnPicked, InPhase
    <2>9. \A z : Dispatched(z)' <=> Dispatched(z)
      BY <2>8, DispatchedSteps
    <2>10. CASE p \in Sub1
      <3>1. guard' = [guard EXCEPT ![p] = @ - 1]
        BY <2>7, <2>10
      <3> QED
        BY <1>4, <1>5, <2>1, <2>2, <2>5, <2>7, <2>9, <2>10, <3>1
    <2>11. CASE p \notin Sub1
      <3>1. guard'[x] = guard[x]
        BY <1>2, <2>7, <2>11
      <3>2. Outstanding(x)' = Outstanding(x)
        BY <2>3, <2>6, <2>7, <2>9, <2>11 DEF Outstanding
      <3> QED
        BY <1>2, <3>1, <3>2
    <2> QED
      BY <2>10, <2>11
  <1>8. CASE ReturnRoot(t)
    <2>1. stack[t] # << >> /\ IsTask(stack[t][1]) /\ Len(stack[t]) = 1
      BY <1>8, ReturnRootStack, PhaseKind DEF TaskPhases
    <2>2. Top(t).id = Root
      <3>1. 1 \in 1 .. Len(stack[t]) /\ ~(1 \in 1 .. Len(stack[t]) - 1)
        BY <2>1
      <3> QED
        BY <1>5, <2>1, <3>1, RootOutermost
    <2>3. ~CallEnqueue(t) /\ ~ReturnPicked(t)
      BY <1>8 DEF ReturnRoot, CallEnqueue, ReturnPicked, InPhase
    <2>4. \A z : Dispatched(z)' <=> Dispatched(z)
      BY <2>3, DispatchedSteps
    <2>5. finished' = finished \cup {Root} /\ guard' = guard
      BY <1>8, <2>2 DEF ReturnRoot
    <2>6. Root \notin Range(Children[x])
      BY TreeAssumption
    <2>7. Outstanding(x)' = Outstanding(x)
      BY <2>4, <2>5, <2>6 DEF Outstanding
    <2> QED
      BY <1>2, <2>5, <2>7
  <1>9. CASE ~CallEnqueue(t) /\ ~ReturnPicked(t) /\ ~ReturnInline(t) /\ ~ReturnRoot(t)
    <2>1. finished' = finished /\ guard' = guard
      BY <1>9 DEF Step, CallPublish, CallIncr, CallInline, Join, JoinYield, JoinDone,
         WorkerYield, PickLock, PickTest, PickRead, PickTake, PickCall, PickNext
    <2>2. \A z : Dispatched(z)' <=> Dispatched(z)
      BY <1>9, DispatchedSteps
    <2>3. Outstanding(x)' = Outstanding(x)
      BY <2>1, <2>2, OutstandingSame
    <2> QED
      BY <1>2, <2>1, <2>3
  <1> QED
    BY <1>3, <1>6, <1>7, <1>8, <1>9

-----------------------------------------------------------------------------
(* What a waiting task has scheduled, and a returning one has behind it.   *)

WaitPhases == {"yield", "block", "ret"}

FrameOK(f) ==
    /\ f.ph \in WaitPhases => issued[f.id] = Len(Children[f.id])
    /\ f.ph = "ret" => Range(Children[f.id]) \subseteq finished

LEMMA WaitsIs ==
    Waits <=> /\ \A x \in Tasks : issued[x] <= Len(Children[x])
              /\ \A t \in Threads : \A i \in 1 .. Len(stack[t]) : FrameOK(stack[t][i])
  BY DEF Waits, FrameOK, WaitPhases

LEMMA IssuedSteps ==
    ASSUME TypeOK, StackOK, Adding, NEW t \in Threads, Step(t)
    PROVE  \/ issued' = issued
           \/ /\ stack[t] # << >> /\ IsTask(stack[t][1]) /\ stack[t][1].ph \notin WaitPhases
              /\ MoreToCall(t) /\ issued' = [issued EXCEPT ![stack[t][1].id] = @ + 1]
  <1>1. ASSUME CallIncr(t) \/ CallInline(t)
        PROVE  /\ stack[t] # << >> /\ IsTask(stack[t][1]) /\ stack[t][1].ph \notin WaitPhases
               /\ MoreToCall(t) /\ issued' = [issued EXCEPT ![stack[t][1].id] = @ + 1]
    <2>1. stack[t] # << >> /\ Top(t) = stack[t][1] /\ (Top(t).ph = "incr" \/ Top(t).ph = "body")
      BY <1>1, FrameAt DEF CallIncr, CallInline, InPhase
    <2>2. issued' = [issued EXCEPT ![Top(t).id] = @ + 1] /\ MoreToCall(t)
      BY <1>1 DEF CallIncr, CallInline, Adding
    <2> QED
      BY <2>1, <2>2, PhaseKind DEF TaskPhases, WaitPhases
  <1>2. ASSUME ~CallIncr(t), ~CallInline(t) PROVE issued' = issued
    BY <1>2 DEF Step, CallEnqueue, CallPublish, Join, JoinYield, JoinDone, ReturnInline,
       ReturnPicked, ReturnRoot, WorkerYield, PickLock, PickTest, PickRead, PickTake, PickCall,
       PickNext
  <1> QED
    BY <1>1, <1>2

LEMMA FinishedGrows ==
    ASSUME NEW t \in Threads, Step(t)
    PROVE  finished \subseteq finished'
  BY DEF Step, CallEnqueue, CallPublish, CallIncr, CallInline, Join, JoinYield, JoinDone,
     ReturnInline, ReturnPicked, ReturnRoot, WorkerYield, PickLock, PickTest, PickRead, PickTake,
     PickCall, PickNext

LEMMA OldFrames ==
    ASSUME TypeOK, StackOK, Adding, Running, Waits, NEW t \in Threads, Step(t),
           NEW u \in Threads, NEW i \in 1 .. Len(stack[u]), NEW f, f = stack[u][i]
    PROVE  FrameOK(f)'
  <1>1. FrameOK(f)
    BY WaitsIs
  <1>2. finished \subseteq finished'
    BY FinishedGrows
  <1>3. ASSUME f.ph \in WaitPhases PROVE issued'[f.id] = issued[f.id]
    <2>1. IsTask(f) /\ i \in Nat /\ IsFrame(u, i)
      <3>1. Len(stack[u]) \in Nat
        BY LengthCases DEF StackOK
      <3> QED
        BY <1>3, <3>1, PhaseKind DEF WaitPhases, TaskPhases, IsFrame
    <2>2. CASE /\ stack[t] # << >> /\ IsTask(stack[t][1]) /\ stack[t][1].ph \notin WaitPhases
               /\ issued' = [issued EXCEPT ![stack[t][1].id] = @ + 1]
      <3>1. IsFrame(t, 1) /\ 1 \in Nat
        BY <2>2, FrameAt DEF IsFrame
      <3>2. f.id # stack[t][1].id
        BY <1>3, <2>1, <2>2, <3>1 DEF Running
      <3> QED
        BY <2>2, <3>2 DEF TypeOK
    <2> QED
      BY <2>2, IssuedSteps
  <1> QED
    BY <1>1, <1>2, <1>3 DEF FrameOK, WaitPhases

\* Every frame of t after the step is one from before, or as a waiting task may be.
NewFrames(t) ==
    \A i \in 1 .. Len(stack'[t]) : \A f : f = stack'[t][i] =>
        FrameOK(f)' \/ \E j \in 1 .. Len(stack[t]) : f = stack[t][j]

LEMMA WaitsFromOwn ==
    ASSUME TypeOK, StackOK, Adding, Running, Waits, NEW t \in Threads, Step(t), Others(t),
           NewFrames(t)
    PROVE  Waits'
  <1>1. ASSUME NEW x \in Tasks PROVE issued'[x] <= Len(Children[x])
    <2>1. issued[x] <= Len(Children[x]) /\ issued[x] \in Nat /\ Len(Children[x]) \in Nat
      <3>1. Children[x] \in Seq(Tasks)
        BY Positions
      <3> QED
        BY <3>1 DEF Waits, TypeOK
    <2>2. CASE /\ stack[t] # << >> /\ IsTask(stack[t][1])
               /\ MoreToCall(t) /\ issued' = [issued EXCEPT ![stack[t][1].id] = @ + 1]
      <3>1. Top(t) = stack[t][1]
        BY <2>2, FrameAt
      <3>2. x = stack[t][1].id => issued[x] < Len(Children[x])
        BY <2>2, <3>1 DEF MoreToCall
      <3>3. issued'[x] = IF x = stack[t][1].id THEN issued[x] + 1 ELSE issued[x]
        BY <2>2 DEF TypeOK
      <3> QED
        BY <2>1, <3>2, <3>3
    <2> QED
      BY <2>1, <2>2, IssuedSteps
  <1>2. ASSUME NEW u \in Threads, NEW i \in 1 .. Len(stack'[u]), NEW f, f = stack'[u][i]
        PROVE  FrameOK(f)'
    <2>1. CASE u = t
      BY <1>2, <2>1, OldFrames DEF NewFrames
    <2>2. CASE u # t
      <3>1. stack'[u] = stack[u]
        BY <2>2 DEF Others
      <3>2. i \in 1 .. Len(stack[u]) /\ f = stack[u][i]
        BY <1>2, <3>1
      <3> QED
        BY <3>2, OldFrames
    <2> QED
      BY <2>1, <2>2
  <1>3. ASSUME NEW u \in Threads, NEW i \in 1 .. Len(stack'[u])
        PROVE  /\ stack'[u][i].ph \in WaitPhases =>
                      issued'[stack'[u][i].id] = Len(Children[stack'[u][i].id])
               /\ stack'[u][i].ph = "ret" => Range(Children[stack'[u][i].id]) \subseteq finished'
    <2>1. PICK f : f = stack'[u][i]
      OBVIOUS
    <2>2. FrameOK(f)'
      BY <1>2, <2>1
    <2> QED
      BY <2>1, <2>2 DEF FrameOK
  <1> QED
    BY <1>1, <1>3 DEF Waits, WaitPhases

LEMMA WaitsReplace ==
    ASSUME StackOK, StackOK', NEW t \in Threads, NEW g, Replaces(t, g), FrameOK(g)'
    PROVE  NewFrames(t)
  <1>1. SUFFICES ASSUME NEW i \in 1 .. Len(stack'[t])
                 PROVE  stack'[t][i] = g \/ \E j \in 1 .. Len(stack[t]) : stack'[t][i] = stack[t][j]
    BY DEF NewFrames
  <1>2. CASE i = 1
    BY <1>2 DEF Replaces
  <1>3. CASE i # 1
    <2>1. i \in 2 .. Len(stack[t]) /\ i \in 1 .. Len(stack[t])
      BY <1>3 DEF Replaces
    <2> QED
      BY <2>1 DEF Replaces
  <1> QED
    BY <1>2, <1>3

LEMMA WaitsPush ==
    ASSUME StackOK, StackOK', NEW t \in Threads, NEW g, Pushes(t, g), FrameOK(g)'
    PROVE  NewFrames(t)
  <1>0. Len(stack[t]) \in Nat /\ Len(stack'[t]) = Len(stack[t]) + 1 /\ stack'[t][1] = g
    BY Lengths DEF Pushes
  <1>1. SUFFICES ASSUME NEW i \in 1 .. Len(stack'[t])
                 PROVE  stack'[t][i] = g \/ \E j \in 1 .. Len(stack[t]) : stack'[t][i] = stack[t][j]
    BY DEF NewFrames
  <1>2. CASE i = 1
    BY <1>0, <1>2
  <1>3. CASE i # 1
    <2>1. i - 1 \in 1 .. Len(stack[t]) /\ (i - 1) + 1 = i
      BY <1>0, <1>3
    <2>2. stack'[t][(i - 1) + 1] = stack[t][i - 1]
      BY <2>1 DEF Pushes
    <2> QED
      BY <2>1, <2>2
  <1> QED
    BY <1>2, <1>3

LEMMA WaitsReplacePush ==
    ASSUME StackOK, StackOK', NEW t \in Threads, NEW f, NEW g, ReplacesAndPushes(t, f, g),
           FrameOK(f)', FrameOK(g)'
    PROVE  NewFrames(t)
  <1>0. /\ Len(stack[t]) \in Nat /\ Len(stack[t]) > 0 /\ Len(stack'[t]) = Len(stack[t]) + 1
        /\ stack'[t][1] = g /\ stack'[t][2] = f
    BY Lengths DEF ReplacesAndPushes
  <1>1. SUFFICES ASSUME NEW i \in 1 .. Len(stack'[t])
                 PROVE  \/ stack'[t][i] = f \/ stack'[t][i] = g
                        \/ \E j \in 1 .. Len(stack[t]) : stack'[t][i] = stack[t][j]
    BY DEF NewFrames
  <1>2. CASE i = 1 \/ i = 2
    BY <1>0, <1>2
  <1>3. CASE i # 1 /\ i # 2
    <2>1. i - 1 \in 2 .. Len(stack[t]) /\ i - 1 \in 1 .. Len(stack[t]) /\ (i - 1) + 1 = i
      BY <1>0, <1>3
    <2>2. stack'[t][(i - 1) + 1] = stack[t][i - 1]
      BY <2>1 DEF ReplacesAndPushes
    <2> QED
      BY <2>1, <2>2
  <1> QED
    BY <1>2, <1>3

LEMMA WaitsPop ==
    ASSUME StackOK, StackOK', NEW t \in Threads, Pops(t)
    PROVE  NewFrames(t)
  <1>0. Len(stack[t]) \in Nat /\ Len(stack[t]) > 0 /\ Len(stack'[t]) = Len(stack[t]) - 1
    BY Lengths DEF Pops
  <1>1. ASSUME NEW i \in 1 .. Len(stack'[t])
        PROVE  i + 1 \in 1 .. Len(stack[t]) /\ stack'[t][i] = stack[t][i + 1]
    BY <1>0 DEF Pops
  <1> QED
    BY <1>1 DEF NewFrames

LEMMA WaitsPopReplace ==
    ASSUME StackOK, StackOK', NEW t \in Threads, NEW g, PopsAndReplaces(t, g), FrameOK(g)'
    PROVE  NewFrames(t)
  <1>0. /\ Len(stack[t]) \in Nat /\ Len(stack[t]) > 1 /\ Len(stack'[t]) = Len(stack[t]) - 1
        /\ stack'[t][1] = g
    BY Lengths DEF PopsAndReplaces
  <1>1. SUFFICES ASSUME NEW i \in 1 .. Len(stack'[t])
                 PROVE  stack'[t][i] = g \/ \E j \in 1 .. Len(stack[t]) : stack'[t][i] = stack[t][j]
    BY DEF NewFrames
  <1>2. CASE i = 1
    BY <1>0, <1>2
  <1>3. CASE i # 1
    <2>1. i \in 2 .. Len(stack'[t]) /\ i + 1 \in 1 .. Len(stack[t])
      BY <1>0, <1>3
    <2> QED
      BY <2>1 DEF PopsAndReplaces
  <1> QED
    BY <1>2, <1>3

LEMMA WaitsKept ==
    ASSUME TypeOK, StackOK, Running, Stacks, Rings, EachOnce, Bottoms, MainDone, GuardExact,
           Waits, NEW t \in Threads, Step(t)
    PROVE  Waits'
  <1>0. Taking /\ Adding
    BY DEF Rings
  <1>1. StackOK' /\ Others(t)
    BY <1>0, StackElsewhere
  <1>2. SUFFICES NewFrames(t)
    BY <1>0, <1>1, WaitsFromOwn
  <1>3. ASSUME NEW f, f.ph \notin WaitPhases PROVE FrameOK(f)'
    BY <1>3 DEF FrameOK, WaitPhases
  <1>4. PICK f : f = stack'[t][2]
    OBVIOUS
  <1>5. PICK g : g = stack'[t][1]
    OBVIOUS
  <1>6. ASSUME NEW ph, Goes(t, ph), ph \notin WaitPhases PROVE NewFrames(t)
    <2>1. Replaces(t, g) /\ g.ph = ph
      BY <1>5, <1>6 DEF Goes
    <2> QED
      BY <1>1, <1>3, <1>6, <2>1, WaitsReplace
  <1>7. CASE CallEnqueue(t) \/ CallPublish(t) \/ CallIncr(t) \/ PickLock(t) \/ PickTest(t) \/ PickTake(t)
    BY <1>6, <1>7, CallEnqueueStack, CallPublishStack, CallIncrStack, PickLockStack,
       PickTestStack, PickTakeStack DEF WaitPhases
  <1>8. CASE CallInline(t) \/ WorkerYield(t)
    <2>1. Pushes(t, g) /\ g.ph \notin WaitPhases
      BY <1>5, <1>8, CallInlineStack, WorkerYieldStack DEF WaitPhases
    <2> QED
      BY <1>1, <1>3, <2>1, WaitsPush
  <1>9. CASE ReturnInline(t) \/ ReturnRoot(t)
    BY <1>1, <1>9, ReturnInlineStack, ReturnRootStack, WaitsPop
  <1>10. CASE ReturnPicked(t)
    <2>1. PopsAndReplaces(t, g) /\ g.ph \notin WaitPhases
      BY <1>5, <1>10, ReturnPickedStack DEF WaitPhases
    <2> QED
      BY <1>1, <1>3, <2>1, WaitsPopReplace
  <1>11. CASE PickRead(t)
    <2>1. Replaces(t, g) /\ g.ph \notin WaitPhases
      BY <1>5, <1>11, PickReadStack DEF WaitPhases
    <2> QED
      BY <1>1, <1>3, <2>1, WaitsReplace
  <1>12. CASE PickCall(t)
    <2>1. ReplacesAndPushes(t, f, g) /\ f.ph = "called" /\ g.ph = "body"
      BY <1>0, <1>4, <1>5, <1>12, PickCallStack
    <2>2. f.ph \notin WaitPhases /\ g.ph \notin WaitPhases
      BY <2>1 DEF WaitPhases
    <2> QED
      BY <1>1, <1>3, <2>1, <2>2, WaitsReplacePush
  <1>13. CASE PickNext(t)
    <2>1. CASE Replaces(t, g) /\ g.ph = "lock"
      BY <1>1, <1>3, <2>1, WaitsReplace DEF WaitPhases
    <2>2. CASE Pops(t)
      BY <1>1, <2>2, WaitsPop
    <2> QED
      BY <1>5, <1>13, <2>1, <2>2, PickNextStack
  <1>14. ASSUME issued' = issued, finished' = finished, g.id = stack[t][1].id, stack[t] # << >>,
                IsTask(stack[t][1]),
                issued[stack[t][1].id] = Len(Children[stack[t][1].id]),
                g.ph = "ret" => guard[stack[t][1].id] = 0
         PROVE  FrameOK(g)'
    <2>1. g.ph = "ret" => Range(Children[g.id]) \subseteq finished
      BY <1>14, JoinAll
    <2> QED
      BY <1>14, <2>1 DEF FrameOK
  <1>15. CASE Join(t)
    <2>1. stack[t] # << >> /\ stack[t][1].ph = "body" /\ IsTask(stack[t][1]) /\ Top(t) = stack[t][1]
      BY <1>15, PhaseKind, FrameAt DEF Join, InPhase, TaskPhases
    <2>2. /\ Replaces(t, g) /\ g.id = stack[t][1].id
          /\ g.ph = IF guard[stack[t][1].id] # 0 THEN "yield" ELSE "ret"
      BY <1>5, <1>15, JoinStack DEF Goes
    <2>3. issued[stack[t][1].id] = Len(Children[stack[t][1].id])
      <3> DEFINE p == stack[t][1].id
      <3>1. p \in Tasks
        BY <2>1, TopTyped
      <3>2. issued[p] \in Nat /\ Len(Children[p]) \in Nat /\ issued[p] <= Len(Children[p])
        <4>1. Children[p] \in Seq(Tasks)
          BY <3>1, Positions
        <4> QED
          BY <3>1, <4>1 DEF TypeOK, Waits
      <3>3. ~(issued[p] < Len(Children[p]))
        BY <1>15, <2>1 DEF Join, MoreToCall
      <3> HIDE DEF p
      <3>4. issued[p] = Len(Children[p])
        BY <3>2, <3>3
      <3> QED
        BY <3>4 DEF p
    <2>4. FrameOK(g)'
      BY <1>14, <1>15, <2>1, <2>2, <2>3 DEF Join
    <2> QED
      BY <1>1, <2>2, <2>4, WaitsReplace
  <1>16. CASE JoinDone(t)
    <2>1. stack[t] # << >> /\ stack[t][1].ph = "block" /\ IsTask(stack[t][1]) /\ Top(t) = stack[t][1]
      BY <1>16, PhaseKind, FrameAt DEF JoinDone, InPhase, TaskPhases
    <2>2. Replaces(t, g) /\ g.id = stack[t][1].id
      BY <1>5, <1>16, JoinDoneStack DEF Goes
    <2>3. issued[stack[t][1].id] = Len(Children[stack[t][1].id])
      <3>1. 1 \in 1 .. Len(stack[t])
        BY <2>1, FrameAt
      <3> QED
        BY <2>1, <3>1 DEF Waits
    <2>4. guard[stack[t][1].id] = 0
      BY <1>16, <2>1 DEF JoinDone
    <2>5. FrameOK(g)'
      BY <1>14, <1>16, <2>1, <2>2, <2>3, <2>4 DEF JoinDone
    <2> QED
      BY <1>1, <2>2, <2>5, WaitsReplace
  <1>17. CASE JoinYield(t)
    <2>1. stack[t] # << >> /\ stack[t][1].ph = "yield" /\ IsTask(stack[t][1])
      BY <1>17, JoinYieldStack, PhaseKind DEF TaskPhases
    <2>2. issued[stack[t][1].id] = Len(Children[stack[t][1].id])
      <3>1. 1 \in 1 .. Len(stack[t])
        BY <2>1, FrameAt
      <3> QED
        BY <2>1, <3>1 DEF Waits
    <2>3. CASE Goes(t, "block")
      <3>1. Replaces(t, g) /\ g.id = stack[t][1].id /\ g.ph = "block"
        BY <1>5, <2>3 DEF Goes
      <3>2. FrameOK(g)'
        BY <1>14, <1>17, <2>1, <2>2, <3>1 DEF JoinYield
      <3> QED
        BY <1>1, <3>1, <3>2, WaitsReplace
    <2>4. CASE ReplacesAndPushes(t, f, g) /\ f.ph = "block" /\ f.id = stack[t][1].id /\ g.ph = "lock"
      <3>1. FrameOK(f)'
        BY <1>17, <2>2, <2>4 DEF FrameOK, JoinYield
      <3>2. FrameOK(g)'
        BY <1>3, <2>4 DEF WaitPhases
      <3> QED
        BY <1>1, <2>4, <3>1, <3>2, WaitsReplacePush
    <2> QED
      BY <1>4, <1>5, <1>17, <2>3, <2>4, JoinYieldStack
  <1> QED
    BY <1>7, <1>8, <1>9, <1>10, <1>11, <1>12, <1>13, <1>15, <1>16, <1>17 DEF Step

\* A task which returns has its subtasks behind it.
LEMMA JoinKept ==
    ASSUME TypeOK, StackOK, Waits, JoinComplete, NEW t \in Threads, Step(t)
    PROVE  JoinComplete'
  <1>1. ASSUME ReturnInline(t) \/ ReturnPicked(t) \/ ReturnRoot(t) PROVE JoinComplete'
    <2>1. stack[t] # << >> /\ Top(t) = stack[t][1] /\ stack[t][1].ph = "ret"
      BY <1>1, FrameAt DEF ReturnInline, ReturnPicked, ReturnRoot, InPhase
    <2>2. 1 \in 1 .. Len(stack[t])
      BY <2>1, FrameAt
    <2>3. Range(Children[Top(t).id]) \subseteq finished
      BY <2>1, <2>2 DEF Waits
    <2>4. finished' = finished \cup {Top(t).id}
      BY <1>1 DEF ReturnInline, ReturnPicked, ReturnRoot
    <2> QED
      BY <2>3, <2>4 DEF JoinComplete
  <1>2. ASSUME ~ReturnInline(t), ~ReturnPicked(t), ~ReturnRoot(t) PROVE finished' = finished
    BY <1>2 DEF Step, CallEnqueue, CallPublish, CallIncr, CallInline, Join, JoinYield, JoinDone,
       WorkerYield, PickLock, PickTest, PickRead, PickTake, PickCall, PickNext
  <1> QED
    BY <1>1, <1>2 DEF JoinComplete

\* Main's stack is empty only when the root task has returned.
LEMMA MainDoneKept ==
    ASSUME TypeOK, StackOK, Taking, Stacks, Bottoms, MainDone, NEW t \in Threads, Step(t)
    PROVE  MainDone'
  <1>0. StackOK' /\ Others(t) /\ finished \subseteq finished'
    BY StackElsewhere, FinishedGrows
  <1>1. SUFFICES ASSUME stack'[Main] = << >>, stack[Main] # << >> PROVE Root \in finished'
    BY <1>0 DEF MainDone
  <1>2. Main \in Threads /\ t = Main
    BY <1>0, <1>1 DEF Others, Threads
  <1>3. CASE ReturnRoot(t)
    <2>1. Len(stack[t]) = 1 /\ Top(t) = stack[t][1]
      BY <1>1, <1>2, <1>3, ReturnRootStack, FrameAt
    <2>2. Top(t).id = Root
      BY <1>1, <1>2, <2>1 DEF Bottoms
    <2> QED
      BY <1>3, <2>2 DEF ReturnRoot
  <1>4. ASSUME Pops(t), Len(stack[t]) > 1 \/ ~IsTask(stack[t][1]) PROVE FALSE
    <2>1. /\ Len(stack[t]) \in Nat /\ Len(stack[t]) > 0 /\ Len(stack'[t]) = Len(stack[t]) - 1
          /\ ~(Len(stack'[t]) > 0)
      BY <1>0, <1>1, <1>2, <1>4, Lengths DEF Pops
    <2>2. Len(stack[t]) = 1
      <3> DEFINE n == Len(stack[t])
                 m == Len(stack'[t])
      <3>1. n \in Nat /\ n > 0 /\ m = n - 1 /\ ~(m > 0)
        BY <2>1
      <3> HIDE DEF n, m
      <3>2. n = 1
        BY ONLY <3>1
      <3> QED
        BY <3>2 DEF n
    <2>3. IsTask(stack[t][1])
      BY <1>1, <1>2, <2>2 DEF Bottoms
    <2> QED
      BY <1>4, <2>2, <2>3
  <1>5. ASSUME NEW ph, Goes(t, ph) PROVE FALSE
    BY <1>1, <1>2, <1>5 DEF Goes, Replaces
  <1>6. CASE CallEnqueue(t) \/ CallPublish(t) \/ CallIncr(t) \/ JoinDone(t) \/ PickLock(t)
             \/ PickTest(t) \/ PickTake(t)
    BY <1>5, <1>6, CallEnqueueStack, CallPublishStack, CallIncrStack, JoinDoneStack,
       PickLockStack, PickTestStack, PickTakeStack
  <1>7. CASE Join(t)
    BY <1>5, <1>7, JoinStack
  <1>8. CASE CallInline(t) \/ WorkerYield(t)
    BY <1>1, <1>2, <1>8, CallInlineStack, WorkerYieldStack DEF Pushes
  <1>9. CASE JoinYield(t) \/ PickCall(t)
    BY <1>1, <1>2, <1>5, <1>9, JoinYieldStack, PickCallStack DEF ReplacesAndPushes
  <1>10. CASE ReturnInline(t)
    BY <1>4, <1>10, ReturnInlineStack
  <1>11. CASE ReturnPicked(t)
    BY <1>1, <1>2, <1>11, ReturnPickedStack DEF PopsAndReplaces
  <1>12. CASE PickRead(t)
    BY <1>1, <1>2, <1>12, PickReadStack DEF Replaces
  <1>13. CASE PickNext(t)
    <2>1. ~IsTask(stack[t][1])
      BY <1>13, PickNextStack, PhaseKind DEF PickPhases
    <2> QED
      BY <1>1, <1>2, <1>4, <1>13, <2>1, PickNextStack DEF Replaces
  <1> QED
    BY <1>3, <1>6, <1>7, <1>8, <1>9, <1>10, <1>11, <1>12, <1>13 DEF Step

-----------------------------------------------------------------------------
(* The invariant holds at the start, and every step keeps it.              *)

LEMMA InitStacks ==
    ASSUME Init
    PROVE  /\ StackOK /\ Main \in Threads /\ Len(stack[Main]) = 1 /\ stack[Main] # << >>
           /\ stack[Main][1].ph = "body" /\ stack[Main][1].id = Root
           /\ stack[Main][1].pri = exeqpri[Main] /\ Top(Main) = stack[Main][1]
           /\ IsTask(stack[Main][1])
           /\ \A t \in Threads : t # Main => stack[t] = << >> /\ Len(stack[t]) = 0 /\ exeqpri[t] = 0
           /\ exeqpri \in [Threads -> Pris]
  <1>1. PICK pri \in RootPris :
            /\ exeqpri = [t \in Threads |-> IF t = Main THEN pri ELSE 0]
            /\ stack = [t \in Threads |-> IF t = Main THEN <<TaskFrame(Root, pri)>> ELSE <<>>]
    BY DEF Init
  <1> DEFINE f == TaskFrame(Root, pri)
  <1>2. Root \in Tasks /\ pri \in Pris /\ 0 \in Pris /\ Main \in Threads
    BY SchedAssumption DEF Pris, Threads
  <1>3. f \in Frames /\ IsTask(f) /\ f.ph = "body" /\ f.id = Root /\ f.pri = pri
    BY <1>2, NewTask
  <1> HIDE DEF f
  <1>4. /\ stack[Main] = <<f>> /\ exeqpri[Main] = pri
        /\ \A t \in Threads : t # Main => stack[t] = << >> /\ exeqpri[t] = 0
    BY <1>1, <1>2 DEF f
  <1>5. stack \in [Threads -> Seq(Frames)]
    <2>1. <<f>> \in Seq(Frames) /\ << >> \in Seq(Frames)
      BY <1>3
    <2> QED
      BY <1>1, <2>1 DEF f
  <1>6. Len(<<f>>) = 1 /\ <<f>>[1] = f /\ <<f>> # << >> /\ Head(<<f>>) = f /\ Len(<< >>) = 0
    OBVIOUS
  <1>7. exeqpri \in [Threads -> Pris]
    BY <1>1, <1>2
  <1> QED
    BY <1>2, <1>3, <1>4, <1>5, <1>6, <1>7 DEF StackOK, Top

LEMMA InitLive ==
    ASSUME Init
    PROVE  Live = {}
  <1>1. 0 \in Slots /\ SIZE - 1 \in Slots
    BY SchedAssumption DEF Slots
  <1>2. (0 - (SIZE - 1) - 1) % SIZE = IF 0 > SIZE - 1 THEN 0 - (SIZE - 1) - 1 ELSE 0 - (SIZE - 1) - 1 + SIZE
    BY <1>1, SlotSteps
  <1>3. (0 - (SIZE - 1) - 1) % SIZE = 0
    <2>1. ~(0 > SIZE - 1) /\ 0 - (SIZE - 1) - 1 + SIZE = 0
      BY SchedAssumption
    <2> QED
      BY <1>2, <2>1
  <1>4. ASSUME NEW i \in Slots PROVE ~((i - (SIZE - 1) - 1) % SIZE < 0)
    <2>1. (i - (SIZE - 1) - 1) % SIZE \in Nat
      BY <1>1, RingSteps
    <2> QED
      BY <2>1
  <1>5. \A q \in Queues : head[q] = 0 /\ tail[q] = SIZE - 1
    BY DEF Init
  <1>6. ASSUME NEW s \in Live PROVE FALSE
    <2>1. s[1] \in Queues /\ s[2] \in Slots
      BY LiveSlots
    <2>2. (s[2] - tail[s[1]] - 1) % SIZE < (head[s[1]] - tail[s[1]] - 1) % SIZE
      BY <1>6 DEF Live, QueueSize
    <2> QED
      BY <1>3, <1>4, <1>5, <2>1, <2>2
  <1> QED
    BY <1>6

LEMMA ChildrenCount ==
    ASSUME NEW x \in Tasks
    PROVE  Cardinality(Range(Children[x])) = Len(Children[x])
  <1>1. Children[x] \in Seq(Tasks)
    BY Positions
  <1>2. DOMAIN Children[x] = 1 .. Len(Children[x]) /\ Len(Children[x]) \in Nat
    BY <1>1
  <1>3. Children[x] \in [1 .. Len(Children[x]) -> Range(Children[x])]
    BY <1>1, <1>2 DEF Range
  <1>4. \A j, k \in DOMAIN Children[x] : Children[x][j] = Children[x][k] => j = k
    BY OnePlace
  <1>5. Children[x] \in Bijection(1 .. Len(Children[x]), Range(Children[x]))
    BY <1>2, <1>3, <1>4 DEF Bijection, Injection, IsInjective, Surjection, Range
  <1>6. ExistsBijection(1 .. Len(Children[x]), Range(Children[x]))
    BY <1>5 DEF ExistsBijection
  <1> QED
    BY <1>2, <1>6, FS_CountingElements

LEMMA InitHolds ==
    ASSUME Init
    PROVE  IInv
  <1>1. /\ StackOK /\ Main \in Threads /\ Len(stack[Main]) = 1 /\ stack[Main] # << >>
        /\ stack[Main][1].ph = "body" /\ stack[Main][1].id = Root
        /\ stack[Main][1].pri = exeqpri[Main] /\ Top(Main) = stack[Main][1]
        /\ IsTask(stack[Main][1])
        /\ \A t \in Threads : t # Main => stack[t] = << >> /\ Len(stack[t]) = 0 /\ exeqpri[t] = 0
        /\ exeqpri \in [Threads -> Pris]
    BY InitStacks
  <1>2. Live = {}
    BY InitLive
  <1>3. /\ \A t \in Threads, ph \in {"publish", "incr", "read", "take", "decr"} : ~InPhase(t, ph)
        /\ \A ph \in {"publish", "incr", "read", "take", "decr"} : InTop(ph) = {}
    BY <1>1 DEF InTop, InPhase
  <1>4. \A t \in Threads : \A i \in 1 .. Len(stack[t]) : t = Main /\ i = 1
    <2> SUFFICES ASSUME NEW t \in Threads, NEW i \in 1 .. Len(stack[t])
                 PROVE  t = Main /\ i = 1
      OBVIOUS
    <2>1. CASE t = Main
      <3>1. Len(stack[t]) = 1
        BY <1>1, <2>1
      <3>2. i \in 1 .. 1
        BY <3>1
      <3> QED
        BY <2>1, <3>2
    <2>2. CASE t # Main
      <3>1. Len(stack[t]) = 0
        BY <1>1, <2>2
      <3>2. i \in 1 .. 0
        BY <3>1
      <3> QED
        BY <3>2
    <2> QED
      BY <2>1, <2>2
  <1>5. \A t \in Threads : \A i \in 1 .. Len(stack[t]) - 1 : FALSE
    <2> SUFFICES ASSUME NEW t \in Threads, NEW i \in 1 .. Len(stack[t]) - 1
                 PROVE  FALSE
      OBVIOUS
    <2>1. CASE t = Main
      <3>1. Len(stack[t]) = 1
        BY <1>1, <2>1
      <3>2. i \in 1 .. 1 - 1
        BY <3>1
      <3> QED
        BY <3>2
    <2>2. CASE t # Main
      <3>1. Len(stack[t]) = 0
        BY <1>1, <2>2
      <3>2. i \in 1 .. 0 - 1
        BY <3>1
      <3> QED
        BY <3>2
    <2> QED
      BY <2>1, <2>2
  <1>6. \A t \in Threads : \A i \in Nat : IsFrame(t, i) => t = Main /\ i = 1
    BY <1>4 DEF IsFrame
  <1>7. IsFrame(Main, 1) /\ 1 \in Nat
    BY <1>1 DEF IsFrame
  <1>8. /\ issued = [x \in Tasks |-> 0] /\ runs = [x \in Tasks |-> IF x = Root THEN 1 ELSE 0]
        /\ finished = {} /\ pending = 0 /\ Root \in Tasks
    BY SchedAssumption DEF Init
  <1>9. TypeOK
    <2>1. head \in [Queues -> Slots] /\ tail \in [Queues -> Slots]
      BY SchedAssumption DEF Init, Slots
    <2>2. call_arr \in [Queues -> [Slots -> Tasks \cup {None}]]
      BY DEF Init
    <2>3. pickup_mutex \in [Queues -> Threads \cup {None}]
      BY DEF Init
    <2>4. guard \in [Tasks -> Nat]
      <3>1. \A x \in Tasks : Len(Children[x]) \in Nat
        <4>1. \A x \in Tasks : Children[x] \in Seq(Tasks)
          BY Positions
        <4> QED
          BY <4>1
      <3> QED
        BY <3>1 DEF Init
    <2>5. issued \in [Tasks -> Nat] /\ runs \in [Tasks -> Nat] /\ finished \subseteq Tasks /\ pending \in Int
      BY <1>8
    <2> QED
      BY <1>1, <2>1, <2>2, <2>3, <2>4, <2>5 DEF TypeOK
  <1>10. Bottoms /\ PriKept /\ PriorityRestored /\ MainDone
    <2>1. \A w \in Workers : w \in Threads /\ w # Main
      BY SchedAssumption DEF Threads
    <2>2. Bottoms
      BY <1>1, <2>1 DEF Bottoms
    <2>3. PriKept
      BY <1>1 DEF PriKept
    <2>4. PriorityRestored
      BY <1>1, <2>1 DEF PriorityRestored
    <2> QED
      BY <1>1, <2>2, <2>3, <2>4 DEF MainDone
  <1>11. Shape /\ TopOK
    BY <1>1, <1>5 DEF Shape, TopOK
  <1>12. MutexHeld
    <2>1. ASSUME NEW t \in Threads, NEW q \in Queues PROVE pickup_mutex[q] # t
      BY SchedAssumption DEF Init
    <2>2. ASSUME NEW t \in Threads, stack[t] # << >> PROVE Top(t).ph \notin Picking
      BY <1>1, <2>2 DEF Picking
    <2> QED
      BY <2>1, <2>2 DEF MutexHeld
  <1>13. Taking /\ Adding
    BY <1>3 DEF Taking, Adding
  <1>14. LiveOK
    BY <1>2 DEF LiveOK
  <1>15. EachOnce
    <2>1. SUFFICES ASSUME NEW x \in Tasks \ {Root}
                   PROVE  Cardinality(LiveAt(x)) + Cardinality(DecrAt(x)) + runs[x]
                              = IF Scheduled(x) THEN 1 ELSE 0
      BY DEF EachOnce, LiveAt, DecrAt
    <2>2. LiveAt(x) = {} /\ DecrAt(x) = {}
      BY <1>2, <1>3 DEF LiveAt, DecrAt
    <2>3. ~Scheduled(x)
      <3>1. SUFFICES ASSUME NEW p \in Tasks, NEW k \in DOMAIN Children[p],
                            k <= issued[p] \/ (k = issued[p] + 1 /\ \E t \in InTop("incr") : Top(t).id = p)
                     PROVE  FALSE
        BY DEF Scheduled
      <3>2. Children[p] \in Seq(Tasks) /\ k \in 1 .. Len(Children[p])
        BY Positions
      <3> QED
        BY <1>3, <1>8, <3>1, <3>2
    <2>4. Cardinality(LiveAt(x)) = 0 /\ Cardinality(DecrAt(x)) = 0
      BY <2>2, FS_EmptySet
    <2>5. runs[x] = 0
      BY <1>8
    <2> QED
      BY <2>3, <2>4, <2>5
  <1>16. Running
    BY <1>1, <1>6, <1>7, <1>8 DEF Running
  <1>17. Waits
    <2>1. ASSUME NEW x \in Tasks PROVE issued[x] <= Len(Children[x])
      <3>1. Children[x] \in Seq(Tasks)
        BY Positions
      <3> QED
        BY <1>8, <3>1
    <2> QED
      BY <1>1, <1>4, <2>1 DEF Waits
  <1>18. JoinComplete
    BY <1>8 DEF JoinComplete
  <1>19. PendingExact
    <2>1. Cardinality(Live) = 0 /\ Cardinality(InTop("incr")) = 0 /\ Cardinality(InTop("decr")) = 0
      BY <1>2, <1>3, FS_EmptySet
    <2> QED
      BY <1>8, <2>1 DEF PendingExact
  <1>20. GuardExact
    <2>1. SUFFICES ASSUME NEW x \in Tasks PROVE guard[x] = Cardinality(Outstanding(x))
      BY DEF GuardExact
    <2>2. CASE x \in Sub1
      <3>1. Outstanding(x) = Range(Children[x])
        BY <1>8, <2>2 DEF Outstanding
      <3> QED
        BY <2>2, <3>1, ChildrenCount DEF Init
    <2>3. CASE x \notin Sub1
      <3>1. ASSUME NEW y PROVE ~Dispatched(y)
        BY <1>2, <1>3, <1>5 DEF Dispatched
      <3>2. Outstanding(x) = {}
        BY <2>3, <3>1 DEF Outstanding
      <3> QED
        BY <2>3, <3>2, FS_EmptySet DEF Init
    <2> QED
      BY <2>2, <2>3
  <1> QED
    BY <1>1, <1>9, <1>10, <1>11, <1>12, <1>13, <1>14, <1>15, <1>16, <1>17, <1>18, <1>19, <1>20 DEF IInv

LEMMA StutterKeeps ==
    ASSUME IInv, UNCHANGED vars
    PROVE  IInv'
  <1> USE DEF vars, queue_vars
  <1>1. TypeOK' /\ StackOK'
    BY DEF IInv, TypeOK, StackOK
  <1>2. Bottoms' /\ PriKept' /\ PriorityRestored' /\ MainDone'
    BY DEF IInv, Bottoms, PriKept, PriorityRestored, MainDone, IsTask, Top
  <1>3. Shape' /\ TopOK'
    BY DEF IInv, Shape, TopOK, IsTask
  <1>4. MutexHeld'
    BY DEF IInv, MutexHeld, Top, Visited
  <1>5. /\ \A t, ph : (InPhase(t, ph)' <=> InPhase(t, ph)) /\ Top(t)' = Top(t)
        /\ \A t : /\ Visited(t)' = Visited(t) /\ MoreToCall(t)' = MoreToCall(t)
                  /\ NextTask(t)' = NextTask(t) /\ CallQueue(t)' = CallQueue(t)
        /\ \A q : QueueSize(q)' = QueueSize(q)
    BY DEF InPhase, Top, Visited, MoreToCall, NextTask, CallQueue, CallPri, QueueSize
  <1>6. Live' = Live /\ \A ph : InTop(ph)' = InTop(ph)
    BY <1>5 DEF Live, InTop
  <1>7. Taking' /\ Adding' /\ LiveOK'
    BY <1>5, <1>6 DEF IInv, Taking, Adding, LiveOK
  <1>8. \A x : Scheduled(x)' <=> Scheduled(x)
    BY <1>5, <1>6 DEF Scheduled
  <1>9. EachOnce'
    BY <1>5, <1>6, <1>8 DEF IInv, EachOnce
  <1>10. Running'
    BY DEF IInv, Running, IsFrame, IsTask
  <1>11. Waits' /\ JoinComplete'
    BY DEF IInv, Waits, JoinComplete
  <1>12. PendingExact'
    BY <1>6 DEF IInv, PendingExact
  <1>13. \A x : Dispatched(x)' <=> Dispatched(x)
    BY <1>5, <1>6 DEF Dispatched, IsTask
  <1>14. GuardExact'
    BY <1>13 DEF IInv, GuardExact, Outstanding
  <1> QED
    BY <1>1, <1>2, <1>3, <1>4, <1>7, <1>9, <1>10, <1>11, <1>12, <1>14 DEF IInv

LEMMA StepKeeps ==
    ASSUME IInv, NEW t \in Threads, Step(t)
    PROVE  IInv'
  <1>1. /\ TypeOK /\ StackOK /\ Taking /\ Adding /\ Running /\ Waits /\ EachOnce /\ Bottoms /\ MainDone
        /\ GuardExact /\ JoinComplete /\ PendingExact /\ Stacks /\ Rings /\ Priorities
    BY DEF IInv, Stacks, Rings, Priorities
  <1>2. StackOK' /\ Priorities'
    BY <1>1, PrioritiesKept
  <1>3. Stacks' /\ Rings'
    BY <1>1, StacksKept, RingsKept
  <1>4. Running' /\ EachOnce' /\ PendingExact'
    BY <1>1, RunningKept, EachOnceKept, PendingKept
  <1>5. Waits' /\ JoinComplete' /\ MainDone' /\ GuardExact'
    BY <1>1, WaitsKept, JoinKept, MainDoneKept, GuardKept
  <1>6. TypeOK'
    BY <1>1, <1>5, TypesKept, GuardNat
  <1> QED
    BY <1>2, <1>3, <1>4, <1>5, <1>6 DEF IInv, Stacks, Rings, Priorities

-----------------------------------------------------------------------------
(* The theorems.                                                           *)

(* What is known of the stacks, the rings, the guards and the counts holds *)
(* in every state of cuflow/sched.c, for any tree of tasks, any number of  *)
(* workers and any size of the rings.                                      *)
THEOREM SchedInvariant == Spec => []IInv
  <1>1. IInv /\ [Next]_vars => IInv'
    <2>1. SUFFICES ASSUME IInv, [Next]_vars PROVE IInv'
      OBVIOUS
    <2>2. CASE \E t \in Threads : Step(t)
      BY <2>1, <2>2, StepKeeps
    <2>3. CASE UNCHANGED vars
      BY <2>1, <2>3, StutterKeeps
    <2>4. CASE Idle
      <3>1. UNCHANGED vars
        <4>1. Main \in Threads
          BY DEF Threads
        <4> QED
          BY <2>4, <4>1 DEF Idle
      <3> QED
        BY <2>1, <3>1, StutterKeeps
    <2> QED
      BY <2>1, <2>2, <2>3, <2>4 DEF Next
  <1> QED
    BY <1>1, InitHolds, PTL DEF Spec

(* Heads and tails stay in their rings and a guard is never lowered below  *)
(* zero.                                                                   *)
THEOREM TypeCorrect == Spec => []TypeOK
  <1>1. IInv => TypeOK
    BY DEF IInv
  <1> QED
    BY <1>1, SchedInvariant, PTL

(* cuflow_sched_call and cuflowP_schedule: no scheduled task is lost or    *)
(* run twice, whoever takes from a ring while its owner adds to it.        *)
THEOREM EachTaskOnce == Spec => []EachOnce
  <1>1. IInv => EachOnce
    BY DEF IInv
  <1> QED
    BY <1>1, SchedInvariant, PTL

(* Waiting on the guard is a join: a task which has returned has all its   *)
(* subtasks behind it, in whatever order and by whomever they were run.    *)
THEOREM ReturnedIsJoined == Spec => []JoinComplete
  <1>1. IInv => JoinComplete
    BY DEF IInv
  <1> QED
    BY <1>1, SchedInvariant, PTL

(* cuflowP_pending_work is the number of entries in the rings, up to those *)
(* published and not yet counted and those taken and not yet discounted.   *)
THEOREM PendingIsExact == Spec => []PendingExact
  <1>1. IInv => PendingExact
    BY DEF IInv
  <1> QED
    BY <1>1, SchedInvariant, PTL

(* exeqpri of a thread is what it chose whenever it is back in its         *)
(* outermost task or outside of any, whatever it ran while it waited.      *)
THEOREM PriorityIsRestored == Spec => []PriorityRestored
  <1>1. IInv => PriorityRestored
    BY DEF IInv
  <1> QED
    BY <1>1, SchedInvariant, PTL

=============================================================================
