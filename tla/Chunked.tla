------------------------------ MODULE Chunked -------------------------------
(***************************************************************************)
(* Containers in chunks of a fixed size: the stack of cucon/stack.c and    *)
(* the queue of calls of cuflow/workq.c.                                   *)
(***************************************************************************)
EXTENDS Integers, Sequences, FiniteSets, SequencesExt

CONSTANTS
    CHUNK_SIZE,             \* cuconP_STACK_CHUNK_SIZE in words; WORKQSEG_SIZE
    Sizes,                  \* sizes of the objects pushed and popped
    MaxSize,                \* bound on the words on the stack
    Calls                   \* bound: the calls appended to the queue, 1..Calls in this order

VARIABLES
    con,                    \* the stack or queue
    ref                     \* what is on it

NULL == << >>
-----------------------------------------------------------------------------
(* A chunk of a stack is the words from its begin to its end, of which     *)
(* those from sp are in use; the stack is its chunks from the newest, and  *)
(* ends with the empty one it was constructed with.  What is pushed is a   *)
(* word, or several at a time.  ref has words, what is on the stack from   *)
(* the top, each the height it is at, and mark, a mark taken and what was  *)
(* below it, or NULL.                                                      *)
\* sp - begin, and what is between sp and end; the addresses of a chunk are its id.
Chunk(id, free, words) == [id |-> id, free |-> free, words |-> words]
Bottom == Chunk(0, 0, << >>)
Top(st) == Head(st)
cucon_stack_is_empty(st) == Top(st).id = 0
Init == con = <<Bottom>> /\ ref = [words |-> << >>, mark |-> NULL]

\* Memory that is no longer referred to may be allocated again.
NewId(st) == CHOOSE i \in 1..Len(st) : \A k \in DOMAIN st : st[k].id # i
Put(c, new) == [c EXCEPT !.free = @ - Len(new), !.words = new \o @]

\* The rest of the old chunk stays unused.
cuconP_stack_expand(st, new) ==
    LET n == IF Len(new) > CHUNK_SIZE THEN Len(new) ELSE CHUNK_SIZE
    IN  <<Put(Chunk(NewId(st), n, << >>), new)>> \o st

cucon_stack_alloc(st, new) ==
    IF Len(new) > Top(st).free THEN cuconP_stack_expand(st, new) ELSE [st EXCEPT ![1] = Put(@, new)]

RECURSIVE cucon_stack_free(_, _), cucon_stack_size(_), cucon_stack_at(_, _), cucon_stack_unwind_to_mark(_, _)
\* cuconP_stack_shrink leaves the chunks which sp has come to the end of, or past it.
Raised(c, n) == [c EXCEPT !.free = @ + n, !.words = SubSeq(@, n + 1, Len(@))]
cucon_stack_free(st, n) ==
    IF n < Len(Top(st).words) THEN [st EXCEPT ![1] = Raised(@, n)]
    ELSE IF Len(st) = 1 THEN st
    ELSE cucon_stack_free(Tail(st), n - Len(Top(st).words))

cucon_stack_size(st) == IF st = << >> THEN 0 ELSE Len(Top(st).words) + cucon_stack_size(Tail(st))

cucon_stack_at(st, pos) ==
    LET n == Len(Top(st).words)
    IN  IF pos >= n THEN cucon_stack_at(Tail(st), pos - n) ELSE Top(st).words[pos + 1]

\* The chunks that hold the topmost n words become one.
Needed(st, n) ==
    CHOOSE k \in DOMAIN st : cucon_stack_size(SubSeq(st, 1, k)) >= n
                             /\ cucon_stack_size(SubSeq(st, 1, k - 1)) < n
Joined(st, k) == FlattenSeq([i \in 1..k |-> st[i].words])
cucon_stack_continuous_top(st, n) ==
    IF n <= Len(Top(st).words) THEN st
    ELSE <<Chunk(NewId(st), 0, Joined(st, Needed(st, n)))>> \o SubSeq(st, Needed(st, n) + 1, Len(st))

\* A mark is an address: the chunk, and sp in it.
cucon_stack_mark(st) == <<Top(st).id, Top(st).free>>
cucon_stack_unwind_to_mark(st, mark) ==
    IF Top(st).id # mark[1] THEN cucon_stack_unwind_to_mark(Tail(st), mark)
    ELSE [st EXCEPT ![1] = Raised(@, mark[2] - @.free)]

cucon_stack_init_copy(src) == cucon_stack_alloc(<<Bottom>>, Joined(src, Len(src)))
-----------------------------------------------------------------------------
Words == Len(ref.words)
Push(n) ==
    LET new == [i \in 1..n |-> Words + n + 1 - i]
    IN  /\ Words + n <= MaxSize
        /\ con' = cucon_stack_alloc(con, new)
        /\ ref' = [ref EXCEPT !.words = new \o @]

\* A mark above what is popped would be lost.
MarkedSize == IF ref.mark = NULL THEN 0 ELSE Len(ref.mark.words)
Pop(n) ==
    /\ n <= Words
    /\ MarkedSize <= Words - n
    /\ con' = cucon_stack_free(con, n)
    /\ ref' = [ref EXCEPT !.words = SubSeq(@, n + 1, Words)]

\* Marks do not survive cucon_stack_continuous_top.
Continuous(n) ==
    /\ n <= Words /\ ref.mark = NULL
    /\ con' = cucon_stack_continuous_top(con, n)
    /\ UNCHANGED ref

Mark ==
    /\ ref.mark = NULL
    /\ ref' = [ref EXCEPT !.mark = [at |-> cucon_stack_mark(con), words |-> ref.words]]
    /\ UNCHANGED con

Unwind ==
    /\ ref.mark # NULL
    /\ con' = cucon_stack_unwind_to_mark(con, ref.mark.at)
    /\ ref' = [ref EXCEPT !.words = ref.mark.words, !.mark = NULL]

Copy == ref.mark = NULL /\ con' = cucon_stack_init_copy(con) /\ UNCHANGED ref

Next ==
    \/ \E n \in Sizes : Push(n) \/ Pop(n) \/ Continuous(n)
    \/ Mark \/ Unwind \/ Copy
-----------------------------------------------------------------------------
RECURSIVE ItrGets(_, _)
\* What cucon_stack_itr_get returns before NULL, one word at a time, from word i
\* of the top chunk; it turns to the next chunk with the last word of one.
ItrGets(st, i) ==
    LET words == Top(st).words
    IN  IF i > Len(words) THEN << >>
        ELSE <<words[i]>> \o (IF i = Len(words) /\ Len(st) > 1 THEN ItrGets(Tail(st), 1) ELSE ItrGets(st, i + 1))

(* Whatever has been pushed, popped, made continuous, copied or unwound to *)
(* a mark, the words on the stack are those pushed last, by position and   *)
(* by iteration, and only an empty stack has no chunk.                     *)
LastIn ==
    /\ cucon_stack_size(con) = Words
    /\ \A i \in 1..Words : cucon_stack_at(con, i - 1) = ref.words[i]
    /\ ItrGets(con, 1) = ref.words
    /\ cucon_stack_is_empty(con) <=> Words = 0

-----------------------------------------------------------------------------
(* A queue of calls.  A place in a segment is <<segment, index>>; segments *)
(* are numbered in the order they are linked.  The reader keeps an end of  *)
(* its own, which it advances to the writer's only when it has come there. *)
(* ref has todo, the calls on the queue, and got, what the last pop        *)
(* returned and what it should have, 0 for NULL.                           *)
Begin(s) == <<s, 0>>
End(s) == <<s, CHUNK_SIZE>>
Succ(p) == <<p[1], p[2] + 1>>

\* cuflow_workq_init; there is no segment 0.
InitWorkq ==
    /\ con = [seg |-> << >>, head_seg |-> 0, tail_seg |-> 0, free_seg_cnt |-> 0,
              head_cur |-> NULL, head_end |-> NULL, tail_cur |-> NULL, tail_end |-> NULL]
    /\ ref = [todo |-> << >>, next |-> 1, got |-> <<0, 0>>]

\* Segments are not put on the list of free ones, so that a new one is made.
cuflowP_workq_advance_tail(wq) ==
    LET s == Len(wq.seg) + 1
        first == wq.tail_seg = 0
    IN  [wq EXCEPT !.seg = Append(@, [i \in 0..(CHUNK_SIZE - 1) |-> 0]),
            !.head_seg = IF first THEN s ELSE @,
            !.head_cur = IF first THEN Begin(s) ELSE @,
            !.head_end = IF first THEN Begin(s) ELSE @,
            !.tail_seg = s, !.tail_cur = Begin(s), !.tail_end = End(s)]

Stored(wq, fn) ==
    [wq EXCEPT !.seg[wq.tail_cur[1]][wq.tail_cur[2]] = fn, !.tail_cur = Succ(@)]

cuflow_workq_append(fn) ==
    /\ con' = Stored(IF con.tail_cur = con.tail_end THEN cuflowP_workq_advance_tail(con) ELSE con, fn)
    /\ ref' = [ref EXCEPT !.todo = Append(@, fn), !.next = @ + 1]

\* The reader's end moves up: to the writer, to the end of the segment, or into
\* the next segment.
AtTail(wq) == wq.head_seg = wq.tail_seg
EndFor(wq, s) == IF s = wq.tail_seg THEN wq.tail_cur ELSE End(s)
IsDrained(wq) == AtTail(wq) /\ wq.head_end = wq.tail_cur
cuflowP_workq_pop_front(wq) ==
    IF AtTail(wq) \/ wq.head_end # End(wq.head_seg)
    THEN [wq EXCEPT !.head_end = EndFor(wq, wq.head_seg)]
    ELSE LET s == wq.head_seg + 1
         IN  [wq EXCEPT !.head_seg = s, !.head_cur = Begin(s), !.head_end = EndFor(wq, s)]

Due == IF ref.todo = << >> THEN 0 ELSE Head(ref.todo)
Popped(fn) == ref' = [ref EXCEPT !.todo = IF fn = 0 THEN @ ELSE Tail(@), !.got = <<fn, Due>>]
PoppedFrom(wq) ==
    /\ con' = [wq EXCEPT !.head_cur = Succ(@)]
    /\ Popped(wq.seg[wq.head_cur[1]][wq.head_cur[2]])

cuflow_workq_pop_front ==
    IF con.head_cur # con.head_end THEN PoppedFrom(con)
    ELSE IF IsDrained(con) THEN Popped(0) /\ UNCHANGED con
    ELSE PoppedFrom(cuflowP_workq_pop_front(con))

NextWorkq ==
    \/ ref.next <= Calls /\ cuflow_workq_append(ref.next)
    \/ cuflow_workq_pop_front
-----------------------------------------------------------------------------
RECURSIVE Between(_, _)
\* The segments after the head's up to the tail's, whole ones.
Between(wq, s) == IF s = wq.tail_seg THEN 0 ELSE CHUNK_SIZE + Between(wq, s + 1)

cuflow_workq_size(wq) ==
    IF wq.head_seg = 0 THEN 0
    ELSE IF AtTail(wq) THEN wq.tail_cur[2] - wq.head_cur[2]
    ELSE (CHUNK_SIZE - wq.head_cur[2]) + Between(wq, wq.head_seg + 1) + wq.tail_cur[2]

(* The size is that of the calls appended and not popped, calls are popped *)
(* in the order they were appended, and NULL only from an empty queue.     *)
Fifo ==
    /\ cuflow_workq_size(con) = Len(ref.todo)
    /\ ref.got[1] = ref.got[2]
=============================================================================
