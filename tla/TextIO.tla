------------------------------- MODULE TextIO -------------------------------
(***************************************************************************)
(* cu/buffer, cu/dsink*, cutext/sink*, cutext/source*, lsource: text on    *)
(* its way out and in through stacks of buffers and conversions.  A buffer *)
(* is the size of its storage, where its content starts, and the content.  *)
(* What lies below a stack, a file, answers as it likes: it takes or gives *)
(* any part of what is asked for, or fails.  So an operation is the set of *)
(* its outcomes.                                                           *)
(***************************************************************************)
EXTENDS Integers, Sequences, FiniteSets, SequencesExt

CONSTANTS
    WRITE_THRESHOLD,        \* bytes that make a buffered sink write, sink_buffer.c
    IC_WRITE_BUFSIZE,       \* bytes converted at a time, sink_iconv.c
    INIT_CAP,               \* initial capacity of the buffer of a source
    Writes,                 \* sizes of the writes to a clogging sink
    Texts,                  \* writes to a converting sink, any bytes
    MaxBytes,               \* bound on the bytes written
    Streams,                \* byte streams of whole characters to read
    tabstop                 \* columns

VARIABLES con, ref

\* The bytes of narrow text: a character is a byte other than 2 and 3, or
\* 2 and 3 in this order.  In wide text all characters have two bytes.
NL == 4
TAB == 5
SPACE == 6
WIDE == 23
sizeof_wchar == 2
Wide(ch) == <<100 + ch, 200 + ch>>

Lesser(m, n) == IF m < n THEN m ELSE n
Greater(m, n) == IF m < n THEN n ELSE m
First(n, s) == SubSeq(s, 1, Lesser(n, Len(s)))
From(n, s) == SubSeq(s, n + 1, Len(s))
-----------------------------------------------------------------------------
\* cu/buffer
cu_buffer_init(cap) == [size |-> cap, start |-> 0, data |-> << >>]
cu_buffer_clear(b) == [b EXCEPT !.start = 0, !.data = << >>]
cu_buffer_content_size(b) == Len(b.data)
cu_buffer_fullcap(b) == b.size - b.start
cu_buffer_freecap(b) == b.size - b.start - Len(b.data)

\* The content is moved to the start of a storage that is large enough, or
\* of a new one.
cuP_buffer_fix_fullcap(b, fullcap) ==
    [b EXCEPT !.start = 0,
              !.size = IF @ >= 2 * fullcap THEN @ ELSE Greater(fullcap, 2 * @)]
cu_buffer_extend_fullcap(b, fullcap) ==
    IF b.start + fullcap > b.size THEN cuP_buffer_fix_fullcap(b, fullcap) ELSE b
cuP_buffer_fix_freecap(b, freecap) == cuP_buffer_fix_fullcap(b, Len(b.data) + freecap)
cu_buffer_extend_freecap(b, freecap) ==
    IF freecap > cu_buffer_freecap(b) THEN cuP_buffer_fix_freecap(b, freecap) ELSE b

cu_buffer_force_realign(b) == [b EXCEPT !.start = 0]
cu_buffer_maybe_realign(b) == IF b.start > Len(b.data) THEN cu_buffer_force_realign(b) ELSE b
cu_buffer_incr_content_start(b, n) == [b EXCEPT !.start = @ + n, !.data = From(n, @)]

\* Data copied to the end of the content, which then includes it.
cu_buffer_incr_content_end(b, data) ==
    [(IF Len(data) > cu_buffer_freecap(b)
      THEN cuP_buffer_fix_fullcap(b, Len(b.data) + Len(data)) ELSE b) EXCEPT !.data = @ \o data]
cu_buffer_write(b, data) == cu_buffer_incr_content_end(b, data)
-----------------------------------------------------------------------------
\* iconv from narrow to wide text as long as room lasts: the bytes read, those
\* written, and how it ended.
RECURSIVE iconv(_, _, _)
iconv(src, cap, done) ==
    LET len == IF src = << >> \/ src[1] # 2 THEN 1 ELSE 2
        ch == IF len = 2 THEN WIDE ELSE src[1]
        ended(how) == [src |-> src, out |-> done, st |-> how]
    IN  CASE src = << >> -> ended("ok")
          [] src[1] = 3 \/ (len = 2 /\ Len(src) > 1 /\ src[2] # 3) -> ended("EILSEQ")
          [] len > Len(src) -> ended("EINVAL")
          [] OTHER -> IF cap < sizeof_wchar THEN ended("E2BIG")
                      ELSE iconv(From(len, src), cap - sizeof_wchar, done \o Wide(ch))
-----------------------------------------------------------------------------
\* Sinks.  An outcome of a write is the number of bytes taken, or ERROR, and
\* what arrived below.
ERROR == -1
Took(n, arrived) == [n |-> n, arrived |-> arrived]

\* A sink that takes what it likes, and one which is free of clogs.
ClogWrite(data) == {Took(n, First(n, data)) : n \in 0..Len(data)} \cup {Took(ERROR, << >>)}
fd_sink_write(data) == {Took(Len(data), data), Took(ERROR, << >>)}

RECURSIVE iconv_rounds(_, _, _)
\* taken is what earlier rounds have, arrived what they have written.
iconv_rounds(src, taken, arrived) ==
    LET r == iconv(src, IC_WRITE_BUFSIZE, << >>)
        n == taken + Len(src) - Len(r.src)
    IN  UNION {IF w.n = ERROR /\ r.out # << >> THEN {Took(ERROR, arrived)}
               ELSE CASE r.st = "ok" -> {Took(n, arrived \o r.out)}
                      [] r.st = "EINVAL" -> {Took(n, arrived \o r.out)}
                      [] r.st = "EILSEQ" -> {Took(ERROR, arrived \o r.out)}
                      [] r.st = "E2BIG" -> iconv_rounds(r.src, n, arrived \o r.out)
               : w \in fd_sink_write(r.out)}
iconv_write(data) == IF data = << >> THEN {Took(0, << >>)} ELSE iconv_rounds(data, 0, << >>)

\* A buffered sink: what it is stacked on, whether that is still open, and the
\* buffer.  The sinks of cu and of cutext differ in what a failure leaves.
NewSink(lib, below) ==
    [lib |-> lib, below |-> below, open |-> TRUE, buf |-> cu_buffer_init(2 * WRITE_THRESHOLD)]
SubWrite(s, data) == IF s.below = "clog" THEN ClogWrite(data) ELSE iconv_write(data)

\* More than half of the capacity clogged: the capacity is extended.
Unclogged(b) ==
    IF 2 * Len(b.data) > cu_buffer_fullcap(b) THEN cu_buffer_extend_fullcap(b, 2 * Len(b.data)) ELSE b
bufsink_flush(s) ==
    {IF w.n = ERROR THEN [s |-> [s EXCEPT !.open = FALSE], ok |-> FALSE, arrived |-> w.arrived]
     ELSE [s |-> [s EXCEPT !.buf = Unclogged(cu_buffer_incr_content_start(@, w.n))],
           ok |-> TRUE, arrived |-> w.arrived] : w \in SubWrite(s, s.buf.data)}

\* An outcome of a write to the buffered sink: "ok", "error", the failed
\* assertion that data is left only if the threshold is reached, or "loop".
Wrote(s, r, arrived) == [s |-> s, r |-> r, arrived |-> arrived]
Filled(s, data) ==
    LET b == cu_buffer_maybe_realign(s.buf)
    IN  cu_buffer_incr_content_end(b, First(cu_buffer_freecap(b), data))
RECURSIVE WriteLoop(_, _, _)
WriteLoop(s, data, arrived) ==
    IF data = << >> THEN {Wrote(s, "ok", arrived)}
    ELSE LET b == Filled(s, data)
             left == From(Len(b.data) - Len(s.buf.data), data)
         IN  IF Len(b.data) >= WRITE_THRESHOLD
             THEN UNION {CASE ~f.ok -> {Wrote(f.s, "error", arrived \o f.arrived)}
                           [] f.s = s /\ left = data -> {Wrote(s, "loop", arrived)}
                           [] OTHER -> WriteLoop(f.s, left, arrived \o f.arrived)
                         : f \in bufsink_flush([s EXCEPT !.buf = b])}
             ELSE {Wrote([s EXCEPT !.buf = b], IF left = << >> THEN "ok" ELSE "assertion", arrived)}

\* dsink_buffer.c forgets a subsink that failed, sink_buffer.c does not.
bufsink_write(s, data) ==
    IF s.lib = "cu" /\ ~s.open THEN {Wrote(s, "error", << >>)} ELSE WriteLoop(s, data, << >>)
-----------------------------------------------------------------------------
\* ref: the bytes accepted, those arrived below, and how the last write ended.
InitSink ==
    /\ \/ con \in {NewSink("cu", "clog"), NewSink("cutext", "clog")}
       \/ con = NewSink("cutext", "iconv")
    /\ ref = [written |-> << >>, arrived |-> << >>, r |-> "ok"]

\* The bytes of a clogging sink are told apart by when they were written.
DataOf ==
    IF con.below = "clog"
    THEN {[i \in 1..n |-> Len(ref.written) + i] : n \in Writes} ELSE Texts

WriteSink(data) ==
    /\ con.open /\ Len(ref.written) + Len(data) <= MaxBytes
    /\ \E w \in bufsink_write(con, data) :
           /\ con' = w.s
           /\ ref' = [ref EXCEPT !.r = w.r, !.arrived = @ \o w.arrived, !.written = @ \o data]

\* In cutext the flush goes no further than the subsink's write.
FlushSink ==
    /\ con.open
    /\ \E f \in bufsink_flush(con) :
           /\ con' = f.s
           /\ ref' = [ref EXCEPT !.r = IF f.ok THEN "ok" ELSE "error", !.arrived = @ \o f.arrived]

\* One flush; what a clog leaves is dropped.
FinishSink ==
    /\ con.open
    /\ \E f \in bufsink_flush(con) :
           /\ con' = [f.s EXCEPT !.open = FALSE]
           /\ ref' = [ref EXCEPT !.r = IF f.ok THEN "ok" ELSE "error", !.arrived = @ \o f.arrived]

DiscardSink == con.open /\ con' = [con EXCEPT !.open = FALSE] /\ UNCHANGED ref

\* A sink that failed, was finished or discarded is not used again.
NewClient ==
    /\ ~con.open
    /\ con' = NewSink(con.lib, con.below)
    /\ ref' = [written |-> << >>, arrived |-> << >>, r |-> "ok"]

NextSink == (\E data \in DataOf : WriteSink(data)) \/ FlushSink \/ FinishSink \/ DiscardSink \/ NewClient

\* The legal characters at the start of narrow text, as wide text.
Converted(bytes) == iconv(bytes, sizeof_wchar * Len(bytes), << >>)

(* Whatever a sink below takes at a time, what arrived and what is in the  *)
(* buffer are together what was written, in this order; converted text is  *)
(* cut between characters only, and arrives up to the first that is not    *)
(* legal or not complete.                                                  *)
NothingLost ==
    IF con.below = "clog"
    THEN con.open => ref.arrived \o con.buf.data = ref.written
    ELSE /\ IsPrefix(ref.arrived, Converted(ref.written).out)
         /\ con.open => ref.arrived \o Converted(con.buf.data).out = Converted(ref.written).out

(* A write ends, without data left over a buffer that was not filled, the  *)
(* content is always within the storage, and what a clog leaves is at most *)
(* half of it.                                                             *)
WriteEnds ==
    /\ ref.r \in {"ok", "error"}
    /\ con.buf.start + Len(con.buf.data) <= con.buf.size
    /\ con.open /\ Len(con.buf.data) >= WRITE_THRESHOLD => 2 * Len(con.buf.data) <= cu_buffer_fullcap(con.buf)
-----------------------------------------------------------------------------
\* Sources.  st: the rest of the file, what kind it is, whether a read of it has
\* failed, and the buffers of the stack that cutext_lsource_init makes of it:
\*     1  the lexical source's own bufsource
\*     2  the buffer stacked as a converting source has no look
\*     3  (the conversion)
\*     4  the buffer stacked as a file has no look, or the memory itself
\* An outcome of a read is the new stack and the bytes delivered.
Buffers == {1, 2, 4}
Open(kind, stream) ==
    [rest |-> stream, kind |-> kind, failed |-> FALSE, buf |-> [k \in Buffers |-> cu_buffer_init(INIT_CAP)]]
Got(st, data) == [st |-> st, data |-> data]

\* Any part of what is asked for, but nothing only at the end.
fdsource_read(st, n) ==
    {Got([st EXCEPT !.rest = From(m, @)], First(m, st.rest)) :
         m \in IF n = 0 \/ st.rest = << >> THEN {0} ELSE 1..Lesser(n, Len(st.rest))}
    \cup {Got([st EXCEPT !.failed = TRUE], << >>)}
memsource_read(st, n) == {Got([st EXCEPT !.rest = From(n, @)], First(n, st.rest))}
memsource_look(st, n) == {Got(st, st.rest)}

RECURSIVE SourceRead(_, _, _), SourceLook(_, _, _), ConvertLoop(_, _, _)
cutext_bufsource_read(k, st, n) ==
    LET b == st.buf[k]
    IN  IF Len(b.data) >= n
        THEN {Got([st EXCEPT !.buf[k] = cu_buffer_incr_content_start(b, n)], First(n, b.data))}
        ELSE {Got(r.st, b.data \o r.data) :
                  r \in SourceRead(k + 1, [st EXCEPT !.buf[k] = cu_buffer_clear(b)], n - Len(b.data))}

cutext_bufsource_look(k, st, n) ==
    LET b == st.buf[k]
        add == n - Len(b.data)
        room == cu_buffer_extend_freecap(b, add)
    IN  IF add <= 0 THEN {Got(st, First(n, b.data))}
        ELSE {Got([r.st EXCEPT !.buf[k] = [room EXCEPT !.data = @ \o r.data]], b.data \o r.data) :
                  r \in SourceRead(k + 1, st, add)}

\* As many bytes as are wanted are looked at; those that were converted are
\* then skipped.
iconvsource_read(st, n) == ConvertLoop(st, n, << >>)
ConvertLoop(st, left, done) ==
    IF left = 0 THEN {Got(st, done)}
    ELSE UNION {IF l.data = << >> \/ l.st.failed THEN {Got(l.st, done)}
                ELSE LET c == iconv(l.data, left, << >>)
                     IN  UNION {ConvertLoop(r.st, left - Len(c.out), done \o c.out) :
                                    r \in SourceRead(4, l.st, Len(l.data) - Len(c.src))}
                : l \in SourceLook(4, st, left)}

SourceRead(k, st, n) ==
    CASE k \in {1, 2} \/ (k = 4 /\ st.kind = "file") -> cutext_bufsource_read(k, st, n)
      [] k = 3 -> iconvsource_read(st, n)
      [] k = 4 /\ st.kind = "memory" -> memsource_read(st, n)
      [] k = 5 -> fdsource_read(st, n)
SourceLook(k, st, n) ==
    IF k = 4 /\ st.kind = "memory" THEN memsource_look(st, n) ELSE cutext_bufsource_look(k, st, n)
-----------------------------------------------------------------------------
\* cu/location: where a character leaves the line and column.
cu_locbound_put_tab(loc) == [loc EXCEPT !.col = (@ \div tabstop + 1) * tabstop]
cu_locbound_put_newline(loc) == [loc EXCEPT !.line = @ + 1, !.col = 0]
cutext_locbound_put_wchar(loc, ch) ==
    CASE ch = TAB -> cu_locbound_put_tab(loc)
      [] ch = NL -> cu_locbound_put_newline(loc)
      [] OTHER -> [loc EXCEPT !.col = @ + 1]

\* A location is a range, its bounds in order.
cu_locbound_cmp(x, y) ==
    CASE x.line < y.line -> -1 [] x.line > y.line -> 1
      [] OTHER -> IF x.col < y.col THEN -1 ELSE IF x.col > y.col THEN 1 ELSE 0
cu_location_init_cover(l, m) ==
    [lb |-> IF cu_locbound_cmp(l.lb, m.lb) < 0 THEN l.lb ELSE m.lb,
     ub |-> IF cu_locbound_cmp(l.ub, m.ub) < 0 THEN m.ub ELSE l.ub]

\* The characters of wide text, and the position after them; indentation is
\* the column of the first in the line that is not a space, or -1.
Chars(data) == [i \in 1..(Len(data) \div sizeof_wchar) |-> data[sizeof_wchar * i] - 200]
pass_wchar(at, ch) ==
    IF ch = NL THEN [loc |-> cu_locbound_put_newline(at.loc), indentation |-> -1]
    ELSE [at EXCEPT !.loc = cutext_locbound_put_wchar(@, ch),
                    !.indentation = IF @ = -1 /\ ch \notin {TAB, SPACE} THEN at.loc.col ELSE @]
Passed(at, chars) == FoldLeft(pass_wchar, at, chars)

\* A lexical source: the stack, and the position.
cutext_lsource_init(kind, stream) ==
    [st |-> Open(kind, stream), at |-> [loc |-> [line |-> 1, col |-> 0], indentation |-> -1]]

cutext_lsource_read(src, n) ==
    {[src |-> [st |-> r.st, at |-> Passed(src.at, Chars(r.data))], chars |-> Chars(r.data)] :
         r \in cutext_bufsource_read(1, src.st, n * sizeof_wchar)}
cutext_lsource_get(src) == cutext_lsource_read(src, 1)

\* What is looked at is read again, and passed.
cutext_lsource_skip(src, n) ==
    UNION {{[src |-> [st |-> r.st, at |-> Passed(src.at, Chars(l.data))], chars |-> Chars(r.data)] :
                r \in cutext_bufsource_read(1, l.st, Len(l.data))}
           : l \in cutext_bufsource_look(1, src.st, n * sizeof_wchar)}

\* Without a place for the number of characters those that lack are zero, in
\* the capacity of the buffer.
cutext_lsource_look(src, n, n_out) ==
    {LET lack == n * sizeof_wchar - Len(l.data)
     IN  [src |-> IF n_out \/ lack = 0 THEN [src EXCEPT !.st = l.st]
                  ELSE [src EXCEPT !.st = [l.st EXCEPT !.buf[1] = cu_buffer_extend_fullcap(@, n * sizeof_wchar)]],
          chars |-> IF n_out THEN Chars(l.data) ELSE Chars(l.data) \o [i \in 1..(lack \div sizeof_wchar) |-> 0]]
     : l \in cutext_bufsource_look(1, src.st, n * sizeof_wchar)}
cutext_lsource_peek(src) == cutext_lsource_look(src, 1, FALSE)
-----------------------------------------------------------------------------
\* ref: the stream, and how many of its characters were read.
Text(stream) == Chars(Converted(stream).out)
InitSource ==
    \E stream \in Streams, kind \in {"file", "memory"} :
        /\ con = cutext_lsource_init(kind, stream)
        /\ ref = [stream |-> stream, pos |-> 0]

ReadChars(n) ==
    \E r \in cutext_lsource_read(con, n) \cup cutext_lsource_skip(con, n) :
        /\ con' = r.src
        /\ ref' = [ref EXCEPT !.pos = @ + Len(r.chars)]
LookAtChars(n) ==
    /\ \E n_out \in BOOLEAN : \E r \in cutext_lsource_look(con, n, n_out) : con' = r.src
    /\ UNCHANGED ref
Reopen ==
    /\ con' = cutext_lsource_init(con.st.kind, ref.stream)
    /\ ref' = [ref EXCEPT !.pos = 0]

NextSource ==
    \/ ~con.st.failed /\ \E n \in 1..3 : ReadChars(n) \/ LookAtChars(n)
    \/ con.st.failed /\ Reopen

(* However little a file gives at a time, and in whatever order a client   *)
(* reads, skips and looks, what was read, what is in the two buffers above *)
(* the conversion, and the conversion of what is below are the text.       *)
Conserved ==
    ~con.st.failed =>
        /\ Chars(con.st.buf[1].data \o con.st.buf[2].data
                 \o Converted(con.st.buf[4].data \o con.st.rest).out) = From(ref.pos, Text(ref.stream))
        /\ \A k \in Buffers : con.st.buf[k].start + Len(con.st.buf[k].data) <= con.st.buf[k].size

(* As many characters as are asked for, or up to the end of the text, are  *)
(* read, skipped and looked at, whatever the buffers hold; a look that is  *)
(* to be filled up has zeros instead of those that lack.                   *)
LooksAhead ==
    ~con.st.failed =>
        \A n \in {1, 3} :
            LET there == First(n, From(ref.pos, Text(ref.stream)))
                Right(outcomes, chars) == \A r \in outcomes : r.src.st.failed \/ r.chars = chars
            IN  /\ Right(cutext_lsource_read(con, n), there)
                /\ Right(cutext_lsource_skip(con, n), there)
                /\ Right(cutext_lsource_look(con, n, TRUE), there)
                /\ Right(cutext_lsource_look(con, n, FALSE), there \o [i \in 1..(n - Len(there)) |-> 0])

\* The text read so far in its current line.
Read == First(ref.pos, Text(ref.stream))
Line == LET ends == {i \in DOMAIN Read : Read[i] = NL}
        IN  From(IF ends = {} THEN 0 ELSE CHOOSE i \in ends : \A j \in ends : j <= i, Read)
(* The line is the number of newlines passed; the column is where a tab    *)
(* stop or the character left it, at least the characters of the line; the *)
(* indentation is known from the first character that is no space.         *)
Located ==
    ~con.st.failed =>
        LET at == con.at IN
        /\ at.loc.line = 1 + Cardinality({i \in DOMAIN Read : Read[i] = NL})
        /\ at.loc.col >= Len(Line)
        /\ TAB \notin Range(Line) => at.loc.col = Len(Line)
        /\ Line # << >> /\ Line[Len(Line)] = TAB => at.loc.col % tabstop = 0
        /\ at.indentation = -1 <=> Range(Line) \subseteq {TAB, SPACE}
        /\ Line # << >> /\ Line[1] \notin {TAB, SPACE} => at.indentation = 0
        /\ \A ch \in {TAB, SPACE, NL, 1} :
               LET next == cutext_locbound_put_wchar(at.loc, ch)
                   l == [lb |-> at.loc, ub |-> next]
                   c == cu_location_init_cover(l, [lb |-> [line |-> 2, col |-> 1], ub |-> [line |-> 2, col |-> 4]])
               IN  /\ cu_locbound_cmp(at.loc, next) < 0
                   /\ cu_locbound_cmp(c.lb, at.loc) <= 0 /\ cu_locbound_cmp(next, c.ub) <= 0
                   /\ cu_locbound_cmp(c.lb, c.ub) < 0
=============================================================================
