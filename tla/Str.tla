-------------------------------- MODULE Str --------------------------------
(***************************************************************************)
(* cu/str.c: byte strings.  A string refers to a part of an array and has  *)
(* the rest of that array as its capacity; strings made from others share  *)
(* the array, and at most one of them keeps the capacity.  The client has  *)
(* a string under each of Names, at most one build under way in another    *)
(* thread, and one C string that was returned to it.                       *)
(***************************************************************************)
EXTENDS Integers, Sequences, FiniteSets, SequencesExt

CONSTANTS
    Names,
    Start,              \* what the strings are made of before the client's steps
    Arrays,             \* arrays of characters that the client passes
    MaxLen,             \* longest string made
    Texts,              \* strings to compare, search and quote
    MaxSteps            \* operations in a behaviour

VARIABLES
    con,                \* the arrays, the strings, the build and the C string
    ref                 \* what the strings stand for, and the steps done

Nul == 0
Space == 3
Quote == 4
Newline == 5            \* also a space
Backslash == 6
LetterN == 7
Junk == 99              \* a byte of fresh memory
IsSpace(c) == c \in {Space, Newline}
index_none == -1
Larger(i, j) == IF i > j THEN i ELSE j
NullArr == 0            \* cu_str_init: no array

mem == con.mem
StrOf(arr, off, len, cap) == [arr |-> arr, off |-> off, len |-> len, cap |-> cap]
ByteAt(m, x, i) == m[x.arr][x.off + i + 1]
Contents(m, x) == [i \in 1..x.len |-> ByteAt(m, x, i - 1)]

\* Memory that nothing refers to is collected, and new arrays get free names.
NewArr(m) == CHOOSE i \in 1..(Cardinality(DOMAIN m) + 1) : i \notin DOMAIN m
Alloc(m, n) == [i \in DOMAIN m \cup {NewArr(m)} |-> IF i \in DOMAIN m THEN m[i] ELSE [k \in 1..n |-> Junk]]
Copy(m, arr, off, s) ==
    IF s = << >> THEN m
    ELSE [m EXCEPT ![arr] = [k \in DOMAIN @ |-> IF k \in (off + 1)..(off + Len(s)) THEN s[k - off] ELSE @[k]]]
Collect(m, strs, cstr) ==
    [i \in DOMAIN m \cap ({strs[n].arr : n \in DOMAIN strs} \cup {cstr.arr, NullArr}) |-> m[i]]

(* Operators return the memory m, the string str that is made or changed,  *)
(* and the operand x where the operation takes the capacity from it.       *)
Res(m, str) == [m |-> m, str |-> str]
Res2(m, str, x) == [m |-> m, str |-> str, x |-> x]
SHARING(x) == [x EXCEPT !.cap = 0]

cu_str_init == StrOf(NullArr, 0, 0, 0)
\* s and a new array of the given capacity, of which s is copied into the first bytes
InNew(m, s, cap) ==
    Res(Copy(Alloc(m, cap), NewArr(m), 0, s), StrOf(NewArr(m), 0, Len(s), cap))
cu_str_set_capacity(m, x, cap) == InNew(m, Contents(m, x), cap)
cu_str_init_charr(m, s) ==
    LET r == InNew(m, s, Len(s) + 1)
    IN  [r EXCEPT !.m = Copy(r.m, r.str.arr, Len(s), <<Nul>>)]
cu_str_init_static_cstr(m, s) == [cu_str_init_charr(m, s) EXCEPT !.str.cap = 0]
cu_str_init_uninit(m, n) == Res(Alloc(m, n + 1), StrOf(NewArr(m), 0, n, n + 1))
cu_str_init_2charr(m, s0, s1) == InNew(m, s0 \o s1, Len(s0) + Len(s1) + 1)
cu_str_init_3charr(m, s0, s1, s2) == InNew(m, s0 \o s1 \o s2, Len(s0) + Len(s1) + Len(s2) + 1)
cu_str_init_cstr_str(m, s, y) == InNew(m, s \o Contents(m, y), Len(s) + y.len + 1)

cu_str_new_copy(m, x) == Res2(m, StrOf(x.arr, x.off, x.len, 0), SHARING(x))
cu_str_substr(m, x, pos, len) == Res2(m, StrOf(x.arr, x.off + pos, len, 0), SHARING(x))
cu_str_suffix(m, x, pos) == cu_str_substr(m, x, pos, x.len - pos)
cu_str_assign(m, src) == Res2(m, StrOf(src.arr, src.off, src.len, 0), SHARING(src))

\* A concatenation is written behind x if that has the capacity, which then
\* goes over to the result.
Extending(m, x, s, cap, extra) ==
    IF x.len + Len(s) > cap
    THEN LET r == InNew(m, Contents(m, x) \o s, x.len + Len(s) + extra) IN Res2(r.m, r.str, x)
    ELSE Res2(Copy(m, x.arr, x.off + x.len, s), StrOf(x.arr, x.off, x.len + Len(s), cap), SHARING(x))
cu_str_init_2str(m, x, y) == Extending(m, x, Contents(m, y), x.cap, 1)
\* The capacity at the test, and what is there when it is grabbed.
cu_str_grab_cap(x) == x.cap
cu_str_init_str_cstr(m, x, s) == Extending(m, x, s, cu_str_grab_cap(x), 1)
cu_str_init_str_char(m, x, c) == Extending(m, x, <<c>>, cu_str_grab_cap(x), 0)

\* What follows is put behind the string, after a move to an array of cap bytes.
Moved(m, x, cap, s) == Res(Copy(Alloc(m, cap), NewArr(m), 0, Contents(m, x) \o s), StrOf(NewArr(m), 0, x.len + Len(s), cap))
InPlace(m, x, s) == Res(Copy(m, x.arr, x.off + x.len, s), [x EXCEPT !.len = @ + Len(s)])
cu_str_append_str(m, x, y) ==
    LET newsz == x.len + y.len
    IN  IF newsz > x.cap THEN Moved(m, x, IF newsz < x.cap * 2 THEN x.cap * 2 ELSE newsz, Contents(m, y))
        ELSE InPlace(m, x, Contents(m, y))
cu_str_append_char(m, x, c) ==
    IF x.cap <= x.len THEN Moved(m, x, 2 * x.len + 4, <<c>>) ELSE InPlace(m, x, <<c>>)
cu_str_append_charr(m, x, s) ==
    IF x.len + Len(s) > x.cap THEN Moved(m, x, Larger(x.cap * 2, x.len + Len(s)), s) ELSE InPlace(m, x, s)

cu_str_unappend(m, x, n) == Res(m, [x EXCEPT !.len = @ - n])
cu_str_assign_substr(m, x, pos, len) == Res(m, StrOf(x.arr, x.off + pos, len, x.cap - pos))
InsertIn(m, x, pos, s) ==
    Res(Copy(m, x.arr, x.off + pos, s \o SubSeq(Contents(m, x), pos + 1, x.len)), [x EXCEPT !.len = @ + Len(s)])
cu_str_insert_substr(m, x, y, pos) ==
    IF x.cap = 0 \/ y.len + x.len > x.cap
    THEN LET r == cu_str_set_capacity(m, x, y.len + x.len + 1) IN InsertIn(r.m, r.str, pos, Contents(m, y))
    ELSE InsertIn(m, x, pos, Contents(m, y))
EraseAt(m, x, pos, len) ==
    Res(Copy(m, x.arr, x.off + pos, SubSeq(Contents(m, x), pos + len + 1, x.len)), [x EXCEPT !.len = @ - len])
cu_str_erase_substr(m, x, pos, len) ==
    IF x.cap = 0
    THEN LET r == cu_str_set_capacity(m, x, x.len - len + 1) IN EraseAt(r.m, r.str, pos, len)
    ELSE EraseAt(m, x, pos, len)
Leading(s) == Cardinality({i \in 1..Len(s) : \A k \in 1..i : IsSpace(s[k])})
\* The first character that is no space is kept without a look at it.
Trailing(s) == Cardinality({i \in (Leading(s) + 2)..Len(s) : \A k \in i..Len(s) : IsSpace(s[k])})
Chopped(s) == Leading(s) + Trailing(s)
cu_str_chop_space(m, x) ==
    LET s == Contents(m, x)
    IN  Res(m, StrOf(x.arr, x.off + Leading(s), x.len - Chopped(s), x.cap - Chopped(s)))

\* The array itself is returned if it has room for the terminating byte.
cu_str_to_cstr(m, x) ==
    IF x.cap > x.len /\ cu_str_grab_cap(x) # 0
    THEN [m |-> Copy(m, x.arr, x.off + x.len, <<Nul>>), x |-> SHARING(x), cstr |-> [arr |-> x.arr, off |-> x.off]]
    ELSE LET r == InNew(m, Contents(m, x) \o <<Nul>>, x.len + 1)
         IN  [m |-> r.m, x |-> x, cstr |-> [arr |-> r.str.arr, off |-> 0]]
NoCstr == [arr |-> NullArr, off |-> 0]
CstrLen(m, c) == CHOOSE n \in 0..(Len(m[c.arr]) - c.off - 1) :
                     /\ m[c.arr][c.off + n + 1] = Nul
                     /\ \A k \in 1..n : m[c.arr][c.off + k] # Nul
CstrContents(m, c) == SubSeq(m[c.arr], c.off + 1, c.off + CstrLen(m, c))

\* strcoll in a locale that orders by bytes; it wants terminated strings, and
\* a string with capacity gets the byte behind it.
Terminate(m, x) == IF x.cap > x.len THEN Copy(m, x.arr, x.off + x.len, <<Nul>>) ELSE m
cu_str_coll_mem(m, x, y) == Terminate(Terminate(m, x), y)
-----------------------------------------------------------------------------
(* Comparison and search.                                                  *)
Sign(i) == IF i < 0 THEN -1 ELSE IF i > 0 THEN 1 ELSE 0
\* strncmp of two arrays that hold at least n bytes: no further than a Nul.
strncmp(s, t, n) ==
    LET D == {i \in 1..n : s[i] # t[i] /\ \A k \in 1..(i - 1) : s[k] # Nul}
    IN  IF D = {} THEN 0 ELSE LET i == CHOOSE k \in D : \A l \in D : k <= l IN Sign(s[i] - t[i])
memcmp(s, t, n) ==
    LET D == {i \in 1..n : s[i] # t[i]}
    IN  IF D = {} THEN 0 ELSE LET i == CHOOSE k \in D : \A l \in D : k <= l IN Sign(s[i] - t[i])
OrElse(i, j) == IF i # 0 THEN i ELSE j
cu_str_cmp(s, t) ==
    IF Len(s) = Len(t) THEN strncmp(s, t, Len(s))
    ELSE IF Len(s) < Len(t) THEN OrElse(strncmp(s, t, Len(s)), -1)
    ELSE OrElse(strncmp(s, t, Len(t)), 1)
cu_str_cmp_charr(s, t) ==
    IF Len(s) < Len(t) THEN -1 ELSE IF Len(s) > Len(t) THEN 1 ELSE memcmp(s, t, Len(t))
cu_str_eq(s, t) == Len(s) = Len(t) /\ memcmp(s, t, Len(s)) = 0
\* strcmp of the terminated copies
cu_str_coll(s, t) == strncmp(Append(s, Nul), Append(t, Nul), IF Len(s) < Len(t) THEN Len(s) + 1 ELSE Len(t) + 1)

FirstOf(S) == IF S = {} THEN index_none ELSE CHOOSE i \in S : \A k \in S : i <= k
LastOf(S) == IF S = {} THEN index_none ELSE CHOOSE i \in S : \A k \in S : k <= i
cu_str_chr_in_substr(s, pos, len, c) == FirstOf({i \in pos..(pos + len - 1) : s[i + 1] = c})
cu_str_rchr_in_substr(s, pos, len, c) == LastOf({i \in pos..(pos + len - 1) : s[i + 1] = c})
cu_str_chr(s, c) == cu_str_chr_in_substr(s, 0, Len(s), c)
cu_str_rchr(s, c) == cu_str_rchr_in_substr(s, 0, Len(s), c)
cu_str_subeq_charr(s, pos, t) ==
    pos + Len(t) <= Len(s) /\ strncmp(SubSeq(s, pos + 1, Len(s)), t, Len(t)) = 0

\* The next word behind position at, or none.
NextNonspace(s, at) == FirstOf({i \in at..(Len(s) - 1) : ~IsSpace(s[i + 1])})
WordEnd(s, at) == LET S == {i \in at..(Len(s) - 1) : IsSpace(s[i + 1])} IN IF S = {} THEN Len(s) ELSE FirstOf(S)
cu_str_next_space_delimited(s, pos, len) ==
    LET i == NextNonspace(s, pos + len)
    IN  IF i = index_none THEN [ok |-> FALSE, pos |-> pos, len |-> len]
        ELSE [ok |-> TRUE, pos |-> i, len |-> WordEnd(s, i) - i]

Escaped(c) ==
    IF c = Newline THEN <<Backslash, LetterN>> ELSE IF c \in {Backslash, Quote} THEN <<Backslash, c>> ELSE <<c>>
cu_str_quote(s) == <<Quote>> \o FoldLeft(LAMBDA t, c : t \o Escaped(c), << >>, s) \o <<Quote>>
-----------------------------------------------------------------------------
(* The client.  A concatenation may have taken over the capacity behind    *)
(* its first operand, its donor.  If it is shortened or edited in place,   *)
(* then it may be written over its donors: those are spoilt by that, and   *)
(* not used again.                                                         *)

Spoilt == <<-1>>
Strs == con.str
Val == ref.val
Sharers(n) == {k \in Names \ {n} : Strs[k].arr = Strs[n].arr}
Whole(k) == Val[k] # Spoilt
\* The string that a build under way makes, and the one that it uses.
Built == {con.build[i] : i \in DOMAIN con.build \cap {1}}
BuiltOn == {con.build[i] : i \in DOMAIN con.build \cap {2}}
Inits == Names \ (Built \cup BuiltOn)
\* A string that another thread is building on may be read, but not changed.
Mutable == {n \in Inits : Whole(n)}
Readable == {n \in Names \ Built : Whole(n)}
ShortEnough(n) == n <= MaxLen

Put(m, strs, build, cstr, val, cval, donors) ==
    /\ con' = [mem |-> Collect(m, strs, cstr), str |-> strs, build |-> build, cstr |-> cstr]
    /\ ref' = [val |-> val, cval |-> cval, donors |-> donors, steps |-> ref.steps + 1]
\* n is new, and donates nothing any more.
DonorsWith(n, S) == [k \in Names |-> IF k = n THEN S ELSE ref.donors[k] \ {n}]
New(n, r, v) ==
    Put(r.m, [Strs EXCEPT ![n] = r.str], con.build, con.cstr, [Val EXCEPT ![n] = v], ref.cval, DonorsWith(n, {}))
\* A part of a donor is a donor as well.
Share(n, x, r, v) ==
    Put(r.m, [Strs EXCEPT ![n] = r.str, ![x] = r.x], con.build, con.cstr, [Val EXCEPT ![n] = v], ref.cval,
        [k \in Names |-> DonorsWith(n, {})[k] \cup {i \in {n} \ {k} : x \in ref.donors[k]}])
Extend(n, x, r, v, build) ==
    Put(r.m, [Strs EXCEPT ![n] = r.str, ![x] = r.x], build, con.cstr, [Val EXCEPT ![n] = v], ref.cval,
        DonorsWith(n, {x} \cup ref.donors[x]))
More(n, r, v) ==
    Put(r.m, [Strs EXCEPT ![n] = r.str], con.build, con.cstr, [Val EXCEPT ![n] = v], ref.cval, ref.donors)
Edit(n, r, v) ==
    /\ BuiltOn \cap ref.donors[n] = {}
    /\ Put(r.m, [Strs EXCEPT ![n] = r.str], con.build, con.cstr,
           [k \in Names |-> IF k = n THEN v ELSE IF k \in ref.donors[n] THEN Spoilt ELSE Val[k]], ref.cval, ref.donors)

RECURSIVE Started(_)
Started(S) ==
    IF S = {} THEN [m |-> [i \in {NullArr} |-> << >>], strs |-> [n \in Names |-> cu_str_init]]
    ELSE LET n == CHOOSE k \in S : \A l \in S : k >= l
             t == Started(S \ {n})
             r == cu_str_init_charr(t.m, Start[n])
         IN  [m |-> r.m, strs |-> [t.strs EXCEPT ![n] = r.str]]

Init ==
    /\ con = [mem |-> Started(DOMAIN Start).m, str |-> Started(DOMAIN Start).strs, build |-> << >>, cstr |-> NoCstr]
    /\ ref = [val |-> [n \in Names |-> IF n \in DOMAIN Start THEN Start[n] ELSE << >>], cval |-> << >>,
              donors |-> [n \in Names |-> {}], steps |-> 0]

Make(n) ==
    \/ \E s \in Arrays : \/ New(n, cu_str_init_charr(mem, s), s)
                         \/ New(n, cu_str_init_static_cstr(mem, s), s)
    \/ New(n, cu_str_init_uninit(mem, 1), <<Junk>>)
    \/ \E s \in Arrays, t \in Arrays : New(n, cu_str_init_2charr(mem, s, t), s \o t)
    \/ \E s \in Arrays : New(n, cu_str_init_3charr(mem, s, s, s), s \o s \o s)
    \/ \E y \in Readable \ {n}, s \in Arrays :
         ShortEnough(Strs[y].len + Len(s)) /\ New(n, cu_str_init_cstr_str(mem, s, Strs[y]), s \o Val[y])
    \/ \E x \in Readable \ {n} :
         \/ Share(n, x, cu_str_new_copy(mem, Strs[x]), Val[x])
         \/ Share(n, x, cu_str_assign(mem, Strs[x]), Val[x])
         \/ \E i \in 0..Strs[x].len : Share(n, x, cu_str_suffix(mem, Strs[x], i), SubSeq(Val[x], i + 1, Strs[x].len))
         \/ \E i \in 0..Strs[x].len : \E j \in i..Strs[x].len :
              Share(n, x, cu_str_substr(mem, Strs[x], i, j - i), SubSeq(Val[x], i + 1, j))
    \/ \E x \in Mutable \ {n}, y \in Readable \ {n} :
         /\ ShortEnough(Strs[x].len + Strs[y].len)
         /\ Extend(n, x, cu_str_init_2str(mem, Strs[x], Strs[y]), Val[x] \o Val[y], con.build)
    \/ \E x \in Readable \ {n}, s \in Arrays :
         /\ ShortEnough(Strs[x].len + Len(s))
         /\ \/ Extend(n, x, cu_str_init_str_cstr(mem, Strs[x], s), Val[x] \o s, con.build)
            \/ Extend(n, x, cu_str_init_str_char(mem, Strs[x], s[1]), Append(Val[x], s[1]), con.build)

Change(n) ==
    \/ \E y \in Readable :
         /\ ShortEnough(Strs[n].len + Strs[y].len)
         /\ More(n, cu_str_append_str(mem, Strs[n], Strs[y]), Val[n] \o Val[y])
    \/ \E s \in Arrays :
         /\ ShortEnough(Strs[n].len + Len(s))
         /\ \/ More(n, cu_str_append_charr(mem, Strs[n], s), Val[n] \o s)
            \/ More(n, cu_str_append_char(mem, Strs[n], s[1]), Append(Val[n], s[1]))
    \/ \E i \in 1..Strs[n].len : Edit(n, cu_str_unappend(mem, Strs[n], i), SubSeq(Val[n], 1, Strs[n].len - i))
    \* What is cut off in front is taken from the capacity, which must have it.
    \/ \E i \in 0..Strs[n].len : \E j \in i..Strs[n].len :
         /\ i <= Strs[n].cap
         /\ Edit(n, cu_str_assign_substr(mem, Strs[n], i, j - i), SubSeq(Val[n], i + 1, j))
    \/ /\ Chopped(Val[n]) <= Strs[n].cap
       /\ Edit(n, cu_str_chop_space(mem, Strs[n]),
               SubSeq(Val[n], Leading(Val[n]) + 1, Strs[n].len - Trailing(Val[n])))
    \* Not from the array that is moved up.
    \/ \E y \in Readable \ ({n} \cup ref.donors[n]), i \in 0..(Strs[n].len - 1) :
         /\ ShortEnough(Strs[n].len + Strs[y].len)
         /\ Edit(n, cu_str_insert_substr(mem, Strs[n], Strs[y], i),
                 SubSeq(Val[n], 1, i) \o Val[y] \o SubSeq(Val[n], i + 1, Strs[n].len))
    \* Of a shared string the copy has room for one character less only.
    \/ \E i \in 0..Strs[n].len : \E j \in i..Strs[n].len :
         /\ Strs[n].cap > 0 \/ j - i <= 1
         /\ Edit(n, cu_str_erase_substr(mem, Strs[n], i, j - i),
                 SubSeq(Val[n], 1, i) \o SubSeq(Val[n], j + 1, Strs[n].len))

ToCstr(x) ==
    LET r == cu_str_to_cstr(mem, Strs[x])
    IN  Put(r.m, [Strs EXCEPT ![x] = r.x], con.build, r.cstr, Val, Val[x], ref.donors)
Coll(x, y) == Put(cu_str_coll_mem(mem, Strs[x], Strs[y]), Strs, con.build, con.cstr, Val, ref.cval, ref.donors)

\* Another thread finds that x has the capacity for one more character ...
BuildStart(n, x, c) ==
    /\ con.build = << >> /\ n # x /\ Strs[x].len + 1 <= Strs[x].cap
    /\ con' = [con EXCEPT !.build = <<n, x, c>>, !.str[n] = cu_str_init]
    /\ ref' = [ref EXCEPT !.steps = @ + 1, !.val[n] = Spoilt, !.donors = DonorsWith(n, {})]
\* ... and has what is left of it by now.
BuildFinish ==
    LET n == con.build[1]
        x == con.build[2]
        r == cu_str_init_str_char(mem, Strs[x], con.build[3])
    IN  Extend(n, x, r, Append(Val[x], con.build[3]), << >>)

Next ==
    \/ /\ ref.steps < MaxSteps
       /\ \/ \E n \in Inits : Make(n)
          \/ \E n \in Mutable : Change(n)
          \/ \E x \in Readable : ToCstr(x)
          \/ \E x \in Readable, y \in Readable : Coll(x, y)
          \/ \E n \in Names, x \in Readable, s \in Arrays : BuildStart(n, x, s[1])
    \/ con.build # << >> /\ BuildFinish
    \/ ref.steps >= MaxSteps /\ con.build = << >> /\ UNCHANGED <<con, ref>>

(* A string has room for its capacity, and at most one of the strings that *)
(* share an array has capacity in it, behind all that the others see.      *)
Apart ==
    \A n \in Names :
      /\ Strs[n].off + Larger(Strs[n].len, Strs[n].cap) <= Len(mem[Strs[n].arr])
      /\ Strs[n].cap > 0 /\ Whole(n) =>
           \A k \in Sharers(n) : Whole(k) => /\ Strs[k].cap = 0
                                             /\ Strs[k].off + Strs[k].len <= Strs[n].off + Strs[n].len

(* Whatever is done with other strings that share its array, a string has  *)
(* its characters; so has the C string that was handed out.                *)
Independent ==
    /\ \A n \in Names : Whole(n) => Contents(mem, Strs[n]) = Val[n]
    /\ con.cstr # NoCstr => CstrContents(mem, con.cstr) = ref.cval

(* The three comparisons agree about equality, as tables and trees keyed   *)
(* by strings need it, and each is an order; two of them are the same.     *)
Compared ==
    \A s, t \in Texts :
      /\ cu_str_eq(s, t) <=> s = t
      /\ cu_str_cmp(s, t) = 0 <=> s = t
      /\ cu_str_cmp_charr(s, t) = 0 <=> s = t
      /\ cu_str_cmp(s, t) = -cu_str_cmp(t, s) /\ cu_str_cmp_charr(s, t) = -cu_str_cmp_charr(t, s)
      /\ cu_str_coll(s, t) = cu_str_cmp(s, t)
      /\ \A u \in Texts : /\ cu_str_cmp(s, t) = -1 /\ cu_str_cmp(t, u) = -1 => cu_str_cmp(s, u) = -1
                         /\ cu_str_cmp_charr(s, t) = -1 /\ cu_str_cmp_charr(t, u) = -1 => cu_str_cmp_charr(s, u) = -1

(* The words of a string are its longest parts without spaces; characters  *)
(* and parts are found where they are; and a quoted string can be read     *)
(* back.                                                                   *)
RECURSIVE WordsFrom(_, _), Unquoted(_)
WordsFrom(s, w) == IF w.ok THEN {<<w.pos, w.len>>} \cup WordsFrom(s, cu_str_next_space_delimited(s, w.pos, w.len)) ELSE {}
Unquoted(s) ==
    IF s = << >> THEN << >>
    ELSE IF s[1] # Backslash THEN <<s[1]>> \o Unquoted(Tail(s))
    ELSE <<IF s[2] = LetterN THEN Newline ELSE s[2]>> \o Unquoted(SubSeq(s, 3, Len(s)))
Parsed ==
    \A s \in Texts :
      LET word(i, j) == /\ i < j /\ \A k \in (i + 1)..j : ~IsSpace(s[k])
                        /\ i = 0 \/ IsSpace(s[i])
                        /\ j = Len(s) \/ IsSpace(s[j + 1])
          q == cu_str_quote(s)
      IN  /\ WordsFrom(s, cu_str_next_space_delimited(s, 0, 0)) = {<<i, j - i>> : <<i, j>> \in {p \in (0..Len(s)) \X (0..Len(s)) : word(p[1], p[2])}}
          /\ Head(q) = Quote /\ Last(q) = Quote /\ Unquoted(SubSeq(q, 2, Len(q) - 1)) = s
          /\ \A k \in 2..(Len(q) - 1) : q[k] = Quote => q[k - 1] = Backslash
          /\ \A c \in {Space, 1} : /\ cu_str_chr(s, c) = index_none <=> c \notin {s[i] : i \in 1..Len(s)}
                                   /\ cu_str_chr(s, c) <= cu_str_rchr(s, c)
                                   /\ \A i \in 0..Len(s) : \A j \in i..Len(s) :
                                        LET f == cu_str_chr_in_substr(s, i, j - i, c)
                                            l == cu_str_rchr_in_substr(s, i, j - i, c)
                                        IN  IF f = index_none THEN l = index_none /\ \A k \in (i + 1)..j : s[k] # c
                                            ELSE /\ s[f + 1] = c /\ s[l + 1] = c /\ i <= f /\ f <= l /\ l < j
                                                 /\ \A k \in ((i + 1)..f) \cup ((l + 2)..j) : s[k] # c
          /\ \A i \in 0..Len(s) : \A t \in Texts :
               cu_str_subeq_charr(s, i, t) <=> i + Len(t) <= Len(s) /\ SubSeq(s, i + 1, i + Len(t)) = t
=============================================================================
