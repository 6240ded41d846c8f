-------------------------------- MODULE IndexSet --------------------------------
(***************************************************************************)
(* IndexSet of the Realm object store: a set of indexes as a vector of     *)
(* chunks of ranges, with an operation of each kind on the vector.         *)
(* Indexes says what each of them is to do to the set.                     *)
(***************************************************************************)
EXTENDS Sequences, SequencesExt, FiniteSetsExt

Sets == INSTANCE Indexes

CONSTANTS
    MaxSize,   \* ChunkedRangeVector::max_size
    Bound,     \* indexes are below Bound
    ArgBound,  \* those of a set that is an argument are below ArgBound
    Allowed    \* "overflow": more chunks than a builder has been made for

ASSUME SizesOK ==
    /\ MaxSize \in Nat \ {0} /\ MaxSize % 2 = 0
    /\ Bound \in Nat /\ ArgBound \in 0 .. Bound

VARIABLE m_data   \* the chunks

vars == m_data

Positions == 0 .. Bound - 1
Arguments == SUBSET (0 .. ArgBound - 1)

npos == -1

-----------------------------------------------------------------------------
(* A range <<first, second>> ends before second.                           *)

Size(r) == r[2] - r[1]
Sizes(rs) == FoldLeft(LAMBDA n, r : n + Size(r), 0, rs)
Elements(r) == r[1] .. r[2] - 1

\* An iterator is the number of a chunk and of a range in it.
Begin == <<1, 1>>
End(s) == <<Len(s) + 1, 1>>
At(s, it) == s[it[1]].data[it[2]]
NextOf(s, it) ==
    IF it[2] < Len(s[it[1]].data) THEN <<it[1], it[2] + 1>> ELSE <<it[1] + 1, 1>>
PrevOf(s, it) ==
    IF it[2] > 1 THEN <<it[1], it[2] - 1>> ELSE <<it[1] - 1, Len(s[it[1] - 1].data)>>

Iterators(s) == FlattenSeq([c \in 1 .. Len(s) |-> [i \in 1 .. Len(s[c].data) |-> <<c, i>>]])
RangesOf(s) == FlattenSeq([c \in 1 .. Len(s) |-> s[c].data])
Members(s) == UNION {Elements(r) : r \in ToSet(RangesOf(s))}
Ascending(S) == [k \in 1 .. Cardinality(S) |-> CHOOSE i \in S : Cardinality(Sets!Below(S, i)) = k - 1]

\* set and adjust of an iterator: a range is replaced, and its chunk brought up to date.
set(s, it, r) ==
    LET c == s[it[1]] IN
    [s EXCEPT ![it[1]] =
        [data  |-> [c.data EXCEPT ![it[2]] = r],
         begin |-> IF it[2] = 1 THEN r[1] ELSE c.begin,
         end   |-> IF it[2] = Len(c.data) THEN r[2] ELSE c.end,
         count |-> c.count + Size(r) - Size(c.data[it[2]])]]

adjust(s, it, front, back) == set(s, it, <<At(s, it)[1] + front, At(s, it)[2] + back>>)

\* shift of it and of every iterator after it.
shift_from(s, it, d) ==
    LET from(c) == IF c = it[1] THEN it[2] ELSE 1
        moved(c) == LET data == s[c].data IN
            [data  |-> SubSeq(data, 1, from(c) - 1)
                       \o [i \in 1 .. Len(data) - from(c) + 1 |->
                              <<data[i + from(c) - 1][1] + d, data[i + from(c) - 1][2] + d>>],
             begin |-> IF from(c) = 1 THEN s[c].begin + d ELSE s[c].begin,
             end   |-> s[c].end + d,
             count |-> s[c].count]
    IN SubSeq(s, 1, it[1] - 1)
       \o [k \in 1 .. Len(s) - it[1] + 1 |-> moved(k + it[1] - 1)]

NewChunk(rs) == [data |-> rs, begin |-> rs[1][1], end |-> Last(rs)[2], count |-> Sizes(rs)]

push_back(s, r) ==
    IF s # <<>> /\ Len(Last(s).data) < MaxSize
    THEN [s EXCEPT ![Len(s)].data = Append(@, r), ![Len(s)].end = r[2],
                   ![Len(s)].count = @ + Size(r)]
    ELSE Append(s, NewChunk(<<r>>))

\* A full chunk is split in the middle.
ensure_space(s, it) ==
    IF Len(s[it[1]].data) < MaxSize THEN [s |-> s, it |-> it]
    ELSE LET c     == s[it[1]]
             half  == MaxSize \div 2
             kept  == SubSeq(c.data, 1, Len(c.data) - half)
             moved == SubSeq(c.data, Len(c.data) - half + 1, Len(c.data))
             prev  == [c EXCEPT !.data = kept, !.end = Last(kept)[2], !.count = @ - Sizes(moved)]
         IN [s  |-> ReplaceAt(InsertAt(s, it[1] + 1, NewChunk(moved)), it[1], prev),
             it |-> IF it[2] > half THEN <<it[1] + 1, it[2] - half>> ELSE it]

insert(s, it, r) ==
    IF it = End(s)
    THEN LET t == push_back(s, r) IN [s |-> t, it |-> PrevOf(t, End(t))]
    ELSE LET e == ensure_space(s, it) IN
         [s  |-> [e.s EXCEPT ![e.it[1]] =
                     [data  |-> InsertAt(@.data, e.it[2], r),
                      begin |-> Min({@.begin, r[1]}),
                      end   |-> Max({@.end, r[2]}),
                      count |-> @.count + Size(r)]],
          it |-> e.it]

\* The iterator to the range after the one that is erased.
erase(s, it) ==
    LET c    == s[it[1]]
        rest == RemoveAt(c.data, it[2])
    IN IF rest = <<>> THEN [s |-> RemoveAt(s, it[1]), it |-> it]
       ELSE [s  |-> [s EXCEPT ![it[1]] =
                        [data |-> rest, begin |-> rest[1][1], end |-> Last(rest)[2],
                         count |-> c.count - Size(c.data[it[2]])]],
             it |-> IF it[2] <= Len(rest) THEN it ELSE <<it[1] + 1, 1>>]

-----------------------------------------------------------------------------
(* ChunkedRangeVectorBuilder: ranges are appended, and joined with the last*)
(* one if they are next to it.                                             *)

Expected(s) == Len(RangesOf(s)) \div MaxSize + 1   \* the chunks it is made with

builder_push_back(expected, b, r) ==
    LET n == Len(b)
        c == b[n]
        k == Len(c.data)
    IN IF b = <<>> THEN <<NewChunk(<<r>>)>>
       ELSE IF r[1] = c.data[k][2]
       THEN [b EXCEPT ![n] = [c EXCEPT !.data[k] = <<@[1], r[2]>>, !.count = @ + Size(r),
                                       !.end = r[2]]]
       ELSE IF k < MaxSize
       THEN [b EXCEPT ![n] = [c EXCEPT !.data = Append(@, r), !.count = @ + Size(r),
                                       !.end = r[2]]]
       ELSE Append(b, [NewChunk(<<r>>) EXCEPT !.count = IF n < expected THEN @ ELSE 1])

Build(s, rs) == FoldLeft(LAMBDA b, r : builder_push_back(Expected(s), b, r), <<>>, rs)

One(i) == <<i, i + 1>>
Ones(is) == [k \in 1 .. Len(is) |-> One(is[k])]

-----------------------------------------------------------------------------
(* Queries.                                                                *)

\* The range that holds index, or else the first one after it; not before from.
find_from(s, index, from) ==
    LET C == {c \in from[1] .. Len(s) : s[c].end > index} IN
    IF C = {} THEN End(s)
    ELSE LET c == Min(C)
             k == IF c = from[1] THEN from[2] ELSE 1
         IN IF index < s[c].begin THEN <<c, 1>>
            ELSE <<c, Min({i \in k .. Len(s[c].data) : s[c].data[i][2] > index})>>

find(s, index) == find_from(s, index, Begin)

contains(s, index) == LET it == find(s, index) IN it # End(s) /\ At(s, it)[1] <= index

\* The last part of a count: whole chunks, then whole ranges, then a part of a range.
count_from(s, it, stop) ==
    LET c    == Min({d \in it[1] .. Len(s) : s[d].end > stop} \cup {Len(s) + 1})
        data == IF c <= Len(s) THEN s[c].data ELSE <<>>
        full == SelectSeq(data, LAMBDA r : r[2] <= stop)
        part == Len(full) + 1
    IN FoldLeft(LAMBDA n, d : n + d.count, 0, SubSeq(s, it[1], c - 1))
       + Sizes(full)
       + (IF part <= Len(data) /\ data[part][1] < stop THEN stop - data[part][1] ELSE 0)

count(s, start, stop) ==
    LET it    == find(s, start)
        c     == it[1]
        first == At(s, it)
        \* the ranges of the same chunk that end before stop
        whole == {i \in it[2] + 1 .. Len(s[c].data) : s[c].data[i][2] < stop}
        next  == NextOf(s, <<c, it[2] + Cardinality(whole)>>)
        head  == Size(<<Max({first[1], start}), first[2]>>)
                 + MapThenSumSet(LAMBDA i : Size(s[c].data[i]), whole)
    IN CASE it = End(s) \/ first[1] >= stop -> 0
         [] it # End(s) /\ first[1] < stop /\ first[2] >= stop ->
                Min({first[2], stop}) - Max({first[1], start})
         [] OTHER ->
                IF ~(start > first[1] \/ it[2] # 1) THEN count_from(s, it, stop)
                ELSE IF next = End(s) THEN head
                ELSE IF next[2] # 1 THEN head + (IF At(s, next)[1] < stop
                                                 THEN stop - At(s, next)[1] ELSE 0)
                ELSE IF At(s, next)[2] >= stop THEN head
                ELSE head + count_from(s, next, stop)

\* Mutant: an index that is in the set is not moved past its range.
shift_past_before(s, it, index) ==
    FoldLeft(LAMBDA a, p : IF p = a.it /\ At(s, p)[1] < a.index
                           THEN [it |-> NextOf(s, p), index |-> a.index + Size(At(s, p))]
                           ELSE a,
             [it |-> it, index |-> index], Iterators(s))

\* From it on, index is moved past each range that begins at it or before it.
shift_past(s, it, index) ==
    FoldLeft(LAMBDA a, p : IF p = a.it /\ At(s, p)[1] <= a.index
                           THEN [it |-> NextOf(s, p), index |-> a.index + Size(At(s, p))]
                           ELSE a,
             [it |-> it, index |-> index], Iterators(s))

shift(s, index) == shift_past(s, Begin, index).index

unshift(s, index) == index - count(s, 0, index)

-----------------------------------------------------------------------------
(* Changes.                                                                *)

\* it is where find has led.
do_add(s, it, index) ==
    LET before == it # Begin
        valid  == it # End(s)
        prev   == PrevOf(s, it)
    IN IF valid /\ At(s, it)[1] <= index /\ index < At(s, it)[2] THEN [s |-> s, it |-> it]
       ELSE IF before /\ At(s, prev)[2] = index
       THEN IF valid /\ At(s, it)[1] = index + 1
            THEN LET e == erase(adjust(s, prev, 0, 1 + Size(At(s, it))), it)
                 IN [s |-> e.s, it |-> PrevOf(e.s, e.it)]
            ELSE [s |-> adjust(s, prev, 0, 1), it |-> prev]
       ELSE IF valid /\ At(s, it)[1] = index + 1 THEN [s |-> adjust(s, it, -1, 0), it |-> it]
       ELSE insert(s, it, One(index))

add(s, index) == do_add(s, find(s, index), index).s

add_all(s, V) ==
    FoldLeft(LAMBDA a, i : do_add(a.s, find_from(a.s, i, a.it), i),
             [s |-> s, it |-> Begin], Ascending(V)).s

\* Mutant: two ranges that meet are not joined.
do_erase_apart(s, it, index) ==
    LET r == At(s, it)
        e == IF r[1] > index THEN [s |-> s, it |-> it]
             ELSE IF Size(r) = 1 THEN erase(s, it)
             ELSE [s |-> adjust(s, it, 0, -1), it |-> NextOf(s, it)]
    IN shift_from(e.s, e.it, -1)

do_erase(s, it, index) ==
    LET r    == At(s, it)
        prev == PrevOf(s, it)
        e    == IF r[1] <= index
                THEN IF Size(r) = 1 THEN erase(s, it)
                     ELSE [s |-> adjust(s, it, 0, -1), it |-> NextOf(s, it)]
                ELSE IF it # Begin /\ At(s, prev)[2] + 1 = r[1]
                THEN erase(adjust(s, prev, 0, Size(r)), it)
                ELSE [s |-> s, it |-> it]
    IN shift_from(e.s, e.it, -1)

RECURSIVE do_remove(_, _, _, _)
do_remove(s, from, begin, end) ==
    LET it == find_from(s, begin, from)
        r  == At(s, it)
        b  == Max({r[1], begin})
    IN CASE it = End(s) -> [s |-> s, it |-> it]
         [] it # End(s) /\ r[1] >= end -> [s |-> s, it |-> it]
         [] it # End(s) /\ r[1] < end ->
            LET e == CASE r[1] < b /\ r[2] > end ->
                            LET t == set(s, it, <<r[1], b>>)
                                n == insert(t, NextOf(t, it), <<end, r[2]>>)
                            IN [s |-> n.s, it |-> PrevOf(n.s, n.it)]
                       [] b = r[1] /\ end >= r[2] -> erase(s, it)
                       [] b = r[1] /\ end < r[2] -> [s |-> set(s, it, <<end, r[2]>>), it |-> it]
                       [] r[1] < b /\ r[2] <= end -> [s |-> set(s, it, <<r[1], b>>), it |-> it]
            IN do_remove(e.s, e.it, b, end)

remove(s, index, n) == do_remove(s, find(s, index), index, index + n).s

\* values is walked through range by range; the last iterator is where the next one begins.
remove_all(s, V) ==
    FoldLeft(LAMBDA a, r : IF a.it = End(a.s) THEN a ELSE do_remove(a.s, a.it, r[1], r[2]),
             [s |-> s, it |-> Begin], RangesOf(add_all(<<>>, V))).s

\* Returns the index that is added.
add_shifted(s, index) ==
    LET a == FoldLeft(LAMBDA x, c : IF s[c].end <= x.index /\ c = x.c
                                    THEN [c |-> c + 1, index |-> x.index + s[c].count] ELSE x,
                      [c |-> 1, index |-> index], [c \in 1 .. Len(s) |-> c])
        p == shift_past(s, <<a.c, 1>>, a.index)
    IN [s |-> do_add(s, p.it, p.index).s, ret |-> p.index]

add_shifted_by(s, by, V) ==
    LET old      == RangesOf(s)
        added(j) == Sizes(SelectSeq(RangesOf(add_all(<<>>, by)), LAMBDA r : r[1] <= j))
        passed(k) == Sizes(SubSeq(old, 1, k))
        indexes(rs) == FlattenSeq([k \in 1 .. Len(rs) |-> Ones(Ascending(Elements(rs[k])))])
        \* the ranges of s that come before the one for j
        upto(j, from) == Min({k \in from .. Len(old) :
                                k = Len(old) \/ old[k + 1][1] > j - added(j) + passed(k)})
        step(a, j) ==
            LET k == upto(j, a.k) IN
            [k |-> k, out |-> a.out \o indexes(SubSeq(old, a.k + 1, k))
                                    \o <<One(j - added(j) + passed(k))>>]
        a == FoldLeft(step, [k |-> 0, out |-> <<>>], Ascending(V \ by))
    IN IF V = {} THEN s ELSE Build(s, a.out \o SubSeq(old, a.k + 1, Len(old)))

insert_at(s, index, n) ==
    LET it       == find(s, index)
        existing == it # End(s) /\ At(s, it)[1] <= index
        moved    == IF existing THEN shift_from(adjust(s, it, 0, n), NextOf(s, it), n)
                    ELSE shift_from(s, it, n)
    IN IF existing THEN moved
       ELSE FoldLeft(LAMBDA a, i : LET d == do_add(a.s, a.it, i)
                                   IN [s |-> d.s, it |-> NextOf(d.s, d.it)],
                     [s |-> moved, it |-> it], [i \in 1 .. n |-> index + i - 1]).s

shift_for_insert_at(s, index, n) ==
    LET it == find(s, index)
        t  == shift_from(s, it, n)
        r  == At(t, it)
    IN IF it = End(s) THEN s
       ELSE IF r[1] < index + n
       THEN LET u == set(t, it, <<r[1] - n, index>>)
            IN insert(u, NextOf(u, it), <<index + n, r[2]>>).s
       ELSE t

\* The indexes of the set and those of values, both ascending: what the two loops push.
RECURSIVE Weave(_, _, _, _)
Weave(a, v, n, inserted) ==
    IF a = <<>> THEN IF inserted THEN v ELSE <<>>
    ELSE IF v = <<>> \/ a[1] + n < v[1] THEN <<a[1] + n>> \o Weave(Tail(a), v, n, inserted)
    ELSE (IF inserted THEN <<v[1]>> ELSE <<>>) \o Weave(a, Tail(v), n + 1, inserted)

RECURSIVE WeaveErased(_, _, _)
WeaveErased(a, v, n) ==
    IF a = <<>> THEN <<>>
    ELSE IF v = <<>> \/ a[1] < v[1] THEN <<a[1] - n>> \o WeaveErased(Tail(a), v, n)
    ELSE WeaveErased(IF a[1] = v[1] THEN Tail(a) ELSE a, Tail(v), n + 1)

insert_all_at(s, V) ==
    IF V = {} THEN s
    ELSE IF s = <<>> THEN add_all(<<>>, V)
    ELSE Build(s, Ones(Weave(Ascending(Members(s)), Ascending(V), 0, TRUE)))

shift_for_insert_all_at(s, V) ==
    IF s = <<>> \/ V = {} \/ (s # <<>> /\ V # {} /\ Min(V) >= Last(s).end) THEN s
    ELSE Build(s, Ones(Weave(Ascending(Members(s)), Ascending(V), 0, FALSE)))

erase_at(s, index) ==
    LET it == find(s, index) IN IF it = End(s) THEN s ELSE do_erase(s, it, index)

erase_all_at(s, V) ==
    IF s = <<>> \/ V = {} THEN s
    ELSE Build(s, Ones(WeaveErased(Ascending(Members(s)), Ascending(V), 0)))

\* Returns npos if the index was in the set.
erase_or_unshift(s, index) ==
    LET c    == Min({d \in 1 .. Len(s) : s[d].end > index} \cup {Len(s) + 1})
        n    == FoldLeft(LAMBDA x, d : x + d.count, 0, SubSeq(s, 1, c - 1))
        past == SelectSeq(s[c].data, LAMBDA r : r[2] <= index)
        it   == <<c, Len(past) + 1>>
    IN IF c > Len(s) THEN [s |-> s, ret |-> index - n]
       ELSE [s   |-> do_erase(s, it, index),
             ret |-> IF At(s, it)[1] <= index THEN npos ELSE index - n - Sizes(past)]

set_len(n) == IF n = 0 THEN <<>> ELSE push_back(<<>>, <<0, n>>)
clear == <<>>

-----------------------------------------------------------------------------
Init == m_data = <<>>

Fits == Members(m_data') \subseteq Positions

Add(i) == m_data' = add(m_data, i)
AddAll(V) == m_data' = add_all(m_data, V)
AddShifted(i) == m_data' = add_shifted(m_data, i).s /\ Fits
InsertIndex(i, n) == m_data' = insert_at(m_data, i, n) /\ Fits
InsertAll(V) == m_data' = insert_all_at(m_data, V) /\ Fits
MakeRoom(i, n) == m_data' = shift_for_insert_at(m_data, i, n) /\ Fits
MakeRoomForAll(V) == m_data' = shift_for_insert_all_at(m_data, V) /\ Fits
EraseIndex(i) == m_data' = erase_at(m_data, i)
EraseAll(V) == m_data' = erase_all_at(m_data, V)
EraseOrUnshift(i) == m_data' = erase_or_unshift(m_data, i).s
RemoveIndexes(i, n) == m_data' = remove(m_data, i, n)
RemoveAll(V) == m_data' = remove_all(m_data, V)
SetLen(n) == m_data' = set_len(n)
Clear == m_data' = clear

\* The chunks of the new set are as many as the builder has been made with.
NoOverflow(s, by, V) ==
    "overflow" \in Allowed \/ Len(add_shifted_by(s, by, V)) <= Expected(s)

AddShiftedBy(by, V) ==
    /\ NoOverflow(m_data, by, V)
    /\ m_data' = add_shifted_by(m_data, by, V) /\ Fits

Counts == 1 .. 2

Next ==
    \/ \E i \in Positions : Add(i) \/ AddShifted(i) \/ EraseIndex(i) \/ EraseOrUnshift(i)
    \/ \E i \in Positions, n \in Counts : InsertIndex(i, n) \/ MakeRoom(i, n) \/ RemoveIndexes(i, n)
    \/ \E V \in Arguments : AddAll(V) \/ InsertAll(V) \/ MakeRoomForAll(V) \/ EraseAll(V)
                                \/ RemoveAll(V)
    \/ \E by, V \in Arguments : AddShiftedBy(by, V)
    \/ \E n \in 0 .. Bound : SetLen(n)
    \/ Clear

Spec == Init /\ [][Next]_vars

-----------------------------------------------------------------------------
(* Properties.                                                             *)

\* After any operations the ranges ascend and do not touch, no chunk is empty or too long,
\* and what a chunk says of its begin, end and count is so: the assertions of verify
\* (index_set.cpp:186-208), on which find, count, add_shifted and unshift rely.
Normal ==
    /\ LET rs == RangesOf(m_data) IN
       \A k \in 1 .. Len(rs) : rs[k][1] < rs[k][2] /\ (k > 1 => rs[k - 1][2] < rs[k][1])
    /\ \A c \in 1 .. Len(m_data) :
        /\ Len(m_data[c].data) \in 1 .. MaxSize
        /\ m_data[c] = NewChunk(m_data[c].data)

\* Every change of the vector is the change of the set that index_set.hpp:140-187 describes,
\* and every answer is that of the set, however the set is cut into chunks.
ImplementsSets ==
    LET S == Members(m_data) IN
    /\ \A i \in Positions :
        /\ Members(add(m_data, i)) = S \cup {i}
        /\ Members(erase_at(m_data, i)) = Sets!EraseIndex(S, i)
        /\ LET a == add_shifted(m_data, i) IN
           a.ret = Sets!Shift(S, i) /\ Members(a.s) = Sets!AddShifted(S, i)
        /\ LET e == erase_or_unshift(m_data, i) IN
           /\ e.ret = IF i \in S THEN npos ELSE Sets!Unshift(S, i)
           /\ Members(e.s) = Sets!EraseIndex(S, i)
        /\ \A n \in Counts :
            /\ Members(insert_at(m_data, i, n)) = Sets!InsertIndex(S, i, n)
            /\ Members(shift_for_insert_at(m_data, i, n)) = Sets!MakeRoom(S, i, n)
            /\ Members(remove(m_data, i, n)) = S \ (i .. i + n - 1)
    /\ \A V \in Arguments :
        /\ Members(add_all(m_data, V)) = S \cup V
        /\ Members(remove_all(m_data, V)) = S \ V
        /\ Members(erase_all_at(m_data, V)) = Sets!EraseEach(S, V)
        /\ Members(insert_all_at(m_data, V)) = Sets!InsertEach(S, V)
        /\ Members(shift_for_insert_all_at(m_data, V)) = Sets!MakeRoomForEach(S, V)
        /\ \A by \in Arguments :
            Members(add_shifted_by(m_data, by, V)) = Sets!AddShiftedBy(S, by, V)
    \* contains, shift, unshift, and the counts from 0, which the change sets are made with
    /\ \A i \in Positions :
        /\ contains(m_data, i) = (i \in S)
        /\ shift(m_data, i) = Sets!Shift(S, i)
        /\ i \notin S => unshift(m_data, i) = Sets!Unshift(S, i)
        /\ count(m_data, 0, i) = Sets!CountIn(S, 0, i)
===============================================================================
