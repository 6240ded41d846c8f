------------------------- MODULE CollectionChangeBuilder -------------------------
(***************************************************************************)
(* The change sets of the Realm object store: what they are built from     *)
(* while the transaction log is read, how those of several transactions    *)
(* are merged for a callback that has not been told yet, and how those of  *)
(* Results are calculated from the rows before and after.                  *)
(*                                                                         *)
(* The sets of indexes are sets here, with the operations of Indexes;      *)
(* IndexSet shows that the vectors of the code do what Indexes says.       *)
(***************************************************************************)
EXTENDS Indexes, Sequences, SequencesExt, FiniteSetsExt

\* A CollectionChangeBuilder. mapping is m_move_mapping: new index to old index.
NoMapping == [i \in {} |-> 0]
NoChange == [deletions |-> {}, insertions |-> {}, modifications |-> {}, moves |-> <<>>,
             mapping |-> NoMapping]

IsEmpty(b) == /\ b.deletions = {} /\ b.insertions = {} /\ b.modifications = {}
              /\ b.moves = <<>>

\* The n-th of the members, by size, and the entries of a sequence at them.
Nth(S, n) == CHOOSE i \in S : Cardinality(Below(S, i)) = n - 1
Picked(s, S) == [n \in 1 .. Cardinality(S) |-> s[Nth(S, n)]]

Each(moves, Op(_)) == [k \in 1 .. Len(moves) |-> Op(moves[k])]

Without(f, i) == RestrictDomain(f, LAMBDA j : j # i)
Extended(f, i, v) == [j \in DOMAIN f \cup {i} |-> IF j = i THEN v ELSE f[j]]

-----------------------------------------------------------------------------
(* Lists of links, and rows that are inserted.                             *)

Inserted(b, i, track) ==
    LET m == [b EXCEPT !.modifications = MakeRoom(@, i, 1)]
        up(j) == IF j >= i THEN j + 1 ELSE j
    IN IF ~track THEN m
       ELSE [m EXCEPT
                !.insertions = InsertIndex(@, i, 1),
                !.moves = Each(@, LAMBDA v : [v EXCEPT !.to = up(@)]),
                !.mapping = [j \in {up(k) : k \in DOMAIN @} |->
                                @[CHOOSE k \in DOMAIN @ : up(k) = j]]]

\* Mutant: the rows inserted before are counted.
DeletedAsCounted(b, i) ==
    [b EXCEPT !.insertions = EraseIndex(@, i),
              !.deletions = IF i \in b.insertions THEN @ ELSE AddShifted(@, i)]

\* erase_or_unshift, and add_shifted for what was not inserted.
Deleted(b, i) ==
    [b EXCEPT !.insertions = EraseIndex(@, i),
              !.deletions = IF i \in b.insertions THEN @
                            ELSE AddShifted(@, Unshift(b.insertions, i))]

Erased(b, i) ==
    [Deleted(b, i) EXCEPT
        !.modifications = EraseIndex(@, i),
        !.moves = Each(Picked(@, {k \in 1 .. Len(@) : @[k].to # i}),
                       LAMBDA v : IF v.to > i THEN [v EXCEPT !.to = @ - 1] ELSE v)]

\* A list's log has the size before, a table's has not.
Cleared(b, size) ==
    [NoChange EXCEPT !.deletions = 0 .. size + Cardinality(b.deletions)
                                             - Cardinality(b.insertions) - 1]

TableCleared(limit) == [NoChange EXCEPT !.deletions = 0 .. limit - 1]

Moved(b, from, to) ==
    LET again == \E k \in 1 .. Len(b.moves) : b.moves[k].to = from
        other(v) == CASE v.to = from -> to
                      [] v.to # from /\ v.to >= to /\ v.to < from -> v.to + 1
                      [] v.to <= to /\ v.to > from -> v.to - 1
                      [] OTHER -> v.to
        moves == Each(b.moves, LAMBDA v : [v EXCEPT !.to = other(v)])
        source == Shift(b.deletions, Unshift(b.insertions, from))
        mods == MakeRoom(EraseIndex(b.modifications, from), to, 1)
                    \cup (IF from \in b.modifications THEN {to} ELSE {})
        placed == [b EXCEPT !.insertions = InsertIndex(EraseIndex(@, from), to, 1),
                            !.moves = moves, !.modifications = mods]
    IN IF again \/ from \in b.insertions THEN placed
       ELSE [placed EXCEPT !.deletions = @ \cup {source},
                           !.moves = Append(@, [from |-> source, to |-> to])]

Modified(b, i) == [b EXCEPT !.modifications = @ \cup {i}]

\* A move that leaves a row where it is among the others is none.
WithoutStale(a, v) ==
    IF v.from - CountIn(a.deletions, 0, v.from) = v.to - CountIn(a.insertions, 0, v.to)
    THEN [a EXCEPT !.deletions = @ \ {v.from}, !.insertions = @ \ {v.to}]
    ELSE [a EXCEPT !.moves = Append(@, v)]

CleanedUp(b) ==
    LET a[k \in 0 .. Len(b.moves)] ==
            IF k = 0 THEN [b EXCEPT !.moves = <<>>] ELSE WithoutStale(a[k - 1], b.moves[k])
    IN a[Len(b.moves)]

-----------------------------------------------------------------------------
(* Tables, whose rows are erased by moving the last one over them.  Without *)
(* track only the modifications are kept.                                   *)

\* Mutant: the modification of the row that is gone stays.
ReplacedKeeping(mods, from, to) == (mods \ {from}) \cup (IF from \in mods THEN {to} ELSE {})

\* A row takes the place of another, with its modifications.
Replaced(mods, from, to) == (mods \ {from, to}) \cup (IF from \in mods THEN {to} ELSE {})

\* deletions.add_shifted(insertions.unshift(i))
Lost(b, i) == AddShifted(b.deletions, Unshift(b.insertions, i))
Source(b, i) == Shift(b.deletions, Unshift(b.insertions, i))

MovedOver(b, i, last, track) ==
    LET m == [b EXCEPT !.modifications = IF i = last THEN @ \ {i} ELSE Replaced(@, last, i)]
        rowIsNew  == i \in b.insertions
        lastIsNew == last \in b.insertions
        again     == lastIsNew /\ last \in DOMAIN b.mapping
        mapping   ==
            IF again THEN Extended(Without(b.mapping, last), i, b.mapping[last])
            ELSE LET rest == IF rowIsNew THEN Without(b.mapping, i) ELSE b.mapping
                 IN IF lastIsNew THEN rest ELSE Extended(rest, i, Source(b, last))
        \* the last row, then the one moved over
        c == IF lastIsNew THEN [m EXCEPT !.insertions = @ \ {last}]
             ELSE [m EXCEPT !.deletions = Lost(b, last)]
        d == IF rowIsNew THEN c
             ELSE [c EXCEPT !.deletions = Lost(c, i), !.insertions = @ \cup {i}]
    IN IF ~track THEN m
       ELSE IF i = last THEN [Deleted(m, i) EXCEPT !.mapping = Without(@, i)]
       ELSE [d EXCEPT !.mapping = mapping]

\* What was a row of the old table is moved from i to j, and its place is an insertion.
SwappedOne(b, i, j) ==
    IF i \in b.insertions THEN b
    ELSE [b EXCEPT !.mapping = Extended(@, j, Source(b, i)), !.deletions = Lost(b, i),
                   !.insertions = @ \cup {i}]

Swapped(b, i, j, track) ==
    LET lo == Min({i, j})
        hi == Max({i, j})
        exchange(mods) == {IF k = lo THEN hi ELSE IF k = hi THEN lo ELSE k : k \in mods}
        m == [b EXCEPT !.modifications = exchange(@)]
        M == DOMAIN b.mapping
        \* the row at k was moved there before: now it is at l
        updated(k, l) == SwappedOne([m EXCEPT !.mapping = Extended(Without(@, k), l, @[k])], l, k)
    IN CASE ~track -> m
         [] track /\ lo \in M /\ hi \in M ->
                [m EXCEPT !.mapping = [@ EXCEPT ![lo] = b.mapping[hi], ![hi] = b.mapping[lo]]]
         [] track /\ lo \in M /\ hi \notin M -> updated(lo, hi)
         [] track /\ lo \notin M /\ hi \in M -> updated(hi, lo)
         [] OTHER -> SwappedOne(SwappedOne(m, hi, lo), lo, hi)

\* The row at new, which has just been inserted, takes over the links of the one at old.
Subsumed(b, old, new, track) ==
    LET m == [b EXCEPT !.modifications = @ \cup (IF old \in @ THEN {new} ELSE {})] IN
    CASE ~track -> m
      [] track /\ old \in DOMAIN b.mapping ->
            [m EXCEPT !.mapping = Extended(Without(@, old), new, @[old])]
      [] OTHER -> IF old \in b.insertions THEN m
                  ELSE [m EXCEPT !.mapping = Extended(@, new, Source(b, old))]

\* The mapping becomes moves, in the order of their sources.
Completed(b) ==
    LET still == {i \in DOMAIN b.mapping : b.mapping[i] = i}
        from  == {b.mapping[i] : i \in DOMAIN b.mapping \ still}
        to(f) == CHOOSE i \in DOMAIN b.mapping : b.mapping[i] = f
    IN [b EXCEPT !.deletions = @ \ still, !.insertions = @ \ still, !.mapping = NoMapping,
                 !.moves = @ \o [n \in 1 .. Cardinality(from) |->
                                    [from |-> Nth(from, n), to |-> to(Nth(from, n))]]]

-----------------------------------------------------------------------------
(* Change sets one after the other.                                        *)

MoveFrom(moves, i) == {k \in 1 .. Len(moves) : moves[k].from = i}

\* A move of b: moved again by c, deleted by c, or shifted by c.  A move of c that is used up
\* is replaced by the last one.
MovedAgain(b, c, a, v) ==
    LET K == MoveFrom(a.c.moves, v.to)
        k == Min(K)
    IN IF K # {}
       THEN [a EXCEPT
                !.moves = Append(@, [v EXCEPT !.to = a.c.moves[k].to]),
                !.c.moves = Front(ReplaceAt(@, k, Last(@))),
                !.c.modifications = IF v.to \in b.modifications
                                    THEN @ \cup {a.c.moves[k].to} ELSE @]
       ELSE IF v.to \in c.deletions THEN a
       ELSE [a EXCEPT !.moves = Append(@, [v EXCEPT
                !.to = Shift(c.insertions, Unshift(c.deletions, @))])]

MergedMoves(b, c) ==
    LET a[k \in 0 .. Len(b.moves)] ==
            IF k = 0 THEN [moves |-> <<>>, c |-> c] ELSE MovedAgain(b, c, a[k - 1], b.moves[k])
    IN a[Len(b.moves)]

\* The moves of rows that b leaves where they are.
NewMoves(b, c) == Picked(c.moves, {k \in 1 .. Len(c.moves) : c.moves[k].from \notin b.insertions})

\* b and c, but for the modifications: moves are those of b as c leaves them.
Joined(b, c, moves) ==
    [b EXCEPT !.moves = moves \o Each(NewMoves(b, c), LAMBDA v : [v EXCEPT !.from = Source(b, @)]),
              !.deletions = AddShiftedBy(@, b.insertions, c.deletions),
              !.insertions = InsertEach(EraseEach(@, c.deletions), c.insertions)]

JoinedModifications(b, c) ==
    LET moved == {k \in 1 .. Len(NewMoves(b, c)) : NewMoves(b, c)[k].from \in b.modifications}
    IN MakeRoomForEach(EraseEach(b.modifications, c.deletions), c.insertions)
            \cup c.modifications \cup {NewMoves(b, c)[k].to : k \in moved}

Merge(b, c) ==
    LET x == MergedMoves(b, c) IN
    IF IsEmpty(c) THEN b
    ELSE IF IsEmpty(b) THEN c
    ELSE [CleanedUp(Joined(b, x.c, x.moves)) EXCEPT !.modifications = JoinedModifications(b, x.c)]

\* What the callback is given: modifications in the old collection and in the new one.
Finalized(b) ==
    [deletions |-> b.deletions, insertions |-> b.insertions, moves |-> b.moves,
     modifications |-> MakeRoomForEach(EraseEach(b.modifications, b.insertions), b.deletions),
     modifications_new |-> b.modifications \ b.insertions]

-----------------------------------------------------------------------------
(* Results: the rows that matched before, by their indexes in the table as *)
(* it is now or npos, and those that match now.                            *)

npos == -1

\* How many of the moves lower_bound finds to be from before i, by bisection: what merge has
\* put together need not be sorted.
Halved(moves, i, s) ==
    LET mid == s.first + s.n \div 2 IN
    IF s.n = 0 THEN s
    ELSE IF moves[mid + 1].from < i THEN [first |-> mid + 1, n |-> s.n - s.n \div 2 - 1]
    ELSE [s EXCEPT !.n = @ \div 2]

LowerBound(moves, i) ==
    LET search[k \in 0 .. Len(moves)] ==
            IF k = 0 THEN [first |-> 0, n |-> Len(moves)] ELSE Halved(moves, i, search[k - 1])
    IN search[Len(moves)].first

\* Mutant: the rows deleted before are still counted.
CurrentIndexAsBefore(c, i) ==
    LET k == LowerBound(c.moves, i) + 1 IN
    IF i \notin c.deletions THEN Shift(c.insertions, i)
    ELSE IF k <= Len(c.moves) /\ c.moves[k].from = i THEN c.moves[k].to ELSE npos

\* The index that a row of the old table has in the new one (ResultsNotifier::calculate_changes).
CurrentIndex(c, i) ==
    LET k == LowerBound(c.moves, i) + 1 IN
    IF i \notin c.deletions THEN Shift(c.insertions, Unshift(c.deletions, i))
    ELSE IF k <= Len(c.moves) /\ c.moves[k].from = i THEN c.moves[k].to ELSE npos

IndexOf(s, x) == CHOOSE k \in 1 .. Len(s) : s[k] = x

\* What both the algorithms begin with: the rows that stay, in their new order.
Kept(prev, next) ==
    LET stay == SelectSeq([j \in 1 .. Len(next) |-> <<next[j], j - 1>>],
                          LAMBDA p : p[1] \in ToSet(prev))
        gone(i) == Cardinality({k \in 1 .. i : prev[k] = npos})
    IN Each(stay, LAMBDA p :
            LET i == IndexOf(prev, p[1]) - 1 IN
            [row |-> p[1], prev |-> i, tv |-> p[2], shifted |-> i - gone(i)])

calculate_moves_unsorted(rows, removed, candidates, c) ==
    LET step(a, r) ==
            LET calc == r.tv - CountIn(a.c.insertions, 0, r.tv) + CountIn(a.removed, 0, r.prev) IN
            IF r.shifted = a.expected \/ r.row \notin candidates \/ r.shifted = calc
            THEN [a EXCEPT !.expected = r.shifted + 1]
            ELSE [a EXCEPT !.c.moves = Append(@, [from |-> r.prev, to |-> r.tv]),
                           !.c.insertions = @ \cup {r.tv}, !.removed = @ \cup {r.prev}]
        a == FoldLeft(step, [expected |-> 0, removed |-> removed, c |-> c], rows)
    IN [a.c EXCEPT !.deletions = @ \cup a.removed]

\* The run that ends with a[i + 1] and b[at + 1] is of length size: is it the best so far?  Of
\* two of a length, the one with fewer modified rows.
Compared(mods, x, i, at, size) ==
    LET count(to) == IF to - size + 1 < 0 THEN 0 ELSE CountIn(mods, to - size + 1, to + 1)
        old == IF x.modified = npos THEN count(x.j) ELSE x.modified
        best(m) == [len |-> size, i |-> i - size + 1, j |-> at - size + 1, size |-> size, modified |-> m]
    IN CASE size > x.size -> best(npos)
         [] size = x.size /\ count(at) < old -> best(count(at))
         [] size = x.size /\ count(at) >= old -> [x EXCEPT !.len = size, !.modified = old]
         [] OTHER -> [x EXCEPT !.len = size]

\* The longest run of rows that follow each other in a[b1 + 1 .. e1] and in b[b2 + 1 .. e2].
find_longest_match(a, b, mods, b1, e1, b2, e2) ==
    LET j(i) == IndexOf(b, a[i + 1]) - 1
        step(x, i) ==
            IF j(i) \notin b2 .. e2 - 1 THEN [x EXCEPT !.len = 0]
            ELSE Compared(mods, x, i, j(i), IF x.len > 0 /\ j(i) = j(i - 1) + 1 THEN x.len + 1 ELSE 1)
    IN FoldLeft(step, [len |-> 0, i |-> b1, j |-> b2, size |-> 0, modified |-> 0],
                [k \in 1 .. e1 - b1 |-> b1 + k - 1])

\* The longest match m, and those before it and behind it.
Around(find, m, b1, e1, b2, e2) ==
    IF m.size = 0 THEN <<>>
    ELSE (IF m.i > b1 /\ m.j > b2 THEN find[b1, m.i, b2, m.j] ELSE <<>>)
         \o <<m>>
         \o (IF m.i + m.size < e2 /\ m.j + m.size < e2
             THEN find[m.i + m.size, e1, m.j + m.size, e2] ELSE <<>>)

find_longest_matches(a, b, mods, first, last) ==
    LET N == first .. last
        find[b1, e1, b2, e2 \in N] ==
            Around(find, find_longest_match(a, b, mods, b1, e1, b2, e2), b1, e1, b2, e2)
    IN find[first, last, first, last]

calculate_moves_sorted(rows, c) ==
    LET n == Len(rows)
        byPrev == [k \in 1 .. n |->
                    CHOOSE r \in ToSet(rows) : Cardinality({q \in ToSet(rows) : q.prev < r.prev}) = k - 1]
        a == Each(byPrev, LAMBDA r : r.row)
        b == Each(rows, LAMBDA r : r.row)
        different == {k \in 1 .. n : a[k] # b[k]}
        first == Min(different) - 1
        matches == find_longest_matches(a, b, c.modifications, first, n)
        matchedIn(from(_)) == UNION {from(matches[k]) + 1 .. from(matches[k]) + matches[k].size :
                                        k \in 1 .. Len(matches)}
    IN IF different = {} THEN c
       ELSE [c EXCEPT
                !.deletions = @ \cup {byPrev[k].prev : k \in (first + 1 .. n) \ matchedIn(LAMBDA m : m.i)},
                !.insertions = @ \cup {rows[k].tv : k \in (first + 1 .. n) \ matchedIn(LAMBDA m : m.j)}]

\* candidates is {npos} if the rows are not in the order of the table.
Calculated(prev, next, changed, candidates) ==
    LET rows    == Kept(prev, next)
        removed == {i \in 0 .. Len(prev) - 1 : prev[i + 1] # npos /\ prev[i + 1] \notin ToSet(next)}
        c == [NoChange EXCEPT
                !.deletions = {i \in 0 .. Len(prev) - 1 : prev[i + 1] = npos},
                !.insertions = {j \in 0 .. Len(next) - 1 : next[j + 1] \notin ToSet(prev)},
                !.modifications = {r.tv : r \in {q \in ToSet(rows) : q.row \in changed}}]
    IN IF candidates # {npos} THEN calculate_moves_unsorted(rows, removed, candidates, c)
       ELSE LET d == calculate_moves_sorted(rows, c) IN [d EXCEPT !.deletions = @ \cup removed]
===============================================================================
