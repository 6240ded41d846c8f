----------------------------- MODULE ChangeSetsProofs -----------------------------
(***************************************************************************)
(* Of the change sets and of the worker that makes them: indexes before    *)
(* and after a set of insertions translate into each other without loss,   *)
(* for every finite set of them; the lists that have notifiers are found   *)
(* in the rows they belong to, for any number of rows and lists; and what  *)
(* the callback of a list or of a table is told is what happened to it, in *)
(* any number of instructions and transactions.                            *)
(***************************************************************************)
EXTENDS TransactLogObserver, FiniteSetTheorems, FunctionTheorems, SequenceTheorems,
        WellFoundedInduction, TLAPS

-----------------------------------------------------------------------------
(* Indexes.                                                                *)

\* The indexes below one are finitely many, as the set is.
LEMMA BelowFinite ==
    ASSUME NEW S \in SUBSET Int, IsFiniteSet(S), NEW i \in Int
    PROVE  /\ IsFiniteSet(Below(S, i))
           /\ Cardinality(Below(S, i)) \in 0 .. Cardinality(S)
           /\ Unshift(S, i) \in Int
<1>1. Below(S, i) \in SUBSET S  BY DEF Below
<1>2. /\ IsFiniteSet(Below(S, i)) /\ Cardinality(Below(S, i)) <= Cardinality(S)
      /\ Cardinality(Below(S, i)) \in Nat /\ Cardinality(S) \in Nat
  BY <1>1, FS_Subset, FS_CardinalityType
<1> QED BY <1>2 DEF Unshift

\* The greater index is translated to a greater one, unless there is nothing but members
\* between them.
LEMMA UnshiftBetween ==
    ASSUME NEW S \in SUBSET Int, IsFiniteSet(S), NEW i \in Int, NEW j \in Int, i <= j
    PROVE  /\ Unshift(S, j) >= Unshift(S, i)
           /\ i \notin S /\ i < j => Unshift(S, j) > Unshift(S, i)
<1> DEFINE M == Below(S, j) \ Below(S, i)
<1>1. M \in SUBSET (i .. j - 1) /\ (i \notin S => M \in SUBSET (i + 1 .. j - 1))
  <2> SUFFICES ASSUME NEW k \in M
               PROVE  k \in i .. j - 1 /\ (i \notin S => k \in i + 1 .. j - 1)
    OBVIOUS
  <2>1. k \in S /\ k < j /\ ~(k < i)  BY DEF Below
  <2>2. k \in Int /\ (i \notin S => k # i)  BY <2>1
  <2> HIDE DEF M
  <2> QED BY <2>1, <2>2
<1>2. IsFiniteSet(i .. j - 1) /\ Cardinality(i .. j - 1) = j - i
  <2>1. i \in Int /\ j - 1 \in Int  OBVIOUS
  <2>2. IsFiniteSet(i .. j - 1)
        /\ Cardinality(i .. j - 1) = IF i > j - 1 THEN 0 ELSE (j - 1) - i + 1
    BY <2>1, FS_Interval
  <2> QED BY <2>2
<1>3. IsFiniteSet(i + 1 .. j - 1) /\ (i < j => Cardinality(i + 1 .. j - 1) = j - i - 1)
  <2>1. i + 1 \in Int /\ j - 1 \in Int  OBVIOUS
  <2>2. IsFiniteSet(i + 1 .. j - 1)
        /\ Cardinality(i + 1 .. j - 1) = IF i + 1 > j - 1 THEN 0 ELSE (j - 1) - (i + 1) + 1
    BY <2>1, FS_Interval
  <2> QED BY <2>2
<1>4. /\ IsFiniteSet(M) /\ Cardinality(M) \in Nat /\ Cardinality(M) <= j - i
      /\ i \notin S /\ i < j => Cardinality(M) <= j - i - 1
  BY <1>1, <1>2, <1>3, FS_Subset, FS_CardinalityType
<1>5. Below(S, i) \cup M = Below(S, j) /\ Below(S, i) \cap M = {}
  <2>1. \A k \in S : k < i => k < j  OBVIOUS
  <2>2. Below(S, i) \in SUBSET Below(S, j)  BY <2>1, Zenon DEF Below
  <2> QED BY <2>2
<1>6. IsFiniteSet(Below(S, i)) /\ Cardinality(Below(S, i)) \in Nat
  BY BelowFinite, FS_CardinalityType
<1>7. Cardinality(Below(S, j)) = Cardinality(Below(S, i)) + Cardinality(M) - Cardinality({})
  BY <1>4, <1>5, <1>6, FS_Union
<1>8. Cardinality({}) = 0  BY FS_EmptySet
<1> HIDE DEF M
<1> QED BY <1>4, <1>6, <1>7, <1>8 DEF Unshift

\* Of the indexes that are not members, two are never translated to one.
LEMMA UnshiftTellsApart ==
    ASSUME NEW S \in SUBSET Int, IsFiniteSet(S), NEW i \in Int \ S, NEW j \in Int \ S,
           Unshift(S, i) = Unshift(S, j)
    PROVE  i = j
<1>1. CASE i < j  BY <1>1, UnshiftBetween, BelowFinite
<1>2. CASE j < i  BY <1>2, UnshiftBetween, BelowFinite
<1> QED BY <1>1, <1>2

\* Every index is the translation of one that is not a member: between i and top there are as
\* many of those as there are indexes that they may be translated to, and no two go to one.
LEMMA ShiftExists ==
    ASSUME NEW S \in SUBSET Int, IsFiniteSet(S), NEW i \in Int
    PROVE  \E j \in i .. i + Cardinality(S) : j \notin S /\ Unshift(S, j) = i
<1> DEFINE top   == i + Cardinality(S)
           Free  == (i .. top) \ S
           Image == Unshift(S, i) .. Unshift(S, top + 1) - 1
<1>1. Cardinality(S) \in Nat /\ top \in Int /\ top + 1 \in Int /\ top - 1 \in Int /\ i <= top
  BY FS_CardinalityType
<1>2. /\ Unshift(S, i) \in Int /\ Unshift(S, i) <= i
      /\ Unshift(S, top + 1) \in Int /\ Unshift(S, top + 1) >= i + 1
  <2>1. /\ Cardinality(Below(S, i)) \in 0 .. Cardinality(S)
        /\ Cardinality(Below(S, top + 1)) \in 0 .. Cardinality(S)
    BY <1>1, BelowFinite
  <2> HIDE DEF top
  <2>2. top + 1 - Cardinality(S) = i + 1  BY <1>1 DEF top
  <2> QED BY <1>1, <2>1, <2>2 DEF Unshift
<1>3. IsFiniteSet(Free) /\ Cardinality(Free) = Unshift(S, top + 1) - Unshift(S, i)
  <2> DEFINE In == (i .. top) \cap S
  <2>1. IsFiniteSet(i .. top) /\ Cardinality(i .. top) = top - i + 1
    <3>1. /\ IsFiniteSet(i .. top)
          /\ Cardinality(i .. top) = IF i > top THEN 0 ELSE top - i + 1
      BY <1>1, FS_Interval
    <3> QED BY <1>1, <3>1
  <2>2. /\ IsFiniteSet(Below(S, i)) /\ Cardinality(Below(S, i)) \in Nat
        /\ IsFiniteSet(In) /\ Cardinality(In) \in Nat
    <3>1. In \in SUBSET S  OBVIOUS
    <3> QED BY <3>1, BelowFinite, FS_Subset, FS_CardinalityType
  <2>3. IsFiniteSet(Free) /\ Cardinality(Free) = top - i + 1 - Cardinality(In)
    <3> HIDE DEF top
    <3>1. /\ IsFiniteSet(Free)
          /\ Cardinality(Free) = Cardinality(i .. top) - Cardinality(In)
      BY <2>1, FS_Difference
    <3> HIDE DEF Free, In
    <3> QED BY <1>1, <2>1, <2>2, <3>1
  <2>4. \A k \in S : k < top + 1 <=> k < i \/ k \in i .. top  BY <1>1
  <2>5. Below(S, top + 1) = Below(S, i) \cup In /\ Below(S, i) \cap In = {}
    <3>1. Below(S, top + 1) = Below(S, i) \cup In  BY <2>4, Zenon DEF Below
    <3>2. \A k \in In : ~(k < i)  BY <1>1
    <3> QED BY <3>1, <3>2, Zenon DEF Below
  <2>6. Cardinality(Below(S, top + 1)) = Cardinality(Below(S, i)) + Cardinality(In)
    <3> HIDE DEF In
    <3>1. Cardinality(Below(S, i) \cup In)
                = Cardinality(Below(S, i)) + Cardinality(In) - Cardinality({})
      BY <2>5, <2>2, FS_Union
    <3> QED BY <2>5, <2>2, <3>1, FS_EmptySet
  <2> HIDE DEF top, In, Free
  <2> QED BY <1>1, <2>3, <2>2, <2>6 DEF Unshift
<1>4. ASSUME NEW k \in Free PROVE Unshift(S, k) \in Image
  <2>1. k \in Int /\ i <= k /\ k < top + 1 /\ k \notin S  BY <1>1
  <2>2. Unshift(S, k) >= Unshift(S, i) /\ Unshift(S, top + 1) > Unshift(S, k)
    BY <1>1, <2>1, UnshiftBetween
  <2>3. Unshift(S, k) \in Int  BY <2>1, BelowFinite
  <2> QED BY <1>2, <2>2, <2>3
<1>5. SUFFICES ASSUME \A k \in Free : Unshift(S, k) # i
               PROVE  FALSE
  OBVIOUS
<1>6. /\ IsFiniteSet(Image \ {i})
      /\ Cardinality(Image \ {i}) = Unshift(S, top + 1) - Unshift(S, i) - 1
  <2> DEFINE lo == Unshift(S, i)
             hi == Unshift(S, top + 1) - 1
  <2>1. lo \in Int /\ hi \in Int /\ lo <= i /\ i <= hi  BY <1>2
  <2> HIDE DEF lo, hi, top
  <2>2. IsFiniteSet(lo .. hi) /\ Cardinality(lo .. hi) = IF lo > hi THEN 0 ELSE hi - lo + 1
    BY <2>1, FS_Interval
  <2>3. i \in lo .. hi  BY <2>1
  <2>4. /\ IsFiniteSet((lo .. hi) \ {i})
        /\ Cardinality((lo .. hi) \ {i}) = Cardinality(lo .. hi) - 1
    BY <2>2, <2>3, FS_RemoveElement
  <2>5. Cardinality((lo .. hi) \ {i}) = hi - lo  BY <2>1, <2>2, <2>4
  <2> QED BY <1>2, <2>4, <2>5 DEF lo, hi
<1> DEFINE f == [k \in Free |-> Unshift(S, k)]
<1>7. f \in [Free -> Image \ {i}]  BY <1>4, <1>5
<1>8. Cardinality(Image \ {i}) < Cardinality(Free)
  <2> HIDE DEF top, Free, Image
  <2> QED BY <1>2, <1>3, <1>6
<1>9. PICK a, b \in Free : a # b /\ f[a] = f[b]
  <2> HIDE DEF f, Free, Image
  <2> QED BY <1>3, <1>6, <1>7, <1>8, FS_PigeonHole
<1>10. a \in Int \ S /\ b \in Int \ S /\ Unshift(S, a) = Unshift(S, b)  BY <1>9
<1> QED BY <1>9, <1>10, UnshiftTellsApart

\* An index in the old collection has one in the new one, which is none of the insertions and
\* leads back to it: what shift and unshift of index_set.cpp promise together.
THEOREM ShiftWorks ==
    ASSUME NEW S \in SUBSET Int, IsFiniteSet(S), NEW i \in Int
    PROVE  Shift(S, i) \in Int \ S /\ Shift(S, i) >= i /\ Unshift(S, Shift(S, i)) = i
<1>1. \E j \in i .. i + Cardinality(S) : j \notin S /\ Unshift(S, j) = i  BY ShiftExists
<1>2. Shift(S, i) \in i .. i + Cardinality(S) /\ Shift(S, i) \notin S
      /\ Unshift(S, Shift(S, i)) = i
  BY <1>1 DEF Shift
<1> QED BY <1>2, FS_CardinalityType

\* And the other way round: a row that was not inserted keeps its index through both.
THEOREM ShiftUndoesUnshift ==
    ASSUME NEW S \in SUBSET Int, IsFiniteSet(S), NEW i \in Int \ S
    PROVE  Shift(S, Unshift(S, i)) = i
<1>1. Unshift(S, i) \in Int  BY BelowFinite
<1>2. Shift(S, Unshift(S, i)) \in Int \ S
      /\ Unshift(S, Shift(S, Unshift(S, i))) = Unshift(S, i)
  BY <1>1, ShiftWorks
<1> QED BY <1>2, UnshiftTellsApart

\* What is inserted at places and erased there again is as it was, and nothing is at those
\* places meanwhile but what was inserted: merge and finalize of CollectionChangeBuilder
\* move the modifications by insert_at and erase_at of whole sets.
THEOREM EraseUndoesInsert ==
    ASSUME NEW S \in SUBSET Int, NEW V \in SUBSET Int, IsFiniteSet(V)
    PROVE  /\ EraseEach(InsertEach(S, V), V) = S
           /\ MakeRoomForEach(S, V) \cap V = {}
<1>1. \A j \in S : Shift(V, j) \in Int \ V /\ Unshift(V, Shift(V, j)) = j  BY ShiftWorks
<1>2. InsertEach(S, V) \ V = MakeRoomForEach(S, V)  BY <1>1 DEF InsertEach, MakeRoomForEach
<1>3. EraseEach(InsertEach(S, V), V) = {Unshift(V, Shift(V, j)) : j \in S}
  BY <1>2 DEF EraseEach, MakeRoomForEach
<1>4. {Unshift(V, Shift(V, j)) : j \in S} = S  BY <1>1
<1> QED BY <1>1, <1>3, <1>4 DEF MakeRoomForEach

-----------------------------------------------------------------------------
(* The lists that have notifiers.                                          *)

\* What is defined on 1 .. n is a sequence of length n.
LEMMA FunIsSeq ==
    ASSUME NEW T, NEW n \in Nat, NEW f \in [1 .. n -> T]
    PROVE  f \in Seq(T) /\ Len(f) = n
OBVIOUS

RowType  == [id : Int, value : Int]
ListType == [row : Nat, of : Int]

\* Each list is in its row, and no two of them are in one row or of one owner.
ListsAt(ls, rows) ==
    /\ \A k \in 1 .. Len(ls) :
        ls[k].row \in 0 .. Len(rows) - 1 /\ rows[ls[k].row + 1].id = ls[k].of
    /\ \A k, l \in 1 .. Len(ls) :
        ls[k].row = ls[l].row \/ ls[k].of = ls[l].of => k = l

OwnersOf(ls) == {ls[k].of : k \in 1 .. Len(ls)}

\* A row is erased by moving the last one over it.
LEMMA RowsMovedOver ==
    ASSUME NEW rows \in Seq(RowType), NEW i \in 0 .. Len(rows) - 1
    PROVE  LET new == MoveLastOver(rows, i) IN
           /\ new \in Seq(RowType) /\ Len(new) = Len(rows) - 1
           /\ \A r \in 0 .. Len(rows) - 2 :
                new[r + 1] = IF r = i THEN rows[Len(rows)] ELSE rows[r + 1]
<1> DEFINE n == Len(rows)
           new == MoveLastOver(rows, i)
<1>1. n \in Nat \ {0} /\ n - 1 \in Nat /\ i \in Int /\ \A k \in 1 .. n : rows[k] \in RowType
  BY LenProperties, ElementOfSeq
<1>2. new = [k \in 1 .. n - 1 |-> IF k = i + 1 THEN rows[n] ELSE rows[k]]  BY DEF MoveLastOver
<1>3. new \in [1 .. n - 1 -> RowType]  BY <1>1, <1>2
<1>4. new \in Seq(RowType) /\ Len(new) = n - 1  BY <1>1, <1>3, FunIsSeq
<1>5. \A r \in 0 .. n - 2 : r + 1 \in 1 .. n - 1 /\ (r + 1 = i + 1 <=> r = i)  BY <1>1
<1> HIDE DEF n, new
<1>6. \A r \in 0 .. n - 2 : new[r + 1] = IF r = i THEN rows[n] ELSE rows[r + 1]  BY <1>2, <1>5
<1> QED BY <1>4, <1>6 DEF n, new

\* Each of n lists is found in its row, and no two are of one row.
InRows(ls, n, rows) ==
    \A k \in 1 .. n : ls[k].row \in 0 .. Len(rows) - 1 /\ rows[ls[k].row + 1].id = ls[k].of
OfOwn(ls, n) == \A k, l \in 1 .. n : ls[k].of = ls[l].of => k = l
SameOf(new, ls, n) == \A k \in 1 .. n : new[k].of = ls[k].of

\* So no two lists stand at one row.
LEMMA ListsStand ==
    ASSUME NEW n \in Nat, NEW new \in [1 .. n -> ListType], NEW next, InRows(new, n, next), OfOwn(new, n)
    PROVE  new \in Seq(ListType) /\ Len(new) = n /\ ListsAt(new, next)
<1>1. new \in Seq(ListType) /\ Len(new) = n  BY FunIsSeq
<1>2. \A k, l \in 1 .. n : new[k].row = new[l].row => new[k].of = new[l].of  BY DEF InRows
<1> QED BY <1>1, <1>2 DEF ListsAt, InRows, OfOwn

\* Lists that keep their rows when these move stand at their rows again.
LEMMA ListsCarried ==
    ASSUME NEW ls \in Seq(ListType), NEW rows, ListsAt(ls, rows), NEW next,
           NEW new \in [1 .. Len(ls) -> ListType], SameOf(new, ls, Len(ls)), InRows(new, Len(ls), next)
    PROVE  /\ new \in Seq(ListType) /\ ListsAt(new, next)
           /\ Len(new) = Len(ls) /\ OwnersOf(new) = OwnersOf(ls)
<1> DEFINE n == Len(ls)
<1>1. n \in Nat  BY LenProperties
<1>2. OfOwn(new, n)  BY DEF ListsAt, OfOwn, SameOf
<1>3. new \in [1 .. n -> ListType] /\ InRows(new, n, next)  OBVIOUS
<1>4. \A k \in 1 .. n : new[k].of = ls[k].of  BY DEF SameOf
<1>5. OwnersOf(ls) = {ls[k].of : k \in 1 .. n}  BY DEF OwnersOf
<1> HIDE DEF n
<1>6. new \in Seq(ListType) /\ Len(new) = n /\ ListsAt(new, next)  BY <1>1, <1>2, <1>3, ListsStand
<1>7. OwnersOf(new) = OwnersOf(ls)  BY <1>4, <1>5, <1>6 DEF OwnersOf
<1> QED BY <1>6, <1>7 DEF n

\* The list of the row that is erased goes and that of the last row moves, if it is not itself
\* what the loop puts in the place of the other.
LEMMA ListsFollowErase ==
    ASSUME NEW rows \in Seq(RowType), NEW ls \in Seq(ListType), ListsAt(ls, rows),
           NEW i \in 0 .. Len(rows) - 1, NEW m \in 1 .. Len(ls), ls[m].row = i,
           Last(ls).row # Len(rows) - 1 \/ i = Len(rows) - 1
    PROVE  LET new == ListsMovedOver(ls, i, Len(rows) - 1) IN
           /\ new \in Seq(ListType) /\ ListsAt(new, MoveLastOver(rows, i))
           /\ Len(new) = Len(ls) - 1
           /\ OwnersOf(new) = OwnersOf(ls) \ {ls[m].of}
<1> DEFINE n == Len(ls)
           last == Len(rows) - 1
           own == {k \in 1 .. n : ls[k].row = i}
           new == ListsMovedOver(ls, i, last)
           src(k) == IF k = m THEN n ELSE k
<1>1. /\ n \in Nat \ {0} /\ Len(rows) \in Nat \ {0} /\ m \in 1 .. n /\ i \in 0 .. last
      /\ \A k \in 1 .. n : ls[k] \in ListType
  BY LenProperties, ElementOfSeq
<1>2. own = {m}  BY <1>1 DEF ListsAt
<1>3. Cardinality(own) = 1 /\ Last(ls) = ls[n]  BY <1>2, FS_Singleton DEF Last
<1>4. new = [k \in 1 .. n - 1 |->
                IF k = m THEN ls[n]
                ELSE IF ls[k].row = last THEN [ls[k] EXCEPT !.row = i] ELSE ls[k]]
  BY <1>2, <1>3 DEF ListsMovedOver
<1>5. /\ \A k \in 1 .. n : [ls[k] EXCEPT !.row = i] \in ListType
                              /\ [ls[k] EXCEPT !.row = i].row = i
                              /\ [ls[k] EXCEPT !.row = i].of = ls[k].of
      /\ new \in [1 .. n - 1 -> ListType]
  <2>1. ASSUME NEW k \in 1 .. n
        PROVE  /\ [ls[k] EXCEPT !.row = i] \in ListType
               /\ [ls[k] EXCEPT !.row = i].row = i
               /\ [ls[k] EXCEPT !.row = i].of = ls[k].of
    <3>1. ls[k] \in ListType /\ i \in Nat  BY <1>1
    <3> QED BY <3>1 DEF ListType
  <2>2. \A k \in 1 .. n - 1 : k \in 1 .. n /\ n \in 1 .. n  BY <1>1
  <2> HIDE DEF n, new
  <2> QED BY <1>1, <1>4, <2>1, <2>2
<1>6. ASSUME NEW k \in 1 .. n - 1
      PROVE  /\ src(k) \in 1 .. n /\ src(k) # m
             /\ new[k].of = ls[src(k)].of
             /\ new[k].row = IF ls[src(k)].row = last THEN i ELSE ls[src(k)].row
  <2>1. k \in 1 .. n /\ n \in 1 .. n  BY <1>1
  <2>2. CASE k = m
    <3>1. n # m /\ src(k) = n /\ new[k] = ls[n]  BY <1>1, <1>4, <2>2
    <3>2. ls[n].row # i  BY <1>1, <2>1, <3>1 DEF ListsAt
    <3>3. ls[n].row # last  BY <1>1, <1>3, <2>1, <3>1, <3>2 DEF ListsAt
    <3> QED BY <2>1, <3>1, <3>3
  <2>3. CASE k # m  BY <1>4, <1>5, <2>1, <2>3
  <2> QED BY <2>2, <2>3
<1>7. \A k, l \in 1 .. n - 1 : src(k) = src(l) => k = l  BY <1>1
<1>8. ASSUME NEW j \in 1 .. n, j # m PROVE \E k \in 1 .. n - 1 : src(k) = j
  <2>1. CASE j = n  BY <1>8, <1>1, <2>1
  <2>2. CASE j # n  BY <1>8, <1>1, <2>2
  <2> QED BY <2>1, <2>2
<1> HIDE DEF src, new, own
<1>9. new \in Seq(ListType) /\ Len(new) = n - 1 /\ ListsAt(new, MoveLastOver(rows, i))
  <2> DEFINE moved == MoveLastOver(rows, i)
  <2>1. /\ Len(moved) = last
        /\ \A r \in 0 .. last - 1 : moved[r + 1] = IF r = i THEN rows[last + 1] ELSE rows[r + 1]
    <3>1. /\ Len(moved) = Len(rows) - 1
          /\ \A r \in 0 .. Len(rows) - 2 :
                moved[r + 1] = IF r = i THEN rows[Len(rows)] ELSE rows[r + 1]
      BY RowsMovedOver
    <3>2. last + 1 = Len(rows) /\ 0 .. last - 1 = 0 .. Len(rows) - 2  BY <1>1
    <3> HIDE DEF moved
    <3> QED BY <3>1, <3>2
  <2> HIDE DEF moved
  <2>2. ASSUME NEW k \in 1 .. n - 1
        PROVE  new[k].row \in 0 .. last - 1 /\ moved[new[k].row + 1].id = new[k].of
    <3> DEFINE j == src(k)
    <3>1. /\ j \in 1 .. n /\ j # m /\ new[k].of = ls[j].of
          /\ new[k].row = IF ls[j].row = last THEN i ELSE ls[j].row
      BY <1>6
    <3>2. ls[j].row \in 0 .. last /\ ls[j].row # i /\ rows[ls[j].row + 1].id = ls[j].of
      BY <1>1, <3>1 DEF ListsAt
    <3> HIDE DEF j, last
    <3>3. CASE ls[j].row = last
      <4>1. i \in 0 .. last - 1 /\ new[k].row = i  BY <1>1, <3>1, <3>2, <3>3 DEF last
      <4> QED BY <2>1, <3>1, <3>2, <3>3, <4>1
    <3>4. CASE ls[j].row # last
      <4>1. ls[j].row \in 0 .. last - 1 /\ new[k].row = ls[j].row
        <5>1. last \in Int  BY <1>1 DEF last
        <5> QED BY <3>1, <3>2, <3>4, <5>1
      <4> QED BY <2>1, <3>1, <3>2, <4>1
    <3> QED BY <3>3, <3>4
  <2>3. ASSUME NEW k \in 1 .. n - 1, NEW l \in 1 .. n - 1, new[k].of = new[l].of
        PROVE  k = l
    <3>1. /\ src(k) \in 1 .. n /\ src(l) \in 1 .. n /\ ls[src(k)].of = ls[src(l)].of
      BY <1>6, <2>3
    <3>2. src(k) = src(l)  BY <3>1 DEF ListsAt
    <3> QED BY <1>7, <3>2
  <2>4. InRows(new, n - 1, moved) /\ OfOwn(new, n - 1)  BY <2>1, <2>2, <2>3 DEF InRows, OfOwn
  <2>5. n - 1 \in Nat /\ new \in [1 .. n - 1 -> ListType]  BY <1>1, <1>5
  <2> HIDE DEF n
  <2> QED BY <2>4, <2>5, ListsStand DEF moved
<1>10. OwnersOf(new) = OwnersOf(ls) \ {ls[m].of}
  <2>1. \A j \in 1 .. n : ls[j].of = ls[m].of => j = m  BY <1>1 DEF ListsAt
  <2>2. OwnersOf(new) = {new[k].of : k \in 1 .. n - 1}  BY <1>9 DEF OwnersOf
  <2>3. ASSUME NEW o \in OwnersOf(new) PROVE o \in OwnersOf(ls) \ {ls[m].of}
    <3>1. PICK k \in 1 .. n - 1 : o = new[k].of  BY <2>2
    <3> QED BY <1>6, <2>1, <3>1 DEF OwnersOf
  <2>4. ASSUME NEW o \in OwnersOf(ls) \ {ls[m].of} PROVE o \in OwnersOf(new)
    <3>1. PICK j \in 1 .. n : o = ls[j].of /\ j # m  BY DEF OwnersOf
    <3>2. PICK k \in 1 .. n - 1 : src(k) = j  BY <1>8, <3>1
    <3> QED BY <1>6, <2>2, <3>1, <3>2
  <2> QED BY <2>3, <2>4
<1> QED BY <1>9, <1>10 DEF new

\* If the row that is erased has no list, the one of the last row moves all the same.
LEMMA ListsFollowMove ==
    ASSUME NEW rows \in Seq(RowType), NEW ls \in Seq(ListType), ListsAt(ls, rows),
           NEW i \in 0 .. Len(rows) - 1, \A k \in 1 .. Len(ls) : ls[k].row # i
    PROVE  LET new == ListsMovedOver(ls, i, Len(rows) - 1) IN
           /\ new \in Seq(ListType) /\ ListsAt(new, MoveLastOver(rows, i))
           /\ Len(new) = Len(ls)
           /\ OwnersOf(new) = OwnersOf(ls)
<1> DEFINE n == Len(ls)
           last == Len(rows) - 1
           new == ListsMovedOver(ls, i, last)
           moved == MoveLastOver(rows, i)
<1>1. /\ n \in Nat /\ last \in Int /\ i \in Int /\ i \in 0 .. last
      /\ \A k \in 1 .. n : ls[k] \in ListType
  BY LenProperties, ElementOfSeq
<1> DEFINE own == {k \in 1 .. n : ls[k].row = i}
<1>2. own = {} /\ Cardinality(own) = 0 /\ n - Cardinality(own) = n
  <2>1. own = {}  OBVIOUS
  <2> HIDE DEF own, n
  <2> QED BY <1>1, <2>1, FS_EmptySet
<1>3. new = [k \in 1 .. n |->
                IF ls[k].row = last THEN [ls[k] EXCEPT !.row = i] ELSE ls[k]]
  <2>1. new = [k \in 1 .. n - Cardinality(own) |->
                  IF k \in own THEN Last(ls)
                  ELSE IF ls[k].row = last THEN [ls[k] EXCEPT !.row = i] ELSE ls[k]]
    BY DEF ListsMovedOver
  <2> HIDE DEF own, n, new
  <2> QED BY <1>2, <2>1
<1>4. /\ Len(moved) = Len(rows) - 1
      /\ \A r \in 0 .. Len(rows) - 2 :
            moved[r + 1] = IF r = i THEN rows[Len(rows)] ELSE rows[r + 1]
  BY RowsMovedOver
<1>5. Len(moved) = last /\ last + 1 = Len(rows) /\ 0 .. last - 1 = 0 .. Len(rows) - 2  BY <1>1, <1>4
<1> HIDE DEF new, moved
<1>6. ASSUME NEW k \in 1 .. n
      PROVE  /\ new[k] \in ListType /\ new[k].of = ls[k].of
             /\ new[k].row = IF ls[k].row = last THEN i ELSE ls[k].row
  <2>1. ls[k] \in ListType /\ i \in Nat  BY <1>1
  <2>2. new[k] = IF ls[k].row = last THEN [ls[k] EXCEPT !.row = i] ELSE ls[k]  BY <1>3
  <2> QED BY <2>1, <2>2 DEF ListType
<1>7. ASSUME NEW k \in 1 .. n
      PROVE  new[k].row \in 0 .. last - 1 /\ moved[new[k].row + 1].id = new[k].of
  <2>1. ls[k].row \in 0 .. last /\ ls[k].row # i /\ rows[ls[k].row + 1].id = ls[k].of
    BY DEF ListsAt
  <2> HIDE DEF last, n
  <2>2. CASE ls[k].row = last
    <3>1. i \in 0 .. last - 1 /\ new[k].row = i  BY <1>1, <1>6, <2>1, <2>2
    <3> QED BY <1>4, <1>5, <1>6, <2>1, <2>2, <3>1
  <2>3. CASE ls[k].row # last
    <3>1. ls[k].row \in 0 .. last - 1 /\ new[k].row = ls[k].row  BY <1>1, <1>6, <2>1, <2>3
    <3> QED BY <1>4, <1>5, <1>6, <2>1, <3>1
  <2> QED BY <2>2, <2>3
<1>8. new \in [1 .. n -> ListType] /\ SameOf(new, ls, n)  BY <1>3, <1>6 DEF SameOf
<1>9. InRows(new, n, moved)  BY <1>5, <1>7 DEF InRows
<1> QED BY <1>8, <1>9, ListsCarried DEF new, moved

\* No two rows are one, and their identities have been given.
Distinct(rows) == \A k, l \in 1 .. Len(rows) : rows[k].id = rows[l].id => k = l
Given(rows, b) == \A k \in 1 .. Len(rows) : rows[k].id <= b

\* Rows stay distinct when one of them goes, also if it shares its identity with another.
LEMMA RowsStayDistinct ==
    ASSUME NEW rows \in Seq(RowType), NEW i \in 0 .. Len(rows) - 1, NEW b, Given(rows, b),
           \A k, l \in 1 .. Len(rows) :
                k # i + 1 /\ l # i + 1 /\ rows[k].id = rows[l].id => k = l
    PROVE  Distinct(MoveLastOver(rows, i)) /\ Given(MoveLastOver(rows, i), b)
<1> DEFINE n == Len(rows)
           new == MoveLastOver(rows, i)
           src(k) == IF k = i + 1 THEN n ELSE k
<1>1. n \in Nat \ {0} /\ i \in Int  BY LenProperties
<1>2. Len(new) = n - 1 /\ \A r \in 0 .. n - 2 :
                            new[r + 1] = IF r = i THEN rows[n] ELSE rows[r + 1]
  BY RowsMovedOver
<1> HIDE DEF new
<1>3. ASSUME NEW k \in 1 .. n - 1
      PROVE  src(k) \in 1 .. n /\ src(k) # i + 1 /\ new[k] = rows[src(k)]
  <2>1. k - 1 \in 0 .. n - 2 /\ (k - 1) + 1 = k /\ (k - 1 = i <=> k = i + 1)  BY <1>1
  <2>2. new[k] = rows[src(k)]  BY <1>2, <2>1
  <2> QED BY <1>1, <2>2
<1>4. \A k, l \in 1 .. n - 1 : src(k) = src(l) => k = l  BY <1>1
<1> HIDE DEF src
<1>5. ASSUME NEW k \in 1 .. n - 1, NEW l \in 1 .. n - 1, new[k].id = new[l].id
      PROVE  k = l
  <2>1. rows[src(k)].id = rows[src(l)].id  BY <1>3, <1>5
  <2>2. src(k) = src(l)  BY <1>3, <2>1
  <2> QED BY <1>4, <2>2
<1>6. \A k \in 1 .. n - 1 : new[k].id <= b  BY <1>3 DEF Given
<1> HIDE DEF n
<1> QED BY <1>2, <1>5, <1>6 DEF Distinct, Given, new

\* A row that is appended has an identity of its own.
LEMMA RowAppended ==
    ASSUME NEW rows \in Seq(RowType), Distinct(rows), NEW b \in Int, Given(rows, b),
           NEW r \in RowType, r.id = b + 1
    PROVE  LET next == Append(rows, r) IN
           /\ next \in Seq(RowType) /\ Len(next) = Len(rows) + 1 /\ next[Len(rows) + 1] = r
           /\ \A k \in 1 .. Len(rows) : next[k] = rows[k]
           /\ Distinct(next) /\ Given(next, b + 1)
<1> DEFINE n == Len(rows)
           next == Append(rows, r)
<1>1. /\ next \in Seq(RowType) /\ Len(next) = n + 1 /\ next[n + 1] = r
      /\ \A k \in 1 .. n : next[k] = rows[k]
  BY AppendProperties
<1>2. n \in Nat /\ \A k \in 1 .. n : rows[k] \in RowType  BY LenProperties, ElementOfSeq
<1>3. \A k \in 1 .. n : rows[k].id \in Int /\ rows[k].id <= b  BY <1>2 DEF RowType, Given
<1>4. \A k, l \in 1 .. n : rows[k].id = rows[l].id => k = l  BY DEF Distinct
<1> HIDE DEF n, next
<1>5. \A k \in 1 .. n : next[k].id # b + 1 /\ next[k].id <= b + 1  BY <1>1, <1>3
<1>6. \A k \in 1 .. n + 1 : k \in 1 .. n \/ k = n + 1  BY <1>2
<1>7. Distinct(next)  BY <1>1, <1>4, <1>5, <1>6 DEF Distinct
<1>8. Given(next, b + 1)  BY <1>1, <1>5, <1>6 DEF Given
<1> QED BY <1>1, <1>7, <1>8 DEF n, next

\* A swap of two rows, and the list that it takes along.
SwappedRows(rows, i, j) == [rows EXCEPT ![i + 1] = rows[j + 1], ![j + 1] = rows[i + 1]]
RowsExchanged(ls, i, j) ==
    [k \in 1 .. Len(ls) |-> CASE ls[k].row = i -> [ls[k] EXCEPT !.row = j]
                              [] ls[k].row = j -> [ls[k] EXCEPT !.row = i]
                              [] OTHER -> ls[k]]

\* Lists follow their rows through swap_rows.
LEMMA ListsFollowSwap ==
    ASSUME NEW rows \in Seq(RowType), NEW ls \in Seq(ListType), ListsAt(ls, rows),
           Distinct(rows), NEW b, Given(rows, b),
           NEW i \in 0 .. Len(rows) - 1, NEW j \in 0 .. Len(rows) - 1, i < j
    PROVE  LET new == RowsExchanged(ls, i, j) swapped == SwappedRows(rows, i, j) IN
           /\ new \in Seq(ListType) /\ ListsAt(new, swapped)
           /\ Len(new) = Len(ls) /\ OwnersOf(new) = OwnersOf(ls)
           /\ swapped \in Seq(RowType) /\ Distinct(swapped) /\ Given(swapped, b)
<1> DEFINE n == Len(ls)
           size == Len(rows)
           new == RowsExchanged(ls, i, j)
           swapped == SwappedRows(rows, i, j)
           to(r) == IF r = i THEN j ELSE IF r = j THEN i ELSE r
<1>1. /\ n \in Nat /\ size \in Nat
      /\ \A k \in 1 .. n : ls[k] \in ListType
      /\ \A k \in 1 .. size : rows[k] \in RowType
      /\ rows \in [1 .. size -> RowType]
  BY LenProperties, ElementOfSeq
<1>2. i \in Nat /\ j \in Nat /\ i + 1 \in 1 .. size /\ j + 1 \in 1 .. size  BY <1>1
<1>3. /\ swapped \in [1 .. size -> RowType]
      /\ \A r \in 0 .. size - 1 : swapped[r + 1] = rows[to(r) + 1]
  BY <1>1, <1>2 DEF SwappedRows
<1>4. swapped \in Seq(RowType) /\ Len(swapped) = size
  <2> HIDE DEF swapped, size
  <2> QED BY <1>1, <1>3, FunIsSeq
<1>5. ASSUME NEW k \in 1 .. n
      PROVE  /\ new[k] \in ListType /\ new[k].of = ls[k].of
             /\ new[k].row = to(ls[k].row)
  <2>1. ls[k] \in ListType  BY <1>1
  <2>2. new[k] = CASE ls[k].row = i -> [ls[k] EXCEPT !.row = j]
                   [] ls[k].row = j -> [ls[k] EXCEPT !.row = i]
                   [] OTHER -> ls[k]
    BY DEF RowsExchanged
  <2> QED BY <1>2, <2>1, <2>2 DEF ListType
<1>6. \A r \in 0 .. size - 1 : to(r) \in 0 .. size - 1 /\ to(to(r)) = r  BY <1>2
<1> HIDE DEF new, swapped, to
<1>7. \A k \in 1 .. n : ls[k].row \in 0 .. size - 1 /\ rows[ls[k].row + 1].id = ls[k].of
  BY DEF ListsAt
<1>8. ASSUME NEW k \in 1 .. n
      PROVE  /\ new[k].row \in 0 .. size - 1
             /\ swapped[new[k].row + 1].id = new[k].of
  <2>1. ls[k].row \in 0 .. size - 1 /\ rows[ls[k].row + 1].id = ls[k].of  BY <1>7
  <2>2. new[k].row = to(ls[k].row) /\ new[k].of = ls[k].of  BY <1>5
  <2>3. to(ls[k].row) \in 0 .. size - 1 /\ to(to(ls[k].row)) = ls[k].row  BY <1>6, <2>1
  <2>4. swapped[to(ls[k].row) + 1] = rows[ls[k].row + 1]  BY <1>3, <2>3
  <2> QED BY <2>1, <2>2, <2>3, <2>4
<1>9. new \in [1 .. n -> ListType] /\ SameOf(new, ls, n) /\ InRows(new, n, swapped)
  <2>1. new = [k \in 1 .. n |-> new[k]]  BY DEF new, RowsExchanged
  <2> QED BY <1>4, <1>5, <1>8, <2>1 DEF SameOf, InRows
<1>10. \A k \in 1 .. size : \E r \in 0 .. size - 1 : k = r + 1
  <2>1. \A k \in 1 .. size : k - 1 \in 0 .. size - 1 /\ k = (k - 1) + 1  BY <1>1
  <2> QED BY <2>1
<1>11. \A r \in 0 .. size - 1 : r + 1 \in 1 .. size /\ to(r) + 1 \in 1 .. size  BY <1>1, <1>6
<1>12. ASSUME NEW k \in 1 .. size, NEW l \in 1 .. size, swapped[k].id = swapped[l].id
       PROVE  k = l
  <2>1. PICK r \in 0 .. size - 1, q \in 0 .. size - 1 : k = r + 1 /\ l = q + 1  BY <1>10
  <2>2. rows[to(r) + 1].id = rows[to(q) + 1].id  BY <1>3, <1>12, <2>1
  <2>3. to(r) + 1 = to(q) + 1  BY <1>11, <2>2 DEF Distinct
  <2>4. to(r) = to(q)  BY <1>6, <2>3
  <2> QED BY <1>6, <2>1, <2>4
<1>13. \A k \in 1 .. size : swapped[k].id <= b  BY <1>3, <1>10, <1>11 DEF Given
<1>14. /\ new \in Seq(ListType) /\ ListsAt(new, swapped)
       /\ Len(new) = Len(ls) /\ OwnersOf(new) = OwnersOf(ls)
  BY <1>9, ListsCarried
<1>15. Distinct(swapped) /\ Given(swapped, b)  BY <1>4, <1>12, <1>13 DEF Distinct, Given
<1> QED BY <1>4, <1>14, <1>15 DEF new, swapped

\* A row takes over from another.
Taken(rows, old, new) == [rows EXCEPT ![new + 1].id = rows[old + 1].id]
TakenOver(ls, old, new) ==
    [k \in 1 .. Len(ls) |-> IF ls[k].row = old THEN [ls[k] EXCEPT !.row = new] ELSE ls[k]]

\* Lists follow their rows through merge_rows, if the row that takes over has none.
LEMMA ListsFollowMerge ==
    ASSUME NEW rows \in Seq(RowType), NEW ls \in Seq(ListType), ListsAt(ls, rows),
           NEW old \in 0 .. Len(rows) - 1, NEW new \in 0 .. Len(rows) - 1, old # new,
           rows[new + 1].id \notin OwnersOf(ls)
    PROVE  LET taken == TakenOver(ls, old, new) IN
           /\ Taken(rows, old, new) \in Seq(RowType) /\ Len(Taken(rows, old, new)) = Len(rows)
           /\ \A k \in 1 .. Len(rows) :
                Taken(rows, old, new)[k].id = rows[IF k = new + 1 THEN old + 1 ELSE k].id
           /\ taken \in Seq(ListType) /\ ListsAt(taken, Taken(rows, old, new))
           /\ Len(taken) = Len(ls) /\ OwnersOf(taken) = OwnersOf(ls)
           /\ \A k \in 1 .. Len(taken) : taken[k].row # old
<1> DEFINE n == Len(ls)
           size == Len(rows)
           merged == Taken(rows, old, new)
           taken == TakenOver(ls, old, new)
<1>1. /\ n \in Nat /\ size \in Nat
      /\ \A k \in 1 .. n : ls[k] \in ListType
      /\ \A k \in 1 .. size : rows[k] \in RowType
      /\ rows \in [1 .. size -> RowType]
  BY LenProperties, ElementOfSeq
<1>2. old \in Nat /\ new \in Nat /\ old + 1 \in 1 .. size /\ new + 1 \in 1 .. size  BY <1>1
<1>3. /\ merged \in [1 .. size -> RowType]
      /\ \A k \in 1 .. size : merged[k].id = rows[IF k = new + 1 THEN old + 1 ELSE k].id
  <2>1. rows[old + 1] \in RowType /\ rows[new + 1] \in RowType  BY <1>1, <1>2
  <2>2. /\ [rows[new + 1] EXCEPT !.id = rows[old + 1].id] \in RowType
        /\ [rows[new + 1] EXCEPT !.id = rows[old + 1].id].id = rows[old + 1].id
    BY <2>1 DEF RowType
  <2>3. merged = [rows EXCEPT ![new + 1] = [rows[new + 1] EXCEPT !.id = rows[old + 1].id]]
    BY DEF Taken
  <2> HIDE DEF merged, size
  <2> QED BY <1>1, <1>2, <2>2, <2>3
<1>4. merged \in Seq(RowType) /\ Len(merged) = size
  <2> HIDE DEF merged, size
  <2> QED BY <1>1, <1>3, FunIsSeq
<1>5. ASSUME NEW k \in 1 .. n
      PROVE  /\ taken[k] \in ListType /\ taken[k].of = ls[k].of
             /\ taken[k].row = IF ls[k].row = old THEN new ELSE ls[k].row
  <2>1. ls[k] \in ListType  BY <1>1
  <2>2. taken[k] = IF ls[k].row = old THEN [ls[k] EXCEPT !.row = new] ELSE ls[k]  BY DEF TakenOver
  <2> QED BY <1>2, <2>1, <2>2 DEF ListType
<1>6. \A k \in 1 .. n : ls[k].row \in 0 .. size - 1 /\ rows[ls[k].row + 1].id = ls[k].of
  BY DEF ListsAt
<1>7. taken = [k \in 1 .. n |-> taken[k]]  BY DEF TakenOver
<1>8. \A k \in 1 .. n : ls[k].row # new  BY <1>6 DEF OwnersOf
<1> HIDE DEF taken, merged
<1>9. ASSUME NEW k \in 1 .. n
      PROVE  /\ taken[k].row \in 0 .. size - 1
             /\ merged[taken[k].row + 1].id = taken[k].of
  <2>1. /\ ls[k].row \in 0 .. size - 1 /\ rows[ls[k].row + 1].id = ls[k].of
        /\ ls[k].row # new /\ ls[k].row + 1 \in 1 .. size /\ ls[k].row + 1 # new + 1
    BY <1>1, <1>2, <1>6, <1>8, SMTT(30)
  <2> QED BY <1>2, <1>3, <1>5, <2>1
<1>10. taken \in [1 .. n -> ListType] /\ SameOf(taken, ls, n) /\ InRows(taken, n, merged)
  BY <1>4, <1>5, <1>7, <1>9 DEF SameOf, InRows
<1>11. \A k \in 1 .. n : taken[k].row # old  BY <1>5
<1>12. /\ taken \in Seq(ListType) /\ ListsAt(taken, merged)
       /\ Len(taken) = n /\ OwnersOf(taken) = OwnersOf(ls)
  BY <1>10, ListsCarried
<1> QED BY <1>3, <1>4, <1>11, <1>12 DEF taken, merged

\* What makes ListsFollow inductive: only the rows of the old table have lists, so that a row
\* that takes over from another has none, and of a table with lists no change set is kept.
FollowRows ==
    /\ now \in Seq(RowType) /\ Distinct(now) /\ Given(now, MaxRows + steps)
    /\ lists \in Seq(ListType) /\ ListsAt(lists, now)
    /\ OwnersOf(lists) = owners
    /\ IsFiniteSet(owners) /\ Len(lists) = Cardinality(owners)
    /\ owners \subseteq Range(Ids(start))
    /\ change = NoChange

FollowInv ==
    /\ steps \in Nat
    /\ kind = "lists" => FollowRows
    /\ kind # "lists" => lists = <<>> /\ owners = {}

\* FollowInv gives ListsFollow.
LEMMA FollowInvGives == FollowInv => ListsFollow
<1> SUFFICES ASSUME FollowInv PROVE ListsFollow  OBVIOUS
<1>1. /\ lists \in Seq(ListType)
      /\ OwnersOf(lists) = owners /\ Len(lists) = Cardinality(owners)
      /\ \A k \in 1 .. Len(lists) :
            lists[k].row \in Indexes0(now) /\ Row(now, lists[k].row) = lists[k].of
  <2>1. CASE kind = "lists"  BY <2>1 DEF FollowInv, FollowRows, ListsAt, Indexes0, Row
  <2>2. CASE kind # "lists"
    <3>1. lists = <<>> /\ owners = {} /\ Len(lists) = 0 /\ lists \in Seq(ListType)
      BY <2>2, EmptySeq DEF FollowInv
    <3> QED BY <3>1, FS_EmptySet DEF OwnersOf
  <2> QED BY <2>1, <2>2
<1>2. {l.of : l \in ToSet(lists)} = OwnersOf(lists)
  <2>1. DOMAIN lists = 1 .. Len(lists)  BY <1>1, LenProperties
  <2> QED BY <2>1 DEF ToSet, OwnersOf
<1> QED BY <1>1, <1>2 DEF ListsFollow

\* Rows have identities of their own, that have been given to them.
RowsAre(rows) == rows \in Seq(RowType) /\ Distinct(rows) /\ Given(rows, MaxRows + steps)

\* The rows of a table that nothing has changed have the identities that their places give them.
LEMMA RowsBegun ==
    ASSUME Init
    PROVE  RowsAre(now) /\ Len(now) <= MaxRows /\ \A k \in 1 .. Len(now) : now[k].id = k
<1>1. PICK n \in 0 .. MaxRows :
            /\ now \in [1 .. n -> [id : 1 .. n, value : IF Tracked THEN Value ELSE {1}]]
            /\ \A k \in 1 .. n : now[k].id = k
  BY DEF Init
<1>2. n \in Nat /\ MaxRows \in Nat /\ n <= MaxRows /\ steps = 0  BY <1>1, BoundsOK DEF Init
<1>3. now \in [1 .. n -> RowType]
  <2>1. (IF Tracked THEN Value ELSE {1}) \subseteq Int  BY DEF Value
  <2> QED BY <1>1, <1>2, <2>1 DEF RowType
<1>4. now \in Seq(RowType) /\ Len(now) = n  BY <1>2, <1>3, FunIsSeq
<1>5. Distinct(now) /\ Given(now, MaxRows + steps)  BY <1>1, <1>2, <1>4 DEF Distinct, Given
<1> QED BY <1>1, <1>2, <1>4, <1>5 DEF RowsAre

\* At the start each owner has its list, in any order.
LEMMA FollowInit == Init => FollowInv
<1> SUFFICES ASSUME Init PROVE FollowInv  OBVIOUS
<1>1. steps \in Nat /\ change = NoChange  BY DEF Init
<1>2. CASE kind # "lists"
  <2>1. owners = {}  BY <1>2 DEF Init
  <2>2. PICK s \in SetToSeqs(owners) :
              lists = [k \in 1 .. Len(s) |-> [row |-> s[k] - 1, of |-> s[k]]]
    BY DEF Init
  <2>3. s \in [1 .. 0 -> {}]  BY <2>1, <2>2, FS_EmptySet DEF SetToSeqs
  <2>4. Len(s) = 0  BY <2>3, FunIsSeq
  <2>5. lists \in [1 .. 0 -> ListType]  BY <2>2, <2>4
  <2>6. lists \in Seq(ListType) /\ Len(lists) = 0  BY <2>5, FunIsSeq
  <2>7. lists = <<>>  BY <2>6, EmptySeq
  <2> QED BY <1>1, <1>2, <2>1, <2>7 DEF FollowInv
<1>3. CASE kind = "lists"
  <2> DEFINE n == Len(now)
  <2>1. /\ now \in Seq(RowType) /\ Distinct(now) /\ Given(now, MaxRows + steps)
        /\ \A k \in 1 .. n : now[k].id = k
    BY RowsBegun DEF RowsAre
  <2>2. n \in Nat /\ start = now  BY <2>1, LenProperties DEF Init
  <2> HIDE DEF n
  <2>3. owners \in SUBSET (1 .. n) /\ owners \subseteq Range(Ids(start))
    <3>1. \A i \in 0 .. n - 1 : i + 1 \in 1 .. n /\ now[i + 1].id = i + 1  BY <2>1, <2>2
    <3>2. \A r \in Range(Ids(now)) : r \in 1 .. n  BY <3>1 DEF Range, Ids, Indexes0, Row, n
    <3> QED BY <1>3, <2>2, <3>2 DEF Init
  <2>4. IsFiniteSet(owners) /\ Cardinality(owners) \in Nat
    <3>1. 1 \in Int /\ n \in Int  BY <2>2
    <3>2. IsFiniteSet(1 .. n)  BY <3>1, FS_Interval
    <3> QED BY <2>3, <3>2, FS_Subset, FS_CardinalityType
  <2>5. PICK s \in SetToSeqs(owners) :
              lists = [k \in 1 .. Len(s) |-> [row |-> s[k] - 1, of |-> s[k]]]
    BY DEF Init
  <2> DEFINE c == Cardinality(owners)
  <2>6. s \in [1 .. c -> owners] /\ \A k, l \in 1 .. c : s[k] = s[l] => k = l
    BY <2>5 DEF SetToSeqs
  <2> HIDE DEF c
  <2>7. c \in Nat /\ Len(s) = c  BY <2>4, <2>6, FunIsSeq DEF c
  <2>8. \A k \in 1 .. c : s[k] \in 1 .. n /\ s[k] \in owners  BY <2>3, <2>6
  <2>9. \A k \in 1 .. c : lists[k].row = s[k] - 1 /\ lists[k].of = s[k]  BY <2>5, <2>7
  <2>10. lists \in [1 .. c -> ListType]
    <3>1. \A k \in 1 .. c : s[k] - 1 \in Nat /\ s[k] \in Int  BY <2>8
    <3>2. lists = [k \in 1 .. c |-> [row |-> s[k] - 1, of |-> s[k]]]  BY <2>5, <2>7
    <3> QED BY <3>1, <3>2 DEF ListType
  <2>11. lists \in Seq(ListType) /\ Len(lists) = c /\ ListsAt(lists, now)
    <3>1. \A k \in 1 .. c : s[k] - 1 \in 0 .. n - 1 /\ s[k] - 1 + 1 = s[k]  BY <2>2, <2>8
    <3>2. InRows(lists, c, now)  BY <2>1, <2>8, <2>9, <3>1 DEF InRows, n
    <3>3. OfOwn(lists, c)  BY <2>6, <2>9 DEF OfOwn
    <3> QED BY <2>7, <2>10, <3>2, <3>3, ListsStand
  <2>12. OwnersOf(lists) = owners
    <3>1. s \in Injection(1 .. c, owners)  BY <2>6, Fun_IsInj
    <3>2. IsFiniteSet(1 .. c) /\ Cardinality(1 .. c) = c
      <4>1. 1 \in Int /\ c \in Int  BY <2>7
      <4>2. IsFiniteSet(1 .. c) /\ Cardinality(1 .. c) = IF 1 > c THEN 0 ELSE c - 1 + 1
        BY <4>1, FS_Interval
      <4> QED BY <2>7, <4>2
    <3>3. s \in Surjection(1 .. c, owners)  BY <2>4, <3>1, <3>2, FS_Injection DEF c
    <3>4. \A o \in owners : \E k \in 1 .. c : s[k] = o  BY <3>3 DEF Surjection
    <3>5. OwnersOf(lists) = {s[k] : k \in 1 .. c}  BY <2>9, <2>11 DEF OwnersOf
    <3> QED BY <2>8, <3>4, <3>5
  <2> QED BY <1>1, <1>3, <2>1, <2>3, <2>4, <2>11, <2>12 DEF FollowInv, FollowRows, c
<1> QED BY <1>2, <1>3

\* Every step is counted, and a behaviour stays of its kind.
LEMMA KindStays == Next => kind' = kind /\ steps' = steps + 1
<1>1. ASSUME OnList PROVE kind' = kind /\ steps' = steps + 1  BY <1>1 DEF OnList, Step
<1>2. ASSUME OnTable PROVE kind' = kind /\ steps' = steps + 1  BY <1>2 DEF OnTable, Step
<1>3. ASSUME \/ link_list_insert \/ link_list_erase \/ link_list_move \/ link_list_set
             \/ link_list_clear \/ modify_target \/ erase_origin
      PROVE  OnList
  BY <1>3, Zenon DEF link_list_insert, link_list_erase, link_list_move, link_list_set,
      link_list_clear, modify_target, erase_origin
<1>4. ASSUME insert_empty_rows \/ modify \/ erase_rows \/ swap_rows \/ merge_rows \/ clear_table
      PROVE  OnTable
  BY <1>4, Zenon DEF insert_empty_rows, modify, erase_rows, swap_rows, merge_rows, clear_table
<1>5. ASSUME add_changes PROVE kind' = kind /\ steps' = steps + 1  BY <1>5 DEF add_changes, Step
<1>6. ASSUME advance_incremental PROVE kind' = kind /\ steps' = steps + 1
  BY <1>6 DEF advance_incremental, Step
<1> QED BY <1>1, <1>2, <1>3, <1>4, <1>5, <1>6 DEF Next

\* Of other kinds there are no lists, and no instruction makes one.
LEMMA NoListsNext ==
    ASSUME FollowInv, [Next]_vars, kind # "lists"
    PROVE  FollowInv'
<1>1. steps \in Nat /\ lists = <<>> /\ owners = {}  BY DEF FollowInv
<1>2. CASE UNCHANGED vars  BY <1>1, <1>2 DEF vars, FollowInv
<1>3. CASE Next
  <2>1. kind' = kind /\ steps' \in Nat  BY <1>1, <1>3, KindStays
  <2>2. Len(lists) = 0  BY <1>1, EmptySeq
  <2> SUFFICES lists' = <<>> /\ owners' = {}  BY <2>1 DEF FollowInv
  <2>3. \A f : f \in [1 .. 0 -> {}] => f = <<>>
    <3>1. \A f : f \in [1 .. 0 -> {}] => f \in Seq({}) /\ Len(f) = 0  BY FunIsSeq
    <3> QED BY <3>1, EmptySeq
  <2>4. ASSUME NEW ls, NEW i, NEW last, Len(ls) = 0
        PROVE  ListsMovedOver(ls, i, last) = <<>>
    <3> DEFINE own == {k \in 1 .. Len(ls) : ls[k].row = i}
    <3>1. Cardinality(own) = 0  BY <2>4, FS_EmptySet
    <3>2. ListsMovedOver(ls, i, last) \in [1 .. 0 -> {}]  BY <2>4, <3>1 DEF ListsMovedOver
    <3> QED BY <2>3, <3>2
  <2>5. CASE insert_empty_rows \/ modify \/ clear_table \/ add_changes \/ advance_incremental
    BY <1>1, <2>5 DEF insert_empty_rows, modify, clear_table, add_changes, advance_incremental
  <2>6. CASE \/ link_list_insert \/ link_list_erase \/ link_list_move \/ link_list_set
             \/ link_list_clear \/ modify_target \/ erase_origin
    BY <1>1, <2>6 DEF link_list_insert, link_list_erase, link_list_move, link_list_set,
        link_list_clear, modify_target, erase_origin, OnList
  <2>7. CASE erase_rows
    <3>1. PICK i \in Indexes0(now) :
            /\ lists' = ListsMovedOver(lists, i, Len(now) - 1)
            /\ owners' = owners \ {Row(now, i)}
      BY <2>7 DEF erase_rows
    <3> QED BY <1>1, <2>2, <2>4, <3>1
  <2>8. CASE swap_rows
    <3>1. PICK i \in Indexes0(now), j \in Indexes0(now) :
            /\ lists' = [k \in 1 .. Len(lists) |->
                            CASE lists[k].row = i -> [lists[k] EXCEPT !.row = j]
                              [] lists[k].row = j -> [lists[k] EXCEPT !.row = i]
                              [] OTHER -> lists[k]]
            /\ owners' = owners
      BY <2>8 DEF swap_rows
    <3>2. lists' \in [1 .. 0 -> {}]  BY <2>2, <3>1
    <3> QED BY <1>1, <2>3, <3>1, <3>2
  <2>9. CASE merge_rows
    <3>1. PICK old \in Indexes0(now), new \in Indexes0(now) :
            lists' = ListsMovedOver(TakenOver(lists, old, new), old, Len(now) - 1)
      BY <2>9 DEF merge_rows, TakenOver
    <3>2. TakenOver(lists, old, new) \in [1 .. 0 -> {}]  BY <2>2 DEF TakenOver
    <3>3. Len(TakenOver(lists, old, new)) = 0  BY <2>2, <2>3, <3>2
    <3>4. owners' = owners  BY <2>9 DEF merge_rows
    <3> QED BY <1>1, <2>4, <3>1, <3>3, <3>4
  <2> QED BY <1>3, <2>5, <2>6, <2>7, <2>8, <2>9 DEF Next
<1> QED BY <1>2, <1>3

\* The instructions of a table with lists, one by one.
LEMMA ListsNext ==
    ASSUME FollowInv, Next, kind = "lists", "lastListMoves" \notin Allowed
    PROVE  FollowInv'
<1>1. FollowRows /\ steps \in Nat /\ MaxRows \in Nat  BY BoundsOK DEF FollowInv
<1>2. kind' = "lists" /\ steps' = steps + 1 /\ steps' \in Nat  BY <1>1, KindStays
<1> SUFFICES FollowRows'  BY <1>2 DEF FollowInv
<1>3. /\ insert_empty_rows \/ erase_rows \/ swap_rows \/ merge_rows \/ clear_table
      /\ OnTable
  <2>1. ~ OnList /\ ~ modify /\ ~ add_changes /\ ~ advance_incremental
    BY <1>1 DEF OnList, modify, add_changes, advance_incremental, FollowRows
  <2>2. ~(\/ link_list_insert \/ link_list_erase \/ link_list_move \/ link_list_set
          \/ link_list_clear \/ modify_target \/ erase_origin)
    BY <2>1, Zenon DEF link_list_insert, link_list_erase, link_list_move, link_list_set,
        link_list_clear, modify_target, erase_origin
  <2>3. insert_empty_rows \/ erase_rows \/ swap_rows \/ merge_rows \/ clear_table
    BY <2>1, <2>2, Zenon DEF Next
  <2> QED BY <2>3, Zenon DEF insert_empty_rows, erase_rows, swap_rows, merge_rows, clear_table
<1>4. change' = NoChange /\ start' = start
  <2>1. start' = start  BY <1>3 DEF OnTable
  <2>2. \A b : Changed(b) => change' = NoChange  BY DEF Changed
  <2> QED
    BY <1>3, <2>1, <2>2, Zenon
        DEF insert_empty_rows, erase_rows, swap_rows, merge_rows, clear_table
<1>5. /\ now \in Seq(RowType) /\ Distinct(now) /\ Given(now, MaxRows + steps)
      /\ lists \in Seq(ListType) /\ ListsAt(lists, now)
      /\ OwnersOf(lists) = owners
      /\ IsFiniteSet(owners) /\ Len(lists) = Cardinality(owners)
      /\ owners \subseteq Range(Ids(start))
  BY <1>1 DEF FollowRows
<1>6. Len(now) \in Nat /\ Len(lists) \in Nat /\ \A k \in 1 .. Len(now) : now[k] \in RowType
  BY <1>5, LenProperties, ElementOfSeq
<1>7. ASSUME NEW rows \in Seq(RowType), Given(rows, MaxRows + steps)
      PROVE  Given(rows, MaxRows + steps')
  <2>1. \A k \in 1 .. Len(rows) : rows[k] \in RowType  BY ElementOfSeq
  <2>2. \A k \in 1 .. Len(rows) : rows[k].id \in Int  BY <2>1 DEF RowType
  <2> QED BY <1>1, <1>2, <1>7, <2>2 DEF Given
\* What has to be shown of the new rows and lists.
<1>8. SUFFICES /\ now' \in Seq(RowType) /\ Distinct(now') /\ Given(now', MaxRows + steps')
               /\ lists' \in Seq(ListType) /\ ListsAt(lists', now')
               /\ OwnersOf(lists') = owners'
               /\ owners' \subseteq owners /\ Len(lists') = Cardinality(owners')
  BY <1>4, <1>5, FS_Subset DEF FollowRows, Distinct, Given, ListsAt, OwnersOf, Ids, Indexes0, Row, Range
<1>9. CASE insert_empty_rows
  <2>1. now' = Append(now, NewRow) /\ lists' = lists /\ owners' = owners
    BY <1>9 DEF insert_empty_rows
  <2>2. NewRow \in RowType /\ NewRow.id = MaxRows + steps'  BY <1>1, <1>2 DEF NewRow, RowType
  <2> HIDE DEF NewRow
  <2>3. /\ now' \in Seq(RowType) /\ Len(now') = Len(now) + 1
        /\ \A k \in 1 .. Len(now) : now'[k] = now[k]
        /\ Distinct(now') /\ Given(now', MaxRows + steps')
    <3>1. MaxRows + steps \in Int /\ MaxRows + steps' = (MaxRows + steps) + 1  BY <1>1, <1>2
    <3> QED BY <1>5, <2>1, <2>2, <3>1, RowAppended
  <2>4. ListsAt(lists, now')
    <3>1. ASSUME NEW k \in 1 .. Len(lists)
          PROVE  lists[k].row \in 0 .. Len(now') - 1 /\ now'[lists[k].row + 1].id = lists[k].of
      <4>1. lists[k].row \in 0 .. Len(now) - 1 /\ now[lists[k].row + 1].id = lists[k].of
        BY <1>5 DEF ListsAt
      <4>2. lists[k].row + 1 \in 1 .. Len(now) /\ lists[k].row \in 0 .. Len(now) + 1 - 1
        BY <1>6, <4>1
      <4> QED BY <2>3, <4>1, <4>2
    <3>2. \A k, l \in 1 .. Len(lists) :
                lists[k].row = lists[l].row \/ lists[k].of = lists[l].of => k = l
      BY <1>5 DEF ListsAt
    <3> QED BY <3>1, <3>2 DEF ListsAt
  <2> QED BY <1>5, <2>1, <2>3, <2>4
<1>10. CASE erase_rows
  <2>1. PICK i \in 0 .. Len(now) - 1 :
          /\ now' = MoveLastOver(now, i)
          /\ lists' = ListsMovedOver(lists, i, Len(now) - 1)
          /\ owners' = owners \ {now[i + 1].id}
          /\ now[i + 1].id \in owners /\ lists # <<>> =>
                  Last(lists).row # Len(now) - 1 \/ i = Len(now) - 1 \/ "lastListMoves" \in Allowed
    BY <1>10 DEF erase_rows, Indexes0, Row
  <2>2. /\ now' \in Seq(RowType) /\ Distinct(now') /\ Given(now', MaxRows + steps')
    <3>1. now' \in Seq(RowType)  BY <1>5, <2>1, RowsMovedOver
    <3>2. Distinct(now') /\ Given(now', MaxRows + steps)
      BY <1>5, <2>1, RowsStayDistinct DEF Distinct
    <3> QED BY <1>7, <3>1, <3>2
  <2>3. CASE \E m \in 1 .. Len(lists) : lists[m].row = i
    <3>1. PICK m \in 1 .. Len(lists) : lists[m].row = i  BY <2>3
    <3>2. lists[m].of = now[i + 1].id /\ lists[m].of \in owners  BY <1>5, <3>1 DEF ListsAt, OwnersOf
    <3>3. lists # <<>>  BY <1>6, EmptySeq
    <3>4. Last(lists).row # Len(now) - 1 \/ i = Len(now) - 1  BY <2>1, <3>2, <3>3
    <3>5. /\ lists' \in Seq(ListType) /\ ListsAt(lists', now')
          /\ Len(lists') = Len(lists) - 1
          /\ OwnersOf(lists') = owners \ {lists[m].of}
      <4> DEFINE new   == ListsMovedOver(lists, i, Len(now) - 1)
                 moved == MoveLastOver(now, i)
      <4>1. /\ new \in Seq(ListType) /\ ListsAt(new, moved)
            /\ Len(new) = Len(lists) - 1
            /\ OwnersOf(new) = OwnersOf(lists) \ {lists[m].of}
        <5>1. now \in Seq(RowType) /\ lists \in Seq(ListType) /\ ListsAt(lists, now)  BY <1>5
        <5>2. i \in 0 .. Len(now) - 1 /\ m \in 1 .. Len(lists) /\ lists[m].row = i  BY <3>1
        <5> QED BY <5>1, <5>2, <3>4, ListsFollowErase, SMTT(60)
      <4>2. lists' = new /\ now' = moved  BY <2>1
      <4> HIDE DEF new, moved
      <4> QED BY <1>5, <4>1, <4>2
    <3>6. Cardinality(owners \ {lists[m].of}) = Cardinality(owners) - 1
      BY <1>5, <3>2, FS_RemoveElement
    <3> QED BY <1>5, <2>1, <2>2, <3>2, <3>5, <3>6
  <2>4. CASE \A m \in 1 .. Len(lists) : lists[m].row # i
    <3>1. now[i + 1].id \notin owners
      <4>1. SUFFICES ASSUME NEW m \in 1 .. Len(lists), lists[m].of = now[i + 1].id
                     PROVE  FALSE
        BY <1>5 DEF OwnersOf
      <4>2. lists[m].row + 1 = i + 1 /\ lists[m].row \in Int
        BY <1>5, <1>6, <4>1, SMTT(30) DEF ListsAt, Distinct
      <4> QED BY <2>4, <4>2
    <3>2. /\ lists' \in Seq(ListType) /\ ListsAt(lists', now')
          /\ Len(lists') = Len(lists) /\ OwnersOf(lists') = owners
      BY <1>5, <2>1, <2>4, ListsFollowMove
    <3>3. owners' = owners  BY <2>1, <3>1
    <3> QED BY <1>5, <2>2, <3>2, <3>3
  <2> QED BY <2>3, <2>4
<1>11. CASE swap_rows
  <2>1. PICK i \in 0 .. Len(now) - 1, j \in 0 .. Len(now) - 1 :
          /\ i < j
          /\ now' = SwappedRows(now, i, j)
          /\ lists' = RowsExchanged(lists, i, j)
          /\ owners' = owners
    BY <1>11 DEF swap_rows, SwappedRows, RowsExchanged, Indexes0
  <2>2. /\ lists' \in Seq(ListType) /\ ListsAt(lists', now')
        /\ Len(lists') = Len(lists) /\ OwnersOf(lists') = OwnersOf(lists)
        /\ now' \in Seq(RowType) /\ Distinct(now') /\ Given(now', MaxRows + steps)
    BY <1>5, <2>1, ListsFollowSwap
  <2> QED BY <1>5, <1>7, <2>1, <2>2
<1>12. CASE merge_rows
  <2>1. PICK old \in 0 .. Len(now) - 1, new \in 0 .. Len(now) - 1 :
          /\ old # new /\ now[new + 1].id \notin Range(Ids(start))
          /\ now' = MoveLastOver(Taken(now, old, new), old)
          /\ lists' = ListsMovedOver(TakenOver(lists, old, new), old, Len(now) - 1)
          /\ owners' = owners
    BY <1>12 DEF merge_rows, Taken, TakenOver, Indexes0, Row
  <2> DEFINE rows == Taken(now, old, new)
             ls   == TakenOver(lists, old, new)
  <2>2. now[new + 1].id \notin OwnersOf(lists)  BY <1>5, <2>1
  <2>3. /\ rows \in Seq(RowType) /\ Len(rows) = Len(now)
        /\ \A k \in 1 .. Len(now) : rows[k].id = now[IF k = new + 1 THEN old + 1 ELSE k].id
        /\ ls \in Seq(ListType) /\ ListsAt(ls, rows)
        /\ Len(ls) = Len(lists) /\ OwnersOf(ls) = OwnersOf(lists)
        /\ \A k \in 1 .. Len(ls) : ls[k].row # old
    BY <1>5, <2>1, <2>2, ListsFollowMerge
  <2> HIDE DEF rows, ls
  <2>4. /\ lists' \in Seq(ListType) /\ ListsAt(lists', now')
        /\ Len(lists') = Len(ls) /\ OwnersOf(lists') = OwnersOf(ls)
    <3> DEFINE next  == ListsMovedOver(ls, old, Len(rows) - 1)
               moved == MoveLastOver(rows, old)
    <3>1. old \in 0 .. Len(rows) - 1  BY <2>3
    <3>2. /\ next \in Seq(ListType) /\ ListsAt(next, moved)
          /\ Len(next) = Len(ls) /\ OwnersOf(next) = OwnersOf(ls)
      BY <2>3, <3>1, ListsFollowMove
    <3>3. lists' = next /\ now' = moved  BY <2>1, <2>3 DEF rows, ls
    <3> HIDE DEF next, moved
    <3> QED BY <3>2, <3>3
  <2>5. old + 1 \in 1 .. Len(now) /\ old \in Int /\ new \in Int  BY <1>6
  <2>6. Given(rows, MaxRows + steps)  BY <1>5, <2>3, <2>5 DEF Given
  <2>7. \A k, l \in 1 .. Len(rows) :
              k # old + 1 /\ l # old + 1 /\ rows[k].id = rows[l].id => k = l
    BY <1>5, <2>3, <2>5 DEF Distinct
  <2>8. old \in 0 .. Len(rows) - 1  BY <2>3
  <2>9. now' \in Seq(RowType) /\ Distinct(now') /\ Given(now', MaxRows + steps)
    BY <2>1, <2>3, <2>6, <2>7, <2>8, RowsMovedOver, RowsStayDistinct DEF rows
  <2> QED BY <1>5, <1>7, <2>1, <2>3, <2>4, <2>9
<1>13. CASE clear_table
  <2>1. now' = <<>> /\ lists' = <<>> /\ owners' = {}  BY <1>13 DEF clear_table
  <2>2. Len(<<>>) = 0 /\ <<>> \in Seq(RowType) /\ <<>> \in Seq(ListType)  BY EmptySeq
  <2>3. Distinct(<<>>) /\ Given(<<>>, MaxRows + steps') /\ ListsAt(<<>>, <<>>) /\ OwnersOf(<<>>) = {}
    BY <2>2 DEF Distinct, Given, ListsAt, OwnersOf
  <2> QED BY <2>1, <2>2, <2>3, FS_EmptySet
<1> QED BY <1>3, <1>9, <1>10, <1>11, <1>12, <1>13

\* However rows with lists are inserted, moved, swapped, merged and erased, the worker looks
\* for the changes of each list in the row that it belongs to
\* (transact_log_handler.cpp:540-646), but for the case that the erase loop of lines 572-584
\* misses.
THEOREM ListsAlwaysFollow ==
    ASSUME "lastListMoves" \notin Allowed
    PROVE  Spec => []ListsFollow
<1>1. Init => FollowInv  BY FollowInit
<1>2. FollowInv /\ [Next]_vars => FollowInv'
  <2> SUFFICES ASSUME FollowInv, [Next]_vars PROVE FollowInv'  OBVIOUS
  <2>1. CASE kind # "lists"  BY <2>1, NoListsNext
  <2>2. CASE kind = "lists" /\ Next  BY <2>2, ListsNext
  <2>3. CASE UNCHANGED vars
    BY <2>3 DEF vars, FollowInv, FollowRows, Distinct, Given, ListsAt, OwnersOf, Ids, Indexes0, Row, Range
  <2> QED BY <2>1, <2>2, <2>3
<1>3. FollowInv => ListsFollow  BY FollowInvGives
<1> QED BY <1>1, <1>2, <1>3, PTL DEF Spec

-----------------------------------------------------------------------------
(* Counting, and the n-th of a set of indexes.                             *)

\* Among some natural numbers there is a least.
LEMMA NatMin ==
    ASSUME NEW T \in SUBSET Nat, T # {}
    PROVE  \E x \in T : \A y \in T : x <= y
<1>1. IsWellFoundedOn(OpToRel(<, Nat), Nat)  BY NatLessThanWellFounded
<1> DEFINE R == OpToRel(<, Nat)
<1>2. \A x, y \in Nat : x < y => <<x, y>> \in R  BY DEF OpToRel
<1>3. IsWellFoundedOn(R, Nat)  BY <1>1
<1> HIDE DEF R
<1>4. \E x \in T : \A y \in T : ~ (<<y, x>> \in R)  BY <1>3, WFMin
<1>5. PICK x \in T : \A y \in T : ~ (<<y, x>> \in R)  BY <1>4
<1>6. \A y \in T : ~(y < x)  BY <1>2, <1>5
<1> QED BY <1>6

\* Induction over a set of numbers.
LEMMA CountUp ==
    ASSUME NEW n \in Nat, NEW S, 0 \in S, \A k \in 1 .. n : k - 1 \in S => k \in S
    PROVE  \A k \in 0 .. n : k \in S
<1> DEFINE T == {k \in 0 .. n : k \notin S}
<1> SUFFICES ASSUME T # {} PROVE FALSE  OBVIOUS
<1>1. PICK x \in T : \A y \in T : x <= y
  <2>1. T \in SUBSET Nat  OBVIOUS
  <2> HIDE DEF T
  <2> QED BY <2>1, NatMin
<1>2. x \in 1 .. n /\ x - 1 \in 0 .. n /\ x - 1 < x /\ x \notin S  BY <1>1
<1>3. x - 1 \in S  BY <1>1, <1>2
<1> QED BY <1>2, <1>3

\* Steps that stay within a set can be taken one after the other.
LEMMA StepsExist ==
    ASSUME NEW X, NEW base \in X, NEW n \in Nat, NEW F \in [1 .. n -> [X -> X]]
    PROVE  \E f \in [0 .. n -> X] : f[0] = base /\ \A k \in 1 .. n : f[k] = F[k][f[k - 1]]
<1> DEFINE P(f, m) == f[0] = base /\ \A k \in 1 .. m : f[k] = F[k][f[k - 1]]
           S == {m \in 0 .. n : \E f \in [0 .. m -> X] : P(f, m)}
<1>1. 0 \in S
  <2> DEFINE f == [k \in 0 .. 0 |-> base]
  <2>1. f \in [0 .. 0 -> X] /\ P(f, 0) /\ 0 \in 0 .. n  OBVIOUS
  <2> HIDE DEF f, P
  <2> QED BY <2>1
<1>2. \A m \in 1 .. n : m - 1 \in S => m \in S
  <2> SUFFICES ASSUME NEW m \in 1 .. n, m - 1 \in S PROVE m \in S  OBVIOUS
  <2>1. PICK f \in [0 .. m - 1 -> X] : P(f, m - 1)  OBVIOUS
  <2> DEFINE g == [k \in 0 .. m |-> IF k = m THEN F[m][f[m - 1]] ELSE f[k]]
  <2>2. F[m][f[m - 1]] \in X
    <3>1. m - 1 \in 0 .. m - 1  OBVIOUS
    <3> QED BY <3>1
  <2>3. g \in [0 .. m -> X]  BY <2>2
  <2>4. P(g, m)
    <3>1. g[0] = base  BY <2>1
    <3>2. ASSUME NEW k \in 1 .. m PROVE g[k] = F[k][g[k - 1]]
      <4>1. k - 1 \in 0 .. m - 1 /\ g[k - 1] = f[k - 1]  OBVIOUS
      <4>2. CASE k = m  BY <4>1, <4>2
      <4>3. CASE k # m
        <5>1. k \in 1 .. m - 1 /\ g[k] = f[k]  BY <4>3
        <5> QED BY <2>1, <4>1, <5>1
      <4> QED BY <4>2, <4>3
    <3> QED BY <3>1, <3>2
  <2>5. m \in 0 .. n  OBVIOUS
  <2> HIDE DEF P, g
  <2> QED BY <2>3, <2>4, <2>5
<1>3. n \in S
  <2> HIDE DEF S
  <2>1. \A k \in 0 .. n : k \in S  BY <1>1, <1>2, CountUp
  <2> QED BY <2>1
<1> QED BY <1>3

\* Of finitely many numbers there is a first, a second and so on up to the last.
LEMMA NthWorks ==
    ASSUME NEW S \in SUBSET Nat, IsFiniteSet(S)
    PROVE  /\ Cardinality(S) \in Nat
           /\ \A n \in 1 .. Cardinality(S) : Nth(S, n) \in S
           /\ \A i \in S : \E n \in 1 .. Cardinality(S) : Nth(S, n) = i
           /\ \A m, n \in 1 .. Cardinality(S) : m < n => Nth(S, m) < Nth(S, n)
<1> DEFINE c == Cardinality(S)
           r == [i \in S |-> Cardinality(Below(S, i))]
<1>1. c \in Nat /\ \A i \in S : IsFiniteSet(Below(S, i)) /\ r[i] \in Nat
  BY BelowFinite, FS_CardinalityType
<1>2. ASSUME NEW i \in S, NEW j \in S, i < j PROVE r[i] < r[j]
  <2>1. i \in Nat /\ j \in Nat /\ \A k \in S : k \in Nat /\ (k < i => k < j) /\ ~(i < i)  BY <1>2
  <2>2. Below(S, i) \cup {i} \in SUBSET Below(S, j) /\ i \notin Below(S, i)  BY <1>2, <2>1 DEF Below
  <2>3. Cardinality(Below(S, i) \cup {i}) = r[i] + 1  BY <1>1, <2>2, FS_AddElement
  <2>4. Cardinality(Below(S, i) \cup {i}) <= r[j]  BY <1>1, <2>2, FS_Subset
  <2> QED BY <1>1, <2>3, <2>4
<1>3. ASSUME NEW i \in S PROVE r[i] \in 0 .. c - 1
  <2>1. Below(S, i) \in SUBSET (S \ {i})  BY DEF Below
  <2>2. IsFiniteSet(S \ {i}) /\ Cardinality(S \ {i}) = c - 1  BY FS_RemoveElement
  <2>3. r[i] <= c - 1  BY <2>1, <2>2, FS_Subset
  <2> QED BY <1>1, <2>3
<1>4. IsFiniteSet(0 .. c - 1) /\ Cardinality(0 .. c - 1) = c
  <2>1. 0 \in Int /\ c - 1 \in Int  BY <1>1
  <2>2. /\ IsFiniteSet(0 .. c - 1)
        /\ Cardinality(0 .. c - 1) = IF 0 > c - 1 THEN 0 ELSE c - 1 - 0 + 1
    BY <2>1, FS_Interval
  <2> HIDE DEF c
  <2> QED BY <1>1, <2>2
<1>5. r \in Injection(S, 0 .. c - 1)
  <2>1. \A i, j \in S : r[i] = r[j] => i = j  BY <1>1, <1>2
  <2>2. r \in [S -> 0 .. c - 1]  BY <1>3
  <2> HIDE DEF r, c
  <2> QED BY <2>1, <2>2, Fun_IsInj
<1>6. r \in Surjection(S, 0 .. c - 1)
  <2> HIDE DEF r
  <2> QED BY <1>4, <1>5, FS_Injection
<1>7. ASSUME NEW n \in 1 .. c PROVE Nth(S, n) \in S /\ r[Nth(S, n)] = n - 1
  <2>1. n - 1 \in 0 .. c - 1  BY <1>1
  <2>2. \E i \in S : r[i] = n - 1
    <3> HIDE DEF r, c
    <3> QED BY <1>6, <2>1 DEF Surjection
  <2>3. \E i \in S : Cardinality(Below(S, i)) = n - 1  BY <2>2
  <2>4. Nth(S, n) \in S /\ Cardinality(Below(S, Nth(S, n))) = n - 1  BY <2>3 DEF Nth
  <2> QED BY <2>4
<1> HIDE DEF r, c
<1>8. ASSUME NEW i \in S PROVE \E n \in 1 .. c : Nth(S, n) = i
  <2>1. i \in Int  OBVIOUS
  <2> DEFINE q == r[i]
             n == q + 1
             x == Nth(S, n)
  <2>2. q \in 0 .. c - 1  BY <1>3
  <2> HIDE DEF q
  <2>3. n \in 1 .. c /\ n - 1 = q  BY <1>1, <2>2
  <2> HIDE DEF n
  <2>4. x \in S /\ r[x] = q  BY <1>7, <2>3
  <2> HIDE DEF x
  <2>5. x \in Int /\ r[x] = r[i] /\ r[i] \in Nat  BY <1>1, <2>4 DEF q
  <2>6. ~(x < i) /\ ~(i < x)  BY <1>2, <2>4, <2>5
  <2>7. x = i  BY <2>1, <2>5, <2>6
  <2> QED BY <2>3, <2>7 DEF x
<1>9. ASSUME NEW m \in 1 .. c, NEW n \in 1 .. c, m < n
      PROVE  Nth(S, m) < Nth(S, n)
  <2> DEFINE x == Nth(S, m)
             y == Nth(S, n)
  <2>1. x \in S /\ y \in S /\ r[x] = m - 1 /\ r[y] = n - 1  BY <1>7
  <2> HIDE DEF x, y
  <2>2. x \in Int /\ y \in Int /\ r[x] < r[y]  BY <1>9, <1>1, <2>1
  <2>3. x # y /\ ~(y < x)  BY <1>1, <1>2, <2>1, <2>2
  <2>4. x < y  BY <2>2, <2>3
  <2> QED BY <2>4 DEF x, y
<1> QED BY <1>1, <1>7, <1>8, <1>9 DEF c

-----------------------------------------------------------------------------
(* Rows and the indexes of those that stay.                                *)

\* Some rows, by their indexes, and no two of them are one.
Rows(f, n) == DOMAIN f = 0 .. n - 1 /\ \A i, j \in 0 .. n - 1 : f[i] = f[j] => i = j

\* An index counts the rows before it.
LEMMA UnshiftCounts ==
    ASSUME NEW S \in SUBSET Nat, IsFiniteSet(S), NEW i \in Nat
    PROVE  /\ Unshift(S, i) \in Nat /\ Unshift(S, i) = Cardinality((0 .. i - 1) \ S)
           /\ Unshift(S, i) <= i /\ CountIn(S, 0, i) = i - Unshift(S, i)
<1>1. IsFiniteSet(0 .. i - 1) /\ Cardinality(0 .. i - 1) = i
  <2>1. 0 \in Int /\ i - 1 \in Int  OBVIOUS
  <2>2. /\ IsFiniteSet(0 .. i - 1)
        /\ Cardinality(0 .. i - 1) = IF 0 > i - 1 THEN 0 ELSE i - 1 - 0 + 1
    BY <2>1, FS_Interval
  <2> QED BY <2>2
<1>2. (0 .. i - 1) \cap S = Below(S, i)
  <2>1. \A k \in S : k \in 0 .. i - 1 <=> k < i  OBVIOUS
  <2> QED BY <2>1, Zenon DEF Below
<1>3. /\ IsFiniteSet((0 .. i - 1) \ S)
      /\ Cardinality((0 .. i - 1) \ S) = i - Cardinality(Below(S, i))
  <2> DEFINE A == 0 .. i - 1
  <2>1. IsFiniteSet(A) /\ Cardinality(A) = i /\ A \cap S = Below(S, i)  BY <1>1, <1>2
  <2> HIDE DEF A
  <2>2. IsFiniteSet(A \ S) /\ Cardinality(A \ S) = Cardinality(A) - Cardinality(A \cap S)
    BY <2>1, FS_Difference, Zenon
  <2> QED BY <2>1, <2>2 DEF A
<1>4. Cardinality((0 .. i - 1) \ S) \in Nat /\ Cardinality(Below(S, i)) \in Nat
  <2>1. S \in SUBSET Int /\ i \in Int  OBVIOUS
  <2>2. IsFiniteSet(Below(S, i))  BY <2>1, BelowFinite
  <2> QED BY <1>3, <2>2, FS_CardinalityType
<1>5. Below(S, i) \ Below(S, 0) = Below(S, i)
  <2>1. \A k \in S : ~(k < 0)  OBVIOUS
  <2> QED BY <2>1, Zenon DEF Below
<1> QED BY <1>3, <1>4, <1>5 DEF Unshift, CountIn

\* Rows that are matched in order are as many on either side of a cut.
LEMMA SameCount ==
    ASSUME NEW m \in Nat, NEW n \in Nat, NEW old, NEW new, Rows(old, m), Rows(new, n),
           NEW D, NEW I, Matches(D, I, old, new),
           NEW A \in SUBSET (DOMAIN old \ D), NEW B \in SUBSET (DOMAIN new \ I),
           \A i \in DOMAIN old \ D, j \in DOMAIN new \ I : old[i] = new[j] => (i \in A <=> j \in B)
    PROVE  IsFiniteSet(A) /\ IsFiniteSet(B) /\ Cardinality(A) = Cardinality(B)
<1>1. IsFiniteSet(A)
  <2>1. 0 \in Int /\ m - 1 \in Int  OBVIOUS
  <2>2. IsFiniteSet(0 .. m - 1)  BY <2>1, FS_Interval
  <2>3. A \in SUBSET (0 .. m - 1)  BY DEF Rows
  <2> QED BY <2>2, <2>3, FS_Subset
<1>2. /\ \A i \in DOMAIN old \ D : \E j \in DOMAIN new \ I : old[i] = new[j]
      /\ \A j \in DOMAIN new \ I : \E i \in DOMAIN old \ D : old[i] = new[j]
  BY DEF Matches
<1>3. \A i \in A : \E j \in B : old[i] = new[j]  BY <1>2
<1>4. \A j \in B : \E i \in A : old[i] = new[j]  BY <1>2
<1> DEFINE f == [i \in A |-> CHOOSE j \in B : old[i] = new[j]]
<1>5. \A i \in A : f[i] \in B /\ old[i] = new[f[i]]  BY <1>3
<1>6. f \in [A -> B]  BY <1>5
<1> HIDE DEF f
<1>7. \A i, k \in A : f[i] = f[k] => i = k  BY <1>5 DEF Rows
<1>8. ASSUME NEW j \in B PROVE \E i \in A : f[i] = j
  <2>1. PICK i \in A : old[i] = new[j]  BY <1>4
  <2>2. f[i] \in B /\ new[f[i]] = new[j]  BY <1>5, <2>1
  <2>3. f[i] \in DOMAIN new /\ j \in DOMAIN new  BY <2>2
  <2> QED BY <2>2, <2>3 DEF Rows
<1>9. f \in Bijection(A, B)  BY <1>6, <1>7, <1>8, Fun_IsBij
<1>10. ExistsBijection(A, B)  BY <1>9 DEF ExistsBijection
<1> QED BY <1>1, <1>10, FS_Bijection

\* A row that stays has as many before it that stay, so that what unshift and shift make of its
\* index is its index on the other side.
LEMMA SameRank ==
    ASSUME NEW m \in Nat, NEW n \in Nat, NEW old, NEW new, Rows(old, m), Rows(new, n),
           NEW D \in SUBSET Nat, NEW I \in SUBSET Nat, IsFiniteSet(D), IsFiniteSet(I),
           Matches(D, I, old, new),
           NEW i \in DOMAIN old \ D, NEW j \in DOMAIN new \ I, old[i] = new[j]
    PROVE  /\ Unshift(D, i) = Unshift(I, j)
           /\ Shift(D, Unshift(I, j)) = i /\ Shift(I, Unshift(D, i)) = j
<1>1. i \in Nat /\ j \in Nat /\ i \in 0 .. m - 1 /\ j \in 0 .. n - 1  BY DEF Rows
<1> DEFINE A == (0 .. i - 1) \ D
           B == (0 .. j - 1) \ I
<1>2. A \in SUBSET (DOMAIN old \ D) /\ B \in SUBSET (DOMAIN new \ I)  BY <1>1 DEF Rows
<1>3. ASSUME NEW k \in DOMAIN old \ D, NEW l \in DOMAIN new \ I, old[k] = new[l]
      PROVE  k \in A <=> l \in B
  <2>1. k \in 0 .. m - 1 /\ l \in 0 .. n - 1  BY DEF Rows
  <2>2. (k < i => l < j) /\ (i < k => j < l)  BY <1>3 DEF Matches
  <2>3. k = i <=> l = j  BY <1>1, <1>3, <2>1 DEF Rows
  <2>4. k < i <=> l < j  BY <1>1, <2>1, <2>2, <2>3
  <2> QED BY <1>1, <2>1, <2>4
<1> HIDE DEF A, B
<1>4. Cardinality(A) = Cardinality(B)  BY <1>2, <1>3, SameCount
<1>5. Unshift(D, i) = Unshift(I, j)  BY <1>1, <1>4, UnshiftCounts DEF A, B
<1>6. D \in SUBSET Int /\ I \in SUBSET Int /\ i \in Int \ D /\ j \in Int \ I  BY <1>1
<1>7. Shift(D, Unshift(D, i)) = i /\ Shift(I, Unshift(I, j)) = j  BY <1>6, ShiftUndoesUnshift
<1> QED BY <1>5, <1>7

\* As many rows stay on one side as on the other.
LEMMA SameSize ==
    ASSUME NEW m \in Nat, NEW n \in Nat, NEW old, NEW new, Rows(old, m), Rows(new, n),
           NEW D \in SUBSET (0 .. m - 1), NEW I \in SUBSET (0 .. n - 1), Matches(D, I, old, new)
    PROVE  /\ IsFiniteSet(D) /\ IsFiniteSet(I)
           /\ Cardinality(D) \in Nat /\ Cardinality(I) \in Nat
           /\ m - Cardinality(D) = n - Cardinality(I)
<1>1. Cardinality(DOMAIN old \ D) = Cardinality(DOMAIN new \ I)
  <2>1. \A i \in DOMAIN old \ D, j \in DOMAIN new \ I :
              old[i] = new[j] => (i \in DOMAIN old \ D <=> j \in DOMAIN new \ I)
    OBVIOUS
  <2>2. DOMAIN old \ D \in SUBSET (DOMAIN old \ D) /\ DOMAIN new \ I \in SUBSET (DOMAIN new \ I)
    OBVIOUS
  <2> QED BY <2>1, <2>2, SameCount
<1>2. ASSUME NEW k \in Nat, NEW S \in SUBSET (0 .. k - 1)
      PROVE  /\ IsFiniteSet(S) /\ Cardinality(S) \in Nat
             /\ Cardinality((0 .. k - 1) \ S) = k - Cardinality(S)
  <2>1. 0 \in Int /\ k - 1 \in Int  OBVIOUS
  <2>2. /\ IsFiniteSet(0 .. k - 1)
        /\ Cardinality(0 .. k - 1) = IF 0 > k - 1 THEN 0 ELSE k - 1 - 0 + 1
    BY <2>1, FS_Interval
  <2>3. (0 .. k - 1) \cap S = S  OBVIOUS
  <2>4. IsFiniteSet(S) /\ Cardinality(S) \in Nat  BY <2>2, FS_Subset, FS_CardinalityType
  <2> DEFINE A == 0 .. k - 1
  <2>5. IsFiniteSet(A) /\ Cardinality(A) = k /\ A \cap S = S  BY <2>2, <2>3
  <2> HIDE DEF A
  <2>6. Cardinality(A \ S) = Cardinality(A) - Cardinality(A \cap S)  BY <2>5, FS_Difference, Zenon
  <2> QED BY <2>4, <2>5, <2>6 DEF A
<1>3. Cardinality((0 .. m - 1) \ D) = m - Cardinality(D) /\ Cardinality((0 .. n - 1) \ I) = n - Cardinality(I)
  BY <1>2
<1>4. DOMAIN old = 0 .. m - 1 /\ DOMAIN new = 0 .. n - 1  BY DEF Rows
<1>5. m - Cardinality(D) = n - Cardinality(I)  BY <1>1, <1>3, <1>4
<1>6. IsFiniteSet(D) /\ Cardinality(D) \in Nat  BY <1>2
<1>7. IsFiniteSet(I) /\ Cardinality(I) \in Nat  BY <1>2
<1> QED BY <1>5, <1>6, <1>7

\* A row that is moved but stays where it is among the others need not be.
LEMMA MatchWithout ==
    ASSUME NEW m \in Nat, NEW n \in Nat, NEW old, NEW new, Rows(old, m), Rows(new, n),
           NEW D \in SUBSET Nat, NEW I \in SUBSET Nat, IsFiniteSet(D), IsFiniteSet(I),
           Matches(D, I, old, new),
           NEW f \in D, NEW t \in I, f \in 0 .. m - 1, t \in 0 .. n - 1, old[f] = new[t],
           Unshift(D, f) = Unshift(I, t)
    PROVE  Matches(D \ {f}, I \ {t}, old, new)
<1> DEFINE stays == DOMAIN old \ D
           same  == DOMAIN new \ I
<1>1. DOMAIN old \ (D \ {f}) = stays \cup {f} /\ DOMAIN new \ (I \ {t}) = same \cup {t}  BY DEF Rows
<1>2. /\ \A i \in stays : \E j \in same : old[i] = new[j]
      /\ \A j \in same : \E i \in stays : old[i] = new[j]
      /\ \A i, k \in stays, j, l \in same : old[i] = new[j] /\ old[k] = new[l] /\ i < k => j < l
  BY DEF Matches
<1>3. /\ D \in SUBSET Int /\ I \in SUBSET Int
      /\ \A k \in Nat : Unshift(D, k) \in Int
      /\ \A k \in Nat : Unshift(I, k) \in Int
  <2>1. ASSUME NEW k \in Nat, NEW S \in SUBSET Nat, IsFiniteSet(S) PROVE Unshift(S, k) \in Int
    <3>1. Unshift(S, k) \in Nat  BY <2>1, UnshiftCounts
    <3> QED BY <3>1
  <2> QED BY <2>1
<1>4. ASSUME NEW i \in stays, NEW j \in same, old[i] = new[j]
      PROVE  (i < f <=> j < t) /\ (f < i <=> t < j)
  <2>1. i \in Nat /\ j \in Nat /\ i \notin D /\ j \notin I /\ f \in Nat /\ t \in Nat  BY DEF Rows
  <2>2. Unshift(D, i) = Unshift(I, j)  BY <1>4, SameRank
  <2>3. /\ i < f => Unshift(D, i) < Unshift(D, f)
        /\ f <= i => Unshift(D, f) <= Unshift(D, i)
    <3>1. CASE i < f
      <4>1. Unshift(D, f) > Unshift(D, i)  BY <1>3, <2>1, <3>1, UnshiftBetween
      <4> QED BY <2>1, <3>1, <4>1
    <3>2. CASE f <= i
      <4>1. Unshift(D, i) >= Unshift(D, f)  BY <1>3, <2>1, <3>2, UnshiftBetween
      <4>2. Unshift(D, i) \in Int /\ Unshift(D, f) \in Int  BY <1>3, <2>1
      <4> QED BY <2>1, <3>2, <4>1, <4>2
    <3> QED BY <2>1, <3>1, <3>2
  <2>4. /\ j < t => Unshift(I, j) < Unshift(I, t)
        /\ t <= j => Unshift(I, t) <= Unshift(I, j)
    <3>1. CASE j < t
      <4>1. Unshift(I, t) > Unshift(I, j)  BY <1>3, <2>1, <3>1, UnshiftBetween
      <4> QED BY <2>1, <3>1, <4>1
    <3>2. CASE t <= j
      <4>1. Unshift(I, j) >= Unshift(I, t)  BY <1>3, <2>1, <3>2, UnshiftBetween
      <4>2. Unshift(I, j) \in Int /\ Unshift(I, t) \in Int  BY <1>3, <2>1
      <4> QED BY <2>1, <3>2, <4>1, <4>2
    <3> QED BY <2>1, <3>1, <3>2
  <2>5. Unshift(D, i) \in Int /\ Unshift(D, f) \in Int  BY <1>3, <2>1
  <2>6. i # f /\ j # t  OBVIOUS
  <2> QED BY <2>1, <2>2, <2>3, <2>4, <2>5, <2>6
<1>5. \A j \in same : new[j] # old[f]  BY DEF Rows
<1>6. \A i \in stays : old[i] # new[t]  BY DEF Rows
<1> HIDE DEF stays, same
<1>7. /\ \A i \in stays \cup {f} : \E j \in same \cup {t} : old[i] = new[j]
      /\ \A j \in same \cup {t} : \E i \in stays \cup {f} : old[i] = new[j]
  BY <1>2
<1>8. ASSUME NEW i \in stays \cup {f}, NEW k \in stays \cup {f},
             NEW j \in same \cup {t}, NEW l \in same \cup {t},
             old[i] = new[j], old[k] = new[l], i < k
      PROVE  j < l
  <2>1. CASE i \in stays /\ k \in stays
    <3>1. j \in same /\ l \in same  BY <1>6, <1>8, <2>1
    <3> QED BY <1>2, <1>8, <2>1, <3>1
  <2>2. CASE i \in stays /\ k = f
    <3>1. j \in same /\ l = t  BY <1>5, <1>6, <1>8, <2>2
    <3> QED BY <1>4, <1>8, <2>2, <3>1
  <2>3. CASE i = f /\ k \in stays
    <3>1. j = t /\ l \in same  BY <1>5, <1>6, <1>8, <2>3
    <3> QED BY <1>4, <1>8, <2>3, <3>1
  <2>4. CASE i = f /\ k = f  BY <1>8, <2>4
  <2> QED BY <2>1, <2>2, <2>3, <2>4
<1> QED BY <1>1, <1>7, <1>8 DEF Matches

\* The index that a row has when another is inserted at t, or erased from there.
Up(t, j) == IF j >= t THEN j + 1 ELSE j
Down(t, j) == IF j > t THEN j - 1 ELSE j

\* Both keep the order, and the one undoes the other.
LEMMA UpDown ==
    ASSUME NEW t \in Int, NEW j \in Int
    PROVE  /\ Up(t, j) \in Int /\ Up(t, j) # t /\ Down(t, Up(t, j)) = j
           /\ Down(t, j) \in Int /\ (j # t => Up(t, Down(t, j)) = j)
           /\ \A k \in Int : j < k => Up(t, j) < Up(t, k)
           /\ \A k \in Int : j < k /\ j # t /\ k # t => Down(t, j) < Down(t, k)
           /\ \A k \in Int : Up(t, j) = Up(t, k) => j = k
           /\ \A k \in Int : j # t /\ k # t /\ Down(t, j) = Down(t, k) => j = k
BY DEF Up, Down

\* What insert_at and erase_at do to the members of a set of indexes.
LEMMA RoomMade ==
    ASSUME NEW S \in SUBSET Int, NEW t \in Int
    PROVE  /\ MakeRoom(S, t, 1) = {Up(t, j) : j \in S} /\ t \notin MakeRoom(S, t, 1)
           /\ \A j \in Int : Up(t, j) \in MakeRoom(S, t, 1) <=> j \in S
           /\ InsertIndex(S, t, 1) = MakeRoom(S, t, 1) \cup {t}
<1>1. MakeRoom(S, t, 1) = {Up(t, j) : j \in S}
  <2>1. \A j \in S : j < t => Up(t, j) = j  BY DEF Up
  <2>2. \A j \in S : ~(j < t) => Up(t, j) = j + 1  BY DEF Up
  <2> QED BY <2>1, <2>2 DEF MakeRoom, Below
<1>2. \A j \in S : Up(t, j) # t  BY UpDown
<1>3. \A j \in Int : Up(t, j) \in {Up(t, k) : k \in S} => j \in S  BY UpDown
<1>4. t .. t + 1 - 1 = {t}  OBVIOUS
<1> QED BY <1>1, <1>2, <1>3, <1>4 DEF InsertIndex

Raised(S, t) == {Up(t, j) : j \in S}
Lowered(S, t) == {Down(t, j) : j \in S \ {t}}

\* What is left of a set of indexes when the row at t is erased.
LEMMA IndexErased ==
    ASSUME NEW S \in SUBSET Int, NEW t \in Int
    PROVE  /\ EraseIndex(S, t) = Lowered(S, t)
           /\ \A j \in Int \ {t} : Down(t, j) \in EraseIndex(S, t) <=> j \in S
<1>1. EraseIndex(S, t) = {Down(t, j) : j \in S \ {t}}
  <2>1. \A j \in S : j < t => Down(t, j) = j /\ j # t  BY DEF Down
  <2>2. \A j \in S : ~(j < t + 1) => Down(t, j) = j - 1 /\ j # t  BY DEF Down
  <2>3. \A j \in S \ {t} : j < t \/ ~(j < t + 1)  OBVIOUS
  <2>4. \A j \in S : j < t => j \in S \ {t} /\ j = Down(t, j)  BY <2>1
  <2>5. \A j \in S : ~(j < t + 1) => j \in S \ {t} /\ j - 1 = Down(t, j)  BY <2>2
  <2>6. EraseIndex(S, t) = {j \in S : j < t} \cup {j - 1 : j \in {l \in S : ~(l < t + 1)}}
    BY DEF EraseIndex, Below
  <2>7. \A x \in EraseIndex(S, t) : x \in {Down(t, j) : j \in S \ {t}}
    <3> SUFFICES ASSUME NEW x \in EraseIndex(S, t)
                 PROVE  \E j \in S \ {t} : x = Down(t, j)
      OBVIOUS
    <3>1. CASE x \in S /\ x < t  BY <2>4, <3>1
    <3>2. CASE ~(x \in S /\ x < t)
      <4>1. PICK j \in S : ~(j < t + 1) /\ x = j - 1  BY <2>6, <3>2
      <4> QED BY <2>5, <4>1
    <3> QED BY <3>1, <3>2
  <2>8. \A x \in {Down(t, j) : j \in S \ {t}} : x \in EraseIndex(S, t)  BY <2>1, <2>2, <2>3, <2>6
  <2> QED BY <2>7, <2>8
<1>2. \A j \in Int \ {t} : Down(t, j) \in {Down(t, k) : k \in S \ {t}} => j \in S  BY UpDown
<1> QED BY <1>1, <1>2 DEF Lowered

\* Rows are matched in order also when they are counted otherwise.
LEMMA MatchCounted ==
    ASSUME NEW D, NEW I, NEW J, NEW old, NEW new, NEW next,
           DOMAIN new \ I \in SUBSET Int, Matches(D, I, old, new), NEW g,
           \A j \in DOMAIN new \ I : g[j] \in DOMAIN next \ J /\ next[g[j]] = new[j],
           \A l \in DOMAIN next \ J : \E j \in DOMAIN new \ I : g[j] = l,
           \A j, l \in DOMAIN new \ I : j < l => g[j] < g[l]
    PROVE  Matches(D, J, old, next)
<1> DEFINE stays == DOMAIN old \ D
           same  == DOMAIN new \ I
           after == DOMAIN next \ J
<1>1. /\ \A i \in stays : \E j \in same : old[i] = new[j]
      /\ \A j \in same : \E i \in stays : old[i] = new[j]
      /\ \A i, k \in stays, j, l \in same : old[i] = new[j] /\ old[k] = new[l] /\ i < k => j < l
  BY DEF Matches
<1>2. /\ \A j \in same : g[j] \in after /\ next[g[j]] = new[j]
      /\ \A l \in after : \E j \in same : g[j] = l
      /\ \A j, l \in same : j < l => g[j] < g[l]
  OBVIOUS
<1> HIDE DEF stays, same, after
<1>3. \A i \in stays : \E j \in after : old[i] = next[j]  BY <1>1, <1>2
<1>4. \A j \in after : \E i \in stays : old[i] = next[j]  BY <1>1, <1>2
<1>5. ASSUME NEW i \in stays, NEW k \in stays, NEW j \in after, NEW l \in after,
             old[i] = next[j], old[k] = next[l], i < k
      PROVE  j < l
  <2>1. PICK p \in same, q \in same : g[p] = j /\ g[q] = l  BY <1>2
  <2>2. old[i] = new[p] /\ old[k] = new[q]  BY <1>2, <1>5, <2>1
  <2>3. p < q  BY <1>1, <1>5, <2>2
  <2> QED BY <1>2, <2>1, <2>3
<1> QED BY <1>3, <1>4, <1>5 DEF Matches, stays, after

\* A row is inserted at t.
LEMMA MatchInserted ==
    ASSUME NEW n \in Nat, NEW old, NEW new, NEW next, NEW D, NEW I \in SUBSET Int,
           NEW t \in 0 .. n, DOMAIN new = 0 .. n - 1, DOMAIN next = 0 .. n,
           \A j \in 0 .. n - 1 : next[Up(t, j)] = new[j], Matches(D, I, old, new)
    PROVE  Matches(D, InsertIndex(I, t, 1), old, next)
<1> DEFINE g == [j \in 0 .. n - 1 |-> Up(t, j)]
           J == InsertIndex(I, t, 1)
<1>1. \A j \in 0 .. n - 1 : Up(t, j) \in 0 .. n  BY DEF Up
<1>2. /\ J = MakeRoom(I, t, 1) \cup {t}
      /\ \A j \in Int : Up(t, j) \in MakeRoom(I, t, 1) <=> j \in I
  <2>1. t \in Int  OBVIOUS
  <2> QED BY <2>1, RoomMade
<1>3. \A j \in 0 .. n - 1 : Up(t, j) \in J <=> j \in I
  <2>1. \A j \in 0 .. n - 1 : j \in Int /\ Up(t, j) # t  BY DEF Up
  <2> HIDE DEF J
  <2> QED BY <1>2, <2>1
<1>4. \A l \in 0 .. n : l # t => Down(t, l) \in 0 .. n - 1 /\ Up(t, Down(t, l)) = l  BY DEF Up, Down
<1>5. t \in J
  <2> HIDE DEF J
  <2> QED BY <1>2
<1>6. \A j, l \in 0 .. n - 1 : j < l => Up(t, j) < Up(t, l)  BY DEF Up
<1>7. DOMAIN new \ I \in SUBSET Int  OBVIOUS
<1> HIDE DEF J
<1>8. \A j \in DOMAIN new \ I : g[j] \in DOMAIN next \ J /\ next[g[j]] = new[j]  BY <1>1, <1>3
<1>9. \A l \in DOMAIN next \ J : \E j \in DOMAIN new \ I : g[j] = l  BY <1>3, <1>4, <1>5
<1>10. \A j, l \in DOMAIN new \ I : j < l => g[j] < g[l]  BY <1>6
<1> HIDE DEF g
<1>11. Matches(D, J, old, next)  BY <1>7, <1>8, <1>9, <1>10, MatchCounted
<1> QED BY <1>11 DEF J

\* A row that does not stay is erased from t.
LEMMA MatchErased ==
    ASSUME NEW n \in Nat \ {0}, NEW old, NEW new, NEW next, NEW D, NEW I \in SUBSET Int,
           NEW t \in I, t \in 0 .. n - 1, DOMAIN new = 0 .. n - 1, DOMAIN next = 0 .. n - 2,
           \A j \in 0 .. n - 1 : j # t => next[Down(t, j)] = new[j], Matches(D, I, old, new)
    PROVE  Matches(D, EraseIndex(I, t), old, next)
<1> DEFINE g == [j \in 0 .. n - 1 |-> Down(t, j)]
           J == EraseIndex(I, t)
<1>1. \A j \in 0 .. n - 1 : j # t => Down(t, j) \in 0 .. n - 2  BY DEF Down
<1>2. \A j \in 0 .. n - 1 : j # t => (Down(t, j) \in J <=> j \in I)  BY IndexErased
<1>3. \A l \in 0 .. n - 2 : Up(t, l) \in 0 .. n - 1 /\ Down(t, Up(t, l)) = l /\ Up(t, l) # t
  BY DEF Up, Down
<1>4. \A j, l \in 0 .. n - 1 : j < l /\ j # t /\ l # t => Down(t, j) < Down(t, l)  BY DEF Down
<1>5. DOMAIN new \ I \in SUBSET Int /\ \A j \in DOMAIN new \ I : j # t  OBVIOUS
<1> HIDE DEF J
<1>6. \A j \in DOMAIN new \ I : g[j] \in DOMAIN next \ J /\ next[g[j]] = new[j]  BY <1>1, <1>2
<1>7. ASSUME NEW l \in DOMAIN next \ J PROVE \E j \in DOMAIN new \ I : g[j] = l
  <2>1. l \in 0 .. n - 2  OBVIOUS
  <2>2. Up(t, l) \in 0 .. n - 1 /\ Down(t, Up(t, l)) = l /\ Up(t, l) # t  BY <1>3, <2>1
  <2>3. Up(t, l) \notin I  BY <1>2, <2>2
  <2> QED BY <2>2, <2>3
<1>8. \A j, l \in DOMAIN new \ I : j < l => g[j] < g[l]  BY <1>4, <1>5
<1> HIDE DEF g
<1>9. Matches(D, J, old, next)  BY <1>5, <1>6, <1>7, <1>8, MatchCounted
<1> QED BY <1>9 DEF J

\* A row that stays is deleted.
LEMMA MatchDropped ==
    ASSUME NEW m \in Nat, NEW n \in Nat, NEW old, NEW new, Rows(old, m), Rows(new, n),
           NEW D, NEW I, Matches(D, I, old, new),
           NEW i \in DOMAIN old \ D, NEW j \in DOMAIN new \ I, old[i] = new[j]
    PROVE  Matches(D \cup {i}, I \cup {j}, old, new)
<1> DEFINE stays == DOMAIN old \ D
           same  == DOMAIN new \ I
<1>1. DOMAIN old \ (D \cup {i}) = stays \ {i} /\ DOMAIN new \ (I \cup {j}) = same \ {j}  OBVIOUS
<1>2. /\ \A k \in stays : \E l \in same : old[k] = new[l]
      /\ \A l \in same : \E k \in stays : old[k] = new[l]
      /\ \A k, p \in stays, l, q \in same : old[k] = new[l] /\ old[p] = new[q] /\ k < p => l < q
  BY DEF Matches
<1>3. \A k \in stays : old[k] = new[j] => k = i  BY DEF Rows
<1>4. \A l \in same : old[i] = new[l] => l = j  BY DEF Rows
<1> HIDE DEF stays, same
<1>5. \A k \in stays \ {i} : \E l \in same \ {j} : old[k] = new[l]  BY <1>2, <1>3
<1>6. \A l \in same \ {j} : \E k \in stays \ {i} : old[k] = new[l]  BY <1>2, <1>4
<1> QED BY <1>1, <1>2, <1>5, <1>6 DEF Matches

\* Nothing is deleted and nothing inserted.
LEMMA MatchNothing ==
    ASSUME NEW m \in Nat, NEW old, Rows(old, m)
    PROVE  Matches({}, {}, old, old)
<1>1. \A i, k, j, l \in DOMAIN old : old[i] = old[j] /\ old[k] = old[l] /\ i < k => j < l
  BY DEF Rows
<1> QED BY <1>1 DEF Matches

\* Then the rows are the same.
LEMMA NothingMatches ==
    ASSUME NEW m \in Nat, NEW n \in Nat, NEW old, NEW new, Rows(old, m), Rows(new, n),
           Matches({}, {}, old, new)
    PROVE  m = n /\ \A i \in 0 .. m - 1 : old[i] = new[i]
<1>1. m = n
  <2>1. m - Cardinality({}) = n - Cardinality({})  BY SameSize
  <2> QED BY <2>1, FS_EmptySet
<1>2. ASSUME NEW i \in 0 .. m - 1 PROVE old[i] = new[i]
  <2>1. PICK j \in DOMAIN new \ {} : old[i] = new[j]  BY DEF Matches, Rows
  <2>2. Unshift({}, i) = Unshift({}, j)
    <3>1. i \in DOMAIN old \ {} /\ IsFiniteSet({}) /\ {} \in SUBSET Nat  BY FS_EmptySet DEF Rows
    <3> QED BY <2>1, <3>1, SameRank
  <2>3. j \in Int /\ i \in Int  BY DEF Rows
  <2>4. Below({}, i) = {} /\ Below({}, j) = {}  BY DEF Below
  <2>5. i = j  BY <2>2, <2>3, <2>4, FS_EmptySet DEF Unshift
  <2> QED BY <2>1, <2>5
<1> QED BY <1>1, <1>2

\* The indexes of a change set are those of the rows that it leads from and to.
Within(D, I, m, n) == D \subseteq 0 .. m - 1 /\ I \subseteq 0 .. n - 1

\* The indexes of rows are finitely many.
LEMMA WithinFinite ==
    ASSUME NEW n \in Nat, NEW S \in SUBSET (0 .. n - 1)
    PROVE  IsFiniteSet(S) /\ S \in SUBSET Nat /\ S \in SUBSET Int
<1>1. 0 \in Int /\ n - 1 \in Int  OBVIOUS
<1>2. IsFiniteSet(0 .. n - 1)  BY <1>1, FS_Interval
<1>3. IsFiniteSet(S)  BY <1>2, FS_Subset
<1> QED BY <1>3

\* shift and unshift find a row that stays on the other side.
LEMMA StayedFrom ==
    ASSUME NEW m \in Nat, NEW n \in Nat, NEW old, NEW new, Rows(old, m), Rows(new, n),
           NEW D \in SUBSET Nat, NEW I \in SUBSET Nat, IsFiniteSet(D), IsFiniteSet(I),
           Matches(D, I, old, new), NEW j \in 0 .. n - 1, j \notin I
    PROVE  /\ Shift(D, Unshift(I, j)) \in 0 .. m - 1 /\ Shift(D, Unshift(I, j)) \notin D
           /\ old[Shift(D, Unshift(I, j))] = new[j]
<1>1. DOMAIN old = 0 .. m - 1 /\ DOMAIN new = 0 .. n - 1  BY DEF Rows
<1>2. PICK i \in DOMAIN old \ D : old[i] = new[j]  BY <1>1 DEF Matches
<1>3. j \in DOMAIN new \ I  BY <1>1
<1>4. Shift(D, Unshift(I, j)) = i  BY <1>2, <1>3, SameRank
<1> QED BY <1>1, <1>2, <1>4

\* A row that stayed has an index among the new rows, the one that shift gives.
LEMMA StayedTo ==
    ASSUME NEW m \in Nat, NEW n \in Nat, NEW old, NEW new, Rows(old, m), Rows(new, n),
           NEW D \in SUBSET Nat, NEW I \in SUBSET Nat, IsFiniteSet(D), IsFiniteSet(I),
           Matches(D, I, old, new), NEW i \in 0 .. m - 1, i \notin D
    PROVE  /\ Shift(I, Unshift(D, i)) \in 0 .. n - 1 /\ Shift(I, Unshift(D, i)) \notin I
           /\ old[i] = new[Shift(I, Unshift(D, i))]
<1>1. DOMAIN old = 0 .. m - 1 /\ DOMAIN new = 0 .. n - 1  BY DEF Rows
<1>2. PICK j \in DOMAIN new \ I : old[i] = new[j]  BY <1>1 DEF Matches
<1>3. i \in DOMAIN old \ D  BY <1>1
<1>4. Shift(I, Unshift(D, i)) = j  BY <1>2, <1>3, SameRank
<1> QED BY <1>1, <1>2, <1>4

\* Two change sets, one after the other: what both leave stays, what is deleted by the second is
\* deleted where it was at first, and what is inserted by the first is inserted where it is now.
LEMMA MatchComposed ==
    ASSUME NEW m \in Nat, NEW p \in Nat, NEW n \in Nat, NEW old, NEW mid, NEW new,
           Rows(old, m), Rows(mid, p), Rows(new, n), NEW D, NEW I, NEW E, NEW J,
           Within(D, I, m, p), Within(E, J, p, n), Matches(D, I, old, mid), Matches(E, J, mid, new)
    PROVE  LET F == AddShiftedBy(D, I, E)
               K == InsertEach(EraseEach(I, E), J)
           IN  /\ Within(F, K, m, n) /\ Matches(F, K, old, new)
               /\ F = D \cup {Shift(D, Unshift(I, j)) : j \in E \ I}
               /\ K = {Shift(J, Unshift(E, j)) : j \in I \ E} \cup J
<1> DEFINE F == AddShiftedBy(D, I, E)
           K == InsertEach(EraseEach(I, E), J)
           src(j) == Shift(D, Unshift(I, j))
           dst(j) == Shift(J, Unshift(E, j))
<1>1. /\ DOMAIN old = 0 .. m - 1 /\ DOMAIN mid = 0 .. p - 1 /\ DOMAIN new = 0 .. n - 1
      /\ D \in SUBSET (0 .. m - 1) /\ I \in SUBSET (0 .. p - 1)
      /\ E \in SUBSET (0 .. p - 1) /\ J \in SUBSET (0 .. n - 1)
  BY DEF Rows, Within
<1>2. /\ IsFiniteSet(D) /\ D \in SUBSET Nat /\ IsFiniteSet(I) /\ I \in SUBSET Nat
      /\ IsFiniteSet(E) /\ E \in SUBSET Nat /\ IsFiniteSet(J) /\ J \in SUBSET Nat
  BY <1>1, WithinFinite
<1>3. F = D \cup {src(j) : j \in E \ I}  BY DEF AddShiftedBy
<1>4. K = {dst(j) : j \in I \ E} \cup J
  <2>1. EraseEach(I, E) = {Unshift(E, j) : j \in I \ E}  BY DEF EraseEach
  <2>2. MakeRoomForEach(EraseEach(I, E), J) = {dst(j) : j \in I \ E}  BY <2>1 DEF MakeRoomForEach
  <2> QED BY <2>2 DEF InsertEach
<1>5. ASSUME NEW j \in 0 .. p - 1, j \notin I
      PROVE  src(j) \in 0 .. m - 1 /\ src(j) \notin D /\ old[src(j)] = mid[j]
  BY <1>2, <1>5, StayedFrom, SMTT(30)
<1>6. ASSUME NEW j \in 0 .. p - 1, j \notin E
      PROVE  dst(j) \in 0 .. n - 1 /\ dst(j) \notin J /\ mid[j] = new[dst(j)]
  BY <1>2, <1>6, StayedTo
<1> HIDE DEF src, dst, F, K
<1>7. Within(F, K, m, n)
  <2>1. \A j \in E \ I : src(j) \in 0 .. m - 1  BY <1>1, <1>5
  <2>2. \A j \in I \ E : dst(j) \in 0 .. n - 1  BY <1>1, <1>6
  <2> QED BY <1>1, <1>3, <1>4, <2>1, <2>2 DEF Within
<1>8. /\ \A i, k \in 0 .. m - 1 : old[i] = old[k] => i = k
      /\ \A i, k \in 0 .. p - 1 : mid[i] = mid[k] => i = k
      /\ \A i, k \in 0 .. n - 1 : new[i] = new[k] => i = k
  BY DEF Rows
<1>9. /\ \A i \in DOMAIN old \ D : \E j \in DOMAIN mid \ I : old[i] = mid[j]
      /\ \A j \in DOMAIN new \ J : \E i \in DOMAIN mid \ E : mid[i] = new[j]
  BY DEF Matches
\* A row that stays is somewhere in between.
<1>10. ASSUME NEW i \in DOMAIN old \ F
       PROVE  \E j \in DOMAIN mid : /\ old[i] = mid[j] /\ j \notin I /\ j \notin E
                                    /\ mid[j] = new[dst(j)] /\ dst(j) \in DOMAIN new \ K
  <2>1. i \in DOMAIN old \ D  BY <1>3
  <2>2. PICK j \in DOMAIN mid \ I : old[i] = mid[j]  BY <1>9, <2>1
  <2>3. src(j) = i  BY <1>1, <1>5, <1>8, <2>1, <2>2
  <2>4. j \notin E  BY <1>3, <2>2, <2>3
  <2>5. dst(j) \in 0 .. n - 1 /\ dst(j) \notin J /\ mid[j] = new[dst(j)]  BY <1>1, <1>6, <2>2, <2>4
  <2>6. ASSUME NEW k \in I \ E, dst(k) = dst(j) PROVE FALSE
    <3>1. mid[k] = mid[j] /\ k \in 0 .. p - 1 /\ j \in 0 .. p - 1  BY <1>1, <1>6, <2>2, <2>5, <2>6
    <3>2. k = j  BY <1>8, <3>1
    <3> QED BY <2>2, <2>6, <3>2
  <2>7. dst(j) \notin K  BY <1>4, <2>5, <2>6
  <2> QED BY <1>1, <2>2, <2>4, <2>5, <2>7
<1>11. ASSUME NEW l \in DOMAIN new \ K
       PROVE  \E j \in DOMAIN mid : mid[j] = new[l] /\ src(j) \in DOMAIN old \ F /\ old[src(j)] = mid[j]
  <2>1. l \in DOMAIN new \ J  BY <1>4
  <2>2. PICK j \in DOMAIN mid \ E : mid[j] = new[l]  BY <1>9, <2>1
  <2>3. dst(j) = l  BY <1>1, <1>6, <1>8, <2>1, <2>2
  <2>4. j \notin I  BY <1>4, <2>2, <2>3
  <2>5. src(j) \in 0 .. m - 1 /\ src(j) \notin D /\ old[src(j)] = mid[j]  BY <1>1, <1>5, <2>2, <2>4
  <2>6. ASSUME NEW k \in E \ I, src(k) = src(j) PROVE FALSE
    <3>1. mid[k] = mid[j] /\ k \in 0 .. p - 1 /\ j \in 0 .. p - 1  BY <1>1, <1>5, <2>2, <2>5, <2>6
    <3>2. k = j  BY <1>8, <3>1
    <3> QED BY <2>2, <2>6, <3>2
  <2>7. src(j) \notin F  BY <1>3, <2>5, <2>6
  <2> QED BY <1>1, <2>2, <2>5, <2>7
<1>12. ASSUME NEW i \in DOMAIN old \ F PROVE \E j \in DOMAIN new \ K : old[i] = new[j]
  <2>1. PICK j \in DOMAIN mid : old[i] = mid[j] /\ mid[j] = new[dst(j)] /\ dst(j) \in DOMAIN new \ K
    BY <1>10
  <2> QED BY <2>1
<1>13. ASSUME NEW l \in DOMAIN new \ K PROVE \E i \in DOMAIN old \ F : old[i] = new[l]
  <2>1. PICK j \in DOMAIN mid : mid[j] = new[l] /\ src(j) \in DOMAIN old \ F /\ old[src(j)] = mid[j]
    BY <1>11
  <2> QED BY <2>1
<1>14. ASSUME NEW i \in DOMAIN old \ F, NEW k \in DOMAIN old \ F,
              NEW l \in DOMAIN new \ K, NEW q \in DOMAIN new \ K,
              old[i] = new[l], old[k] = new[q], i < k
       PROVE  l < q
  <2>1. PICK j \in DOMAIN mid :
          /\ old[i] = mid[j] /\ j \notin I /\ j \notin E
          /\ mid[j] = new[dst(j)] /\ dst(j) \in DOMAIN new \ K
    BY <1>10
  <2>2. PICK r \in DOMAIN mid :
          /\ old[k] = mid[r] /\ r \notin I /\ r \notin E
          /\ mid[r] = new[dst(r)] /\ dst(r) \in DOMAIN new \ K
    BY <1>10
  <2>3. i \in DOMAIN old \ D /\ k \in DOMAIN old \ D /\ l \in DOMAIN new \ J /\ q \in DOMAIN new \ J
    BY <1>3, <1>4
  <2>4. j < r  BY <1>14, <2>1, <2>2, <2>3 DEF Matches
  <2>5. mid[j] = new[l] /\ mid[r] = new[q]  BY <1>14, <2>1, <2>2
  <2> QED BY <2>1, <2>2, <2>3, <2>4, <2>5 DEF Matches
<1>15. Matches(F, K, old, new)  BY <1>12, <1>13, <1>14 DEF Matches
<1> QED BY <1>3, <1>4, <1>7, <1>15 DEF F, K, src, dst

-----------------------------------------------------------------------------
(* Change sets that lead from the rows before to the rows now.             *)

MoveType == [from : Nat, to : Nat]

\* A change set whose mapping has become moves, or of a list.
Builder == [deletions : SUBSET Nat, insertions : SUBSET Nat, modifications : SUBSET Nat,
            moves : Seq(MoveType), mapping : {NoMapping}]

\* The moves of a change set are those of its rows that go and come again, each one once.
MovesAre(moves, D, I, old, new) ==
    /\ \A k \in 1 .. Len(moves) :
        moves[k].from \in D /\ moves[k].to \in I /\ old[moves[k].from] = new[moves[k].to]
    /\ \A k, l \in 1 .. Len(moves) : moves[k].from = moves[l].from => k = l
    /\ \A i \in D, j \in I : old[i] = new[j] =>
        \E k \in 1 .. Len(moves) : moves[k].from = i /\ moves[k].to = j

\* A change set leads from the m rows old to the n rows new.
Leads(b, m, n, old, new) ==
    /\ Within(b.deletions, b.insertions, m, n)
    /\ Matches(b.deletions, b.insertions, old, new)
    /\ MovesAre(b.moves, b.deletions, b.insertions, old, new)

\* The change set is one that does, and has these modifications.
Goes(b, m, n, old, new, mods) == b \in Builder /\ Leads(b, m, n, old, new) /\ b.modifications = mods

\* The first k moves have been looked at.
Cleaned(a, k, b, old, new) ==
    /\ a \in Builder /\ a.modifications = b.modifications
    /\ a.deletions \subseteq b.deletions /\ a.insertions \subseteq b.insertions
    /\ Matches(a.deletions, a.insertions, old, new)
    /\ \A l \in 1 .. Len(b.moves) :
        /\ b.moves[l].from \in a.deletions <=> b.moves[l].to \in a.insertions
        /\ l > k => b.moves[l].from \in a.deletions
        /\ l <= k /\ b.moves[l].from \in a.deletions =>
            \E q \in 1 .. Len(a.moves) : a.moves[q] = b.moves[l]
    /\ \A q \in 1 .. Len(a.moves) :
        \E l \in 1 .. k : a.moves[q] = b.moves[l] /\ b.moves[l].from \in a.deletions
    /\ \A q, r \in 1 .. Len(a.moves) : a.moves[q].from = a.moves[r].from => q = r

\* Looking at one more move keeps what holds of the moves before it.
LEMMA CleanedNext ==
    ASSUME NEW m \in Nat, NEW n \in Nat, NEW old, NEW new, Rows(old, m), Rows(new, n),
           NEW b \in Builder, Leads(b, m, n, old, new),
           NEW k \in 1 .. Len(b.moves), NEW a, Cleaned(a, k - 1, b, old, new)
    PROVE  Cleaned(WithoutStale(a, b.moves[k]), k, b, old, new)
<1> DEFINE v == b.moves[k]
           D == a.deletions
           I == a.insertions
           c == WithoutStale(a, v)
<1>1. /\ b.moves \in Seq(MoveType) /\ Len(b.moves) \in Nat
      /\ \A l \in 1 .. Len(b.moves) : b.moves[l] \in MoveType
      /\ a \in Builder /\ a.moves \in Seq(MoveType) /\ Len(a.moves) \in Nat
  BY LenProperties, ElementOfSeq DEF Builder, Cleaned
<1>2. v \in MoveType /\ v.from \in Nat /\ v.to \in Nat  BY <1>1 DEF MoveType
<1>3. /\ D \in SUBSET b.deletions /\ I \in SUBSET b.insertions
      /\ b.deletions \in SUBSET (0 .. m - 1) /\ b.insertions \in SUBSET (0 .. n - 1)
  BY DEF Cleaned, Leads, Within
<1>4. IsFiniteSet(D) /\ IsFiniteSet(I) /\ D \in SUBSET Nat /\ I \in SUBSET Nat
  <2>1. D \in SUBSET (0 .. m - 1) /\ I \in SUBSET (0 .. n - 1)  BY <1>3
  <2> QED BY <2>1, WithinFinite
<1>5. /\ \A l \in 1 .. Len(b.moves) :
            /\ b.moves[l].from \in b.deletions /\ b.moves[l].to \in b.insertions
            /\ old[b.moves[l].from] = new[b.moves[l].to]
      /\ \A l, q \in 1 .. Len(b.moves) : b.moves[l].from = b.moves[q].from => l = q
  BY DEF Leads, MovesAre
<1>6. ASSUME NEW l \in 1 .. Len(b.moves), NEW q \in 1 .. Len(b.moves),
             b.moves[l].to = b.moves[q].to
      PROVE  l = q
  <2>1. old[b.moves[l].from] = old[b.moves[q].from]  BY <1>6, <1>5
  <2>2. b.moves[l].from \in 0 .. m - 1 /\ b.moves[q].from \in 0 .. m - 1  BY <1>3, <1>5
  <2>3. b.moves[l].from = b.moves[q].from  BY <2>1, <2>2 DEF Rows
  <2> QED BY <1>5, <2>3
<1>7. v.from \in D /\ v.to \in I
  <2>1. k > k - 1  BY <1>1
  <2> QED BY <2>1 DEF Cleaned
<1>8. CASE v.from - CountIn(D, 0, v.from) = v.to - CountIn(I, 0, v.to)
  <2>1. c = [a EXCEPT !.deletions = D \ {v.from}, !.insertions = I \ {v.to}]
    BY <1>8 DEF WithoutStale
  <2>2. /\ c \in Builder /\ c.modifications = a.modifications /\ c.moves = a.moves
        /\ c.deletions = D \ {v.from} /\ c.insertions = I \ {v.to}
    BY <1>1, <1>4, <2>1 DEF Builder
  <2>3. Unshift(D, v.from) = Unshift(I, v.to)
    <3>1. /\ Unshift(D, v.from) \in Nat /\ CountIn(D, 0, v.from) = v.from - Unshift(D, v.from)
          /\ Unshift(I, v.to) \in Nat /\ CountIn(I, 0, v.to) = v.to - Unshift(I, v.to)
      BY <1>2, <1>4, UnshiftCounts
    <3> QED BY <1>2, <1>8, <3>1
  <2>4. Matches(D \ {v.from}, I \ {v.to}, old, new)
    <3>1. v.from \in 0 .. m - 1 /\ v.to \in 0 .. n - 1 /\ old[v.from] = new[v.to]
      BY <1>3, <1>5, <1>7
    <3>2. Matches(D, I, old, new)  BY DEF Cleaned
    <3> HIDE DEF D, I, v
    <3> QED BY <1>4, <1>7, <2>3, <3>1, <3>2, MatchWithout
  <2>5. \A l \in 1 .. Len(b.moves) :
          /\ b.moves[l].from \in c.deletions <=> b.moves[l].from \in D /\ l # k
          /\ b.moves[l].to \in c.insertions <=> b.moves[l].to \in I /\ l # k
    BY <1>5, <1>6, <2>2
  <2> HIDE DEF c
  <2>6. ASSUME NEW l \in 1 .. Len(b.moves)
        PROVE  /\ b.moves[l].from \in c.deletions <=> b.moves[l].to \in c.insertions
               /\ l > k => b.moves[l].from \in c.deletions
               /\ l <= k /\ b.moves[l].from \in c.deletions =>
                   \E q \in 1 .. Len(c.moves) : c.moves[q] = b.moves[l]
    <3>1. /\ b.moves[l].from \in D <=> b.moves[l].to \in I
          /\ l > k - 1 => b.moves[l].from \in D
          /\ l <= k - 1 /\ b.moves[l].from \in D =>
                \E q \in 1 .. Len(a.moves) : a.moves[q] = b.moves[l]
      BY DEF Cleaned
    <3>2. (l > k => l > k - 1 /\ l # k) /\ (l <= k /\ l # k => l <= k - 1)  BY <1>1
    <3> QED BY <2>2, <2>5, <3>1, <3>2
  <2>7. ASSUME NEW q \in 1 .. Len(c.moves)
        PROVE  \E l \in 1 .. k : c.moves[q] = b.moves[l] /\ b.moves[l].from \in c.deletions
    <3>1. PICK l \in 1 .. k - 1 : a.moves[q] = b.moves[l] /\ b.moves[l].from \in D
      BY <2>2 DEF Cleaned
    <3>2. l \in 1 .. k /\ l \in 1 .. Len(b.moves) /\ l # k  BY <1>1
    <3> QED BY <2>2, <2>5, <3>1, <3>2
  <2>8. \A q, r \in 1 .. Len(c.moves) : c.moves[q].from = c.moves[r].from => q = r
    BY <2>2 DEF Cleaned
  <2>9. c.deletions \subseteq b.deletions /\ c.insertions \subseteq b.insertions
        /\ Matches(c.deletions, c.insertions, old, new) /\ c.modifications = b.modifications
    BY <1>3, <2>2, <2>4 DEF Cleaned
  <2> QED BY <2>2, <2>6, <2>7, <2>8, <2>9 DEF Cleaned, c
<1>9. CASE v.from - CountIn(D, 0, v.from) # v.to - CountIn(I, 0, v.to)
  <2>1. c = [a EXCEPT !.moves = Append(a.moves, v)]  BY <1>9 DEF WithoutStale
  <2>2. /\ Append(a.moves, v) \in Seq(MoveType) /\ Len(Append(a.moves, v)) = Len(a.moves) + 1
        /\ \A q \in 1 .. Len(a.moves) : Append(a.moves, v)[q] = a.moves[q]
        /\ Append(a.moves, v)[Len(a.moves) + 1] = v
    <3> HIDE DEF v
    <3> QED BY <1>1, <1>2, AppendProperties
  <2>3. /\ c \in Builder /\ c.modifications = a.modifications /\ c.moves = Append(a.moves, v)
        /\ c.deletions = D /\ c.insertions = I
    <3> HIDE DEF v
    <3> QED BY <1>1, <2>1, <2>2 DEF Builder
  <2>4. /\ Len(c.moves) = Len(a.moves) + 1 /\ c.moves[Len(a.moves) + 1] = v
        /\ \A q \in 1 .. Len(a.moves) : c.moves[q] = a.moves[q]
    BY <2>2, <2>3
  <2> HIDE DEF c
  <2>5. ASSUME NEW l \in 1 .. Len(b.moves)
        PROVE  /\ b.moves[l].from \in c.deletions <=> b.moves[l].to \in c.insertions
               /\ l > k => b.moves[l].from \in c.deletions
               /\ l <= k /\ b.moves[l].from \in c.deletions =>
                   \E q \in 1 .. Len(c.moves) : c.moves[q] = b.moves[l]
    <3>1. /\ b.moves[l].from \in D <=> b.moves[l].to \in I
          /\ l > k - 1 => b.moves[l].from \in D
          /\ l <= k - 1 /\ b.moves[l].from \in D =>
                \E q \in 1 .. Len(a.moves) : a.moves[q] = b.moves[l]
      BY DEF Cleaned
    <3>2. (l > k => l > k - 1) /\ (l <= k /\ l # k => l <= k - 1)  BY <1>1
    <3>3. \A q \in 1 .. Len(a.moves) : q \in 1 .. Len(c.moves)  BY <1>1, <2>4
    <3>4. Len(a.moves) + 1 \in 1 .. Len(c.moves)  BY <1>1, <2>4
    <3>5. CASE l = k  BY <2>3, <2>4, <3>1, <3>2, <3>4, <3>5
    <3>6. CASE l # k  BY <2>3, <2>4, <3>1, <3>2, <3>3, <3>6
    <3> QED BY <3>5, <3>6
  <2>6. ASSUME NEW q \in 1 .. Len(c.moves)
        PROVE  \E l \in 1 .. k : c.moves[q] = b.moves[l] /\ b.moves[l].from \in c.deletions
    <3>1. CASE q = Len(a.moves) + 1  BY <1>7, <2>3, <2>4, <3>1
    <3>2. CASE q # Len(a.moves) + 1
      <4>1. q \in 1 .. Len(a.moves)  BY <1>1, <2>4, <3>2
      <4>2. PICK l \in 1 .. k - 1 : a.moves[q] = b.moves[l] /\ b.moves[l].from \in D
        BY <4>1 DEF Cleaned
      <4>3. l \in 1 .. k  OBVIOUS
      <4> QED BY <2>3, <2>4, <4>1, <4>2, <4>3
    <3> QED BY <3>1, <3>2
  <2>7. ASSUME NEW q \in 1 .. Len(a.moves) PROVE a.moves[q].from # v.from
    <3>1. PICK l \in 1 .. k - 1 : a.moves[q] = b.moves[l]  BY DEF Cleaned
    <3>2. l \in 1 .. Len(b.moves) /\ l # k  BY <1>1
    <3> QED BY <1>5, <3>1, <3>2
  <2>8. ASSUME NEW q \in 1 .. Len(c.moves), NEW r \in 1 .. Len(c.moves),
               c.moves[q].from = c.moves[r].from
        PROVE  q = r
    <3>1. /\ q # Len(a.moves) + 1 => q \in 1 .. Len(a.moves)
          /\ r # Len(a.moves) + 1 => r \in 1 .. Len(a.moves)
      BY <1>1, <2>4
    <3>2. CASE q \in 1 .. Len(a.moves) /\ r \in 1 .. Len(a.moves)
      <4>1. a.moves[q].from = a.moves[r].from  BY <2>4, <2>8, <3>2
      <4> QED BY <3>2, <4>1 DEF Cleaned
    <3>3. CASE q = Len(a.moves) + 1 \/ r = Len(a.moves) + 1  BY <2>4, <2>7, <2>8, <3>1, <3>3
    <3> QED BY <3>1, <3>2, <3>3
  <2>9. c.deletions \subseteq b.deletions /\ c.insertions \subseteq b.insertions
        /\ Matches(c.deletions, c.insertions, old, new) /\ c.modifications = b.modifications
    BY <2>3 DEF Cleaned
  <2> QED BY <2>3, <2>5, <2>6, <2>8, <2>9 DEF Cleaned, c
<1> QED BY <1>8, <1>9

\* A change set stays one when a move is dropped or kept.
LEMMA WithoutStaleType ==
    ASSUME NEW a \in Builder, NEW v \in MoveType
    PROVE  WithoutStale(a, v) \in Builder
<1>1. Append(a.moves, v) \in Seq(MoveType)  BY AppendProperties DEF Builder
<1>2. a.deletions \ {v.from} \in SUBSET Nat /\ a.insertions \ {v.to} \in SUBSET Nat  BY DEF Builder
<1>3. [a EXCEPT !.deletions = a.deletions \ {v.from}, !.insertions = a.insertions \ {v.to}] \in Builder
  BY <1>2 DEF Builder
<1>4. [a EXCEPT !.moves = Append(a.moves, v)] \in Builder  BY <1>1 DEF Builder
<1> QED BY <1>3, <1>4 DEF WithoutStale

\* What clean_up_stale_moves leaves leads from the same rows to the same.
LEMMA CleanedGood ==
    ASSUME NEW m \in Nat, NEW n \in Nat, NEW old, NEW new, Rows(old, m), Rows(new, n),
           NEW b \in Builder, Leads(b, m, n, old, new)
    PROVE  /\ CleanedUp(b) \in Builder /\ Leads(CleanedUp(b), m, n, old, new)
           /\ CleanedUp(b).modifications = b.modifications
<1> DEFINE L == Len(b.moves)
           base == [b EXCEPT !.moves = <<>>]
           F == [k \in 1 .. L |-> [x \in Builder |-> WithoutStale(x, b.moves[k])]]
           Fold(a) == a = [k \in 0 .. L |->
                            IF k = 0 THEN base ELSE WithoutStale(a[k - 1], b.moves[k])]
           a == CHOOSE a : Fold(a)
<1>1. L \in Nat /\ \A k \in 1 .. L : b.moves[k] \in MoveType
  BY LenProperties, ElementOfSeq DEF Builder
<1>2. base \in Builder
  <2>1. <<>> \in Seq(MoveType)  BY EmptySeq
  <2> QED BY <2>1 DEF Builder
<1>3. F \in [1 .. L -> [Builder -> Builder]]
  <2>1. \A k \in 1 .. L : \A x \in Builder : WithoutStale(x, b.moves[k]) \in Builder
    BY <1>1, WithoutStaleType
  <2> HIDE DEF L
  <2> QED BY <2>1
<1>4. \E f : Fold(f)
  <2>1. \A k \in 1 .. L, x \in Builder : F[k][x] = WithoutStale(x, b.moves[k])  OBVIOUS
  <2> HIDE DEF F, base, L
  <2>2. PICK f \in [0 .. L -> Builder] : f[0] = base /\ \A k \in 1 .. L : f[k] = F[k][f[k - 1]]
    BY <1>1, <1>2, <1>3, StepsExist, SMTT(30)
  <2>3. ASSUME NEW k \in 0 .. L
        PROVE  f[k] = IF k = 0 THEN base ELSE WithoutStale(f[k - 1], b.moves[k])
    <3>1. CASE k = 0  BY <2>2, <3>1
    <3>2. CASE k # 0
      <4>1. k \in 1 .. L /\ k - 1 \in 0 .. L  BY <1>1, <3>2
      <4> QED BY <2>1, <2>2, <3>2, <4>1
    <3> QED BY <3>1, <3>2
  <2> QED BY <2>2, <2>3
<1>5. Fold(a)  BY <1>4
<1> HIDE DEF a
<1>6. a[0] = base /\ \A k \in 1 .. L : a[k] = WithoutStale(a[k - 1], b.moves[k])
  <2> HIDE DEF base
  <2>1. 0 \in 0 .. L /\ \A k \in 1 .. L : k \in 0 .. L /\ k # 0  BY <1>1
  <2> HIDE DEF L
  <2> QED BY <1>5, <2>1
<1>7. CleanedUp(b) = a[L]  BY DEF CleanedUp, a
<1>8. Cleaned(a[0], 0, b, old, new)
  <2>1. /\ base.moves = <<>> /\ base.deletions = b.deletions /\ base.insertions = b.insertions
        /\ base.modifications = b.modifications /\ Len(base.moves) = 0
    BY DEF Builder
  <2>2. \A l \in 1 .. L : b.moves[l].from \in b.deletions /\ b.moves[l].to \in b.insertions
    BY DEF Leads, MovesAre
  <2>3. Matches(b.deletions, b.insertions, old, new)  BY DEF Leads
  <2> HIDE DEF base
  <2>4. /\ \A q \in 1 .. Len(base.moves) : FALSE
        /\ \A l \in 1 .. L : ~(l <= 0)
    BY <1>1, <2>1
  <2> QED BY <1>2, <1>6, <2>1, <2>2, <2>3, <2>4 DEF Cleaned
<1>9. \A k \in 0 .. L : Cleaned(a[k], k, b, old, new)
  <2> DEFINE S == {k \in 0 .. L : Cleaned(a[k], k, b, old, new)}
  <2>1. 0 \in S  BY <1>1, <1>8
  <2>2. ASSUME NEW k \in 1 .. L, k - 1 \in S PROVE k \in S
    <3>1. Cleaned(a[k - 1], k - 1, b, old, new)  BY <2>2
    <3>2. Cleaned(WithoutStale(a[k - 1], b.moves[k]), k, b, old, new)  BY <3>1, CleanedNext
    <3>3. k \in 0 .. L  BY <1>1
    <3> QED BY <1>6, <3>2, <3>3
  <2> HIDE DEF S
  <2>3. \A k \in 0 .. L : k \in S  BY <1>1, <2>1, <2>2, CountUp
  <2> QED BY <2>3 DEF S
<1> DEFINE c == a[L]
<1>10. Cleaned(c, L, b, old, new)  BY <1>1, <1>9
<1> HIDE DEF c
<1>11. MovesAre(c.moves, c.deletions, c.insertions, old, new)
  <2>1. ASSUME NEW q \in 1 .. Len(c.moves)
        PROVE  /\ c.moves[q].from \in c.deletions /\ c.moves[q].to \in c.insertions
               /\ old[c.moves[q].from] = new[c.moves[q].to]
    <3>1. PICK l \in 1 .. L : c.moves[q] = b.moves[l] /\ b.moves[l].from \in c.deletions
      BY <1>10 DEF Cleaned
    <3>2. b.moves[l].to \in c.insertions  BY <1>10, <3>1 DEF Cleaned
    <3>3. old[b.moves[l].from] = new[b.moves[l].to]  BY DEF Leads, MovesAre
    <3> QED BY <3>1, <3>2, <3>3
  <2>2. ASSUME NEW i \in c.deletions, NEW j \in c.insertions, old[i] = new[j]
        PROVE  \E q \in 1 .. Len(c.moves) : c.moves[q].from = i /\ c.moves[q].to = j
    <3>1. i \in b.deletions /\ j \in b.insertions  BY <1>10 DEF Cleaned
    <3>2. PICK l \in 1 .. L : b.moves[l].from = i /\ b.moves[l].to = j
      BY <2>2, <3>1 DEF Leads, MovesAre
    <3>3. l <= L  BY <1>1
    <3>4. PICK q \in 1 .. Len(c.moves) : c.moves[q] = b.moves[l]  BY <1>10, <3>2, <3>3 DEF Cleaned
    <3> QED BY <3>2, <3>4
  <2>3. \A q, r \in 1 .. Len(c.moves) : c.moves[q].from = c.moves[r].from => q = r
    BY <1>10 DEF Cleaned
  <2> QED BY <2>1, <2>2, <2>3 DEF MovesAre
<1>12. Within(c.deletions, c.insertions, m, n) /\ Matches(c.deletions, c.insertions, old, new)
  <2>1. c.deletions \subseteq b.deletions /\ c.insertions \subseteq b.insertions
        /\ Matches(c.deletions, c.insertions, old, new)
    BY <1>10 DEF Cleaned
  <2>2. b.deletions \subseteq 0 .. m - 1 /\ b.insertions \subseteq 0 .. n - 1  BY DEF Leads, Within
  <2> QED BY <2>1, <2>2 DEF Within
<1>13. c \in Builder /\ c.modifications = b.modifications  BY <1>10 DEF Cleaned
<1> QED BY <1>7, <1>11, <1>12, <1>13 DEF Leads, c

\* moved holds the moves to the places K, each once, and g says where these places are now.
Recounted(moves, moved, g, h, K, J, D, old, new, next) ==
    /\ \A q \in 1 .. Len(moved) :
        /\ h[q] \in 1 .. Len(moves) /\ moves[h[q]].to \in K
        /\ moved[q].from = moves[h[q]].from /\ moved[q].to = g[moves[h[q]].to]
    /\ \A q, r \in 1 .. Len(moved) : h[q] = h[r] => q = r
    /\ \A k \in 1 .. Len(moves) : moves[k].to \in K => \E q \in 1 .. Len(moved) : h[q] = k
    /\ \A j \in K : g[j] \in J /\ next[g[j]] = new[j]
    /\ \A l \in J : (\E j \in K : g[j] = l) \/ \A i \in D : old[i] # next[l]

\* Moves stay the moves of the rows when these are counted otherwise, and some go.
LEMMA MovesMapped ==
    ASSUME NEW D, NEW I, NEW J, NEW K \in SUBSET I, NEW old, NEW new, NEW next, NEW moves, NEW moved,
           MovesAre(moves, D, I, old, new), NEW g, NEW h,
           Recounted(moves, moved, g, h, K, J, D, old, new, next)
    PROVE  MovesAre(moved, D, J, old, next)
<1> USE DEF Recounted
<1>1. /\ \A k \in 1 .. Len(moves) :
            moves[k].from \in D /\ moves[k].to \in I /\ old[moves[k].from] = new[moves[k].to]
      /\ \A k, l \in 1 .. Len(moves) : moves[k].from = moves[l].from => k = l
      /\ \A i \in D, j \in I : old[i] = new[j] =>
            \E k \in 1 .. Len(moves) : moves[k].from = i /\ moves[k].to = j
  BY DEF MovesAre
<1>2. ASSUME NEW q \in 1 .. Len(moved)
      PROVE  /\ moved[q].from \in D /\ moved[q].to \in J
             /\ old[moved[q].from] = next[moved[q].to]
  BY <1>1
<1>3. ASSUME NEW q \in 1 .. Len(moved), NEW r \in 1 .. Len(moved), moved[q].from = moved[r].from
      PROVE  q = r
  <2>1. h[q] \in 1 .. Len(moves) /\ h[r] \in 1 .. Len(moves) /\ moves[h[q]].from = moves[h[r]].from
    BY <1>3
  <2>2. h[q] = h[r]  BY <1>1, <2>1
  <2> QED BY <2>2
<1>4. ASSUME NEW i \in D, NEW l \in J, old[i] = next[l]
      PROVE  \E q \in 1 .. Len(moved) : moved[q].from = i /\ moved[q].to = l
  <2>1. PICK j \in K : g[j] = l  BY <1>4
  <2>2. PICK k \in 1 .. Len(moves) : moves[k].from = i /\ moves[k].to = j  BY <1>1, <1>4, <2>1
  <2>3. PICK q \in 1 .. Len(moved) : h[q] = k  BY <2>1, <2>2
  <2> QED BY <2>1, <2>2, <2>3
<1> QED BY <1>2, <1>3, <1>4 DEF MovesAre

\* A row is deleted where it is, and comes again: it is moved from its place among the old rows.
Dropped(b, j) ==
    LET i == Shift(b.deletions, Unshift(b.insertions, j))
    IN [b EXCEPT !.deletions = @ \cup {i}, !.insertions = @ \cup {j},
                 !.moves = Append(@, [from |-> i, to |-> j])]

\* A row may be reported as one that goes and comes again.
LEMMA LeadsDropped ==
    ASSUME NEW m \in Nat, NEW n \in Nat, NEW old, NEW new, Rows(old, m), Rows(new, n),
           NEW b \in Builder, Leads(b, m, n, old, new), NEW j \in 0 .. n - 1, j \notin b.insertions
    PROVE  Dropped(b, j) \in Builder /\ Leads(Dropped(b, j), m, n, old, new)
<1> DEFINE D == b.deletions
           I == b.insertions
           i == Shift(D, Unshift(I, j))
           v == [from |-> i, to |-> j]
           c == Dropped(b, j)
<1>1. /\ DOMAIN old = 0 .. m - 1 /\ DOMAIN new = 0 .. n - 1
      /\ D \in SUBSET (0 .. m - 1) /\ I \in SUBSET (0 .. n - 1) /\ j \in Nat
  BY DEF Rows, Leads, Within
<1>2. IsFiniteSet(D) /\ D \in SUBSET Nat /\ IsFiniteSet(I) /\ I \in SUBSET Nat
  BY <1>1, WithinFinite
<1>3. i \in 0 .. m - 1 /\ i \notin D /\ old[i] = new[j]
  <2>1. Matches(D, I, old, new)  BY DEF Leads
  <2>2. j \notin I  OBVIOUS
  <2> HIDE DEF D, I
  <2> QED BY <1>2, <2>1, <2>2, StayedFrom, SMTT(30)
<1> HIDE DEF i
<1>4. Matches(D \cup {i}, I \cup {j}, old, new)
  <2>1. i \in DOMAIN old \ D /\ j \in DOMAIN new \ I  BY <1>1, <1>3
  <2>2. Matches(D, I, old, new)  BY DEF Leads
  <2> QED BY <1>3, <2>1, <2>2, MatchDropped
<1>5. v \in MoveType /\ b.moves \in Seq(MoveType) /\ Len(b.moves) \in Nat
  BY <1>1, <1>3, LenProperties DEF Builder, MoveType
<1>6. /\ Append(b.moves, v) \in Seq(MoveType) /\ Len(Append(b.moves, v)) = Len(b.moves) + 1
      /\ \A q \in 1 .. Len(b.moves) : Append(b.moves, v)[q] = b.moves[q]
      /\ Append(b.moves, v)[Len(b.moves) + 1] = v
  <2> HIDE DEF v
  <2> QED BY <1>5, AppendProperties
<1>7. c = [b EXCEPT !.deletions = D \cup {i}, !.insertions = I \cup {j}, !.moves = Append(b.moves, v)]
  BY DEF Dropped, i
<1>8. /\ c \in Builder /\ c.deletions = D \cup {i} /\ c.insertions = I \cup {j}
      /\ c.moves = Append(b.moves, v)
  <2>1. D \cup {i} \in SUBSET Nat /\ I \cup {j} \in SUBSET Nat  BY <1>1, <1>2, <1>3
  <2> HIDE DEF D, I, v, c
  <2> QED BY <1>6, <1>7, <2>1 DEF Builder
<1> HIDE DEF c
<1>9. MovesAre(c.moves, D \cup {i}, I \cup {j}, old, new)
  <2>1. v.from = i /\ v.to = j  OBVIOUS
  <2> DEFINE L == Len(b.moves)
  <2>2. /\ \A k \in 1 .. L :
              b.moves[k].from \in D /\ b.moves[k].to \in I /\ old[b.moves[k].from] = new[b.moves[k].to]
        /\ \A k, l \in 1 .. L : b.moves[k].from = b.moves[l].from => k = l
        /\ \A p \in D, q \in I : old[p] = new[q] =>
              \E k \in 1 .. L : b.moves[k].from = p /\ b.moves[k].to = q
    BY DEF Leads, MovesAre
  <2>3. /\ Len(c.moves) = L + 1 /\ L + 1 \in 1 .. Len(c.moves)
        /\ \A k \in 1 .. Len(c.moves) : k # L + 1 => k \in 1 .. L
        /\ \A k \in 1 .. L : k \in 1 .. Len(c.moves) /\ c.moves[k] = b.moves[k]
        /\ c.moves[L + 1].from = i /\ c.moves[L + 1].to = j
    BY <1>5, <1>6, <1>8, <2>1
  <2> HIDE DEF v, L, D, I
  <2>4. \A p \in D \cup {i}, q \in D \cup {i} : old[p] = old[q] => p = q  BY <1>1, <1>3 DEF Rows
  <2>5. \A p \in I \cup {j}, q \in I \cup {j} : new[p] = new[q] => p = q  BY <1>1 DEF Rows
  <2>6. \A k \in 1 .. Len(c.moves) :
          /\ c.moves[k].from \in D \cup {i} /\ c.moves[k].to \in I \cup {j}
          /\ old[c.moves[k].from] = new[c.moves[k].to]
    BY <1>3, <2>2, <2>3
  <2>7. \A k, l \in 1 .. Len(c.moves) : c.moves[k].from = c.moves[l].from => k = l
    BY <1>3, <2>2, <2>3
  <2>8. ASSUME NEW p \in D \cup {i}, NEW q \in I \cup {j}, old[p] = new[q]
        PROVE  \E k \in 1 .. Len(c.moves) : c.moves[k].from = p /\ c.moves[k].to = q
    <3>1. p = i <=> q = j  BY <2>8, <1>3, <2>4, <2>5
    <3>2. CASE p = i  BY <2>3, <3>1, <3>2
    <3>3. CASE p # i
      <4>1. p \in D /\ q \in I  BY <3>1, <3>3
      <4>2. PICK k \in 1 .. L : b.moves[k].from = p /\ b.moves[k].to = q  BY <2>8, <2>2, <4>1
      <4> QED BY <2>3, <4>2
    <3> QED BY <3>2, <3>3
  <2> QED BY <2>6, <2>7, <2>8 DEF MovesAre
<1>10. Within(D \cup {i}, I \cup {j}, m, n)  BY <1>1, <1>3 DEF Within
<1> QED BY <1>4, <1>8, <1>9, <1>10 DEF Leads, c

-----------------------------------------------------------------------------
(* The instructions for lists, on change sets.                             *)

\* A row that was not among the old ones is inserted at t.
LEMMA LeadsInserted ==
    ASSUME NEW m \in Nat, NEW n \in Nat, NEW old, NEW new, NEW next, Rows(old, m), Rows(new, n),
           NEW b \in Builder, Leads(b, m, n, old, new), NEW t \in 0 .. n, DOMAIN next = 0 .. n,
           \A j \in 0 .. n - 1 : next[Up(t, j)] = new[j],
           \A i \in 0 .. m - 1 : old[i] # next[t]
    PROVE  Goes(Inserted(b, t, TRUE), m, n + 1, old, next, Raised(b.modifications, t))
<1> DEFINE D == b.deletions
           I == b.insertions
           J == InsertIndex(I, t, 1)
           mods == MakeRoom(b.modifications, t, 1)
           moved == Each(b.moves, LAMBDA v : [v EXCEPT !.to = IF v.to >= t THEN v.to + 1 ELSE v.to])
           c == Inserted(b, t, TRUE)
           L == Len(b.moves)
<1>1. /\ D \in SUBSET (0 .. m - 1) /\ I \in SUBSET (0 .. n - 1) /\ t \in Nat
      /\ D \in SUBSET Nat /\ I \in SUBSET Int /\ b.modifications \in SUBSET Nat
      /\ L \in Nat /\ (\A k \in 1 .. L : b.moves[k] \in MoveType) /\ b.mapping = NoMapping
      /\ DOMAIN new = 0 .. n - 1
  BY LenProperties, ElementOfSeq DEF Leads, Within, Builder, Rows
<1>2. J = {Up(t, j) : j \in I} \cup {t}
  <2> HIDE DEF I
  <2> QED BY <1>1, RoomMade
<1>3. mods = {Up(t, j) : j \in b.modifications}  BY <1>1, RoomMade, SMTT(30)
<1>4. moved = [k \in 1 .. L |-> [b.moves[k] EXCEPT !.to = Up(t, b.moves[k].to)]]  BY DEF Each, Up
<1>5. \A k \in 1 .. L : /\ moved[k] \in MoveType /\ moved[k].from = b.moves[k].from
                        /\ moved[k].to = Up(t, b.moves[k].to)
  <2>1. \A k \in 1 .. L : b.moves[k].to \in Nat /\ Up(t, b.moves[k].to) \in Nat
    BY <1>1 DEF MoveType, Up
  <2> HIDE DEF moved
  <2> QED BY <1>1, <1>4, <2>1 DEF MoveType
<1>6. moved \in Seq(MoveType) /\ Len(moved) = L
  <2>1. moved \in [1 .. L -> MoveType]
    <3> HIDE DEF moved
    <3> QED BY <1>4, <1>5
  <2> HIDE DEF moved
  <2> QED BY <1>1, <2>1, FunIsSeq
<1>7. c = [b EXCEPT !.modifications = mods, !.insertions = J, !.moves = moved, !.mapping = NoMapping]
  <2> DEFINE up(j) == IF j >= t THEN j + 1 ELSE j
             map == [j \in {up(k) : k \in DOMAIN b.mapping} |->
                              b.mapping[CHOOSE k \in DOMAIN b.mapping : up(k) = j]]
  <2>1. map = NoMapping  BY <1>1 DEF NoMapping
  <2>2. c = [b EXCEPT !.modifications = mods, !.insertions = J, !.moves = moved, !.mapping = map]
    BY DEF Inserted, Builder
  <2> QED BY <2>1, <2>2
<1> HIDE DEF moved, c
<1>8. /\ c \in Builder /\ c.deletions = D /\ c.insertions = J /\ c.moves = moved
      /\ c.modifications = mods
  <2>1. J \in SUBSET Nat /\ mods \in SUBSET Nat  BY <1>1, <1>2, <1>3 DEF Up
  <2> HIDE DEF J, mods
  <2> QED BY <1>6, <1>7, <2>1 DEF Builder
<1>9. Within(D, J, m, n + 1)  BY <1>1, <1>2 DEF Within, Up
<1>10. Matches(D, J, old, next)
  <2>1. Matches(D, I, old, new)  BY DEF Leads
  <2> HIDE DEF D, I
  <2> QED BY <1>1, <2>1, MatchInserted
<1>11. MovesAre(moved, D, J, old, next)
  <2> DEFINE g == [j \in I |-> Up(t, j)]
             h == [k \in 1 .. L |-> k]
  <2>1. MovesAre(b.moves, D, I, old, new)  BY DEF Leads
  <2>2. \A j \in I : g[j] \in J /\ next[g[j]] = new[j]  BY <1>1, <1>2
  <2>3. \A l \in J : (\E j \in I : g[j] = l) \/ \A i \in D : old[i] # next[l]  BY <1>1, <1>2
  <2>4. \A q \in 1 .. Len(moved) :
              /\ h[q] \in 1 .. L /\ b.moves[h[q]].to \in I
              /\ moved[q].from = b.moves[h[q]].from /\ moved[q].to = g[b.moves[h[q]].to]
    BY <1>5, <1>6, <2>1 DEF MovesAre
  <2>5. /\ \A q, r \in 1 .. Len(moved) : h[q] = h[r] => q = r
        /\ \A k \in 1 .. L : b.moves[k].to \in I => \E q \in 1 .. Len(moved) : h[q] = k
    BY <1>6
  <2>6. I \in SUBSET I  OBVIOUS
  <2> HIDE DEF g, h, D, I, J
  <2>7. Recounted(b.moves, moved, g, h, I, J, D, old, new, next)
    BY <2>2, <2>3, <2>4, <2>5 DEF Recounted
  <2> QED BY <2>1, <2>6, <2>7, MovesMapped, Zenon
<1> QED BY <1>3, <1>8, <1>9, <1>10, <1>11 DEF Leads, Goes, Raised, c

\* A row is erased from t.
LEMMA LeadsErased ==
    ASSUME NEW m \in Nat, NEW n \in Nat \ {0}, NEW old, NEW new, NEW next,
           Rows(old, m), Rows(new, n), NEW b \in Builder, Leads(b, m, n, old, new),
           NEW t \in 0 .. n - 1, DOMAIN next = 0 .. n - 2,
           \A j \in 0 .. n - 1 : j # t => next[Down(t, j)] = new[j]
    PROVE  Goes(Erased(b, t), m, n - 1, old, next, Lowered(b.modifications, t))
<1> DEFINE a == IF t \in b.insertions THEN b ELSE Dropped(b, t)
           D == a.deletions
           I == a.insertions
           J == EraseIndex(I, t)
           mods == EraseIndex(b.modifications, t)
           L == Len(b.moves)
           P == {k \in 1 .. L : b.moves[k].to # t}
           p == Cardinality(P)
           moved == Each(Picked(b.moves, P), LAMBDA v : IF v.to > t THEN [v EXCEPT !.to = v.to - 1] ELSE v)
           c == Erased(b, t)
<1>1. /\ n \in Nat /\ t \in Nat /\ t \in Int /\ L \in Nat /\ b.mapping = NoMapping
      /\ (\A k \in 1 .. L : b.moves[k] \in MoveType) /\ b.modifications \in SUBSET Nat
      /\ b.insertions \in SUBSET Int /\ b.moves \in Seq(MoveType)
  BY LenProperties, ElementOfSeq DEF Builder
<1>2. a \in Builder /\ Leads(a, m, n, old, new) /\ t \in I
  <2>1. CASE t \in b.insertions  BY <2>1
  <2>2. CASE t \notin b.insertions
    <3>1. Dropped(b, t) \in Builder /\ Leads(Dropped(b, t), m, n, old, new)
      BY <1>1, <2>2, LeadsDropped
    <3>2. t \in Dropped(b, t).insertions  BY DEF Dropped, Builder
    <3> QED BY <2>2, <3>1, <3>2
  <2> QED BY <2>1, <2>2
<1>3. /\ L <= Len(a.moves) /\ Len(a.moves) \in Nat /\ \A k \in 1 .. L : a.moves[k] = b.moves[k]
      /\ \A k \in 1 .. Len(a.moves) : k \notin 1 .. L => a.moves[k].to = t
  <2>1. CASE t \in b.insertions  BY <1>1, <2>1
  <2>2. CASE t \notin b.insertions
    <3> DEFINE v == [from |-> Shift(b.deletions, Unshift(b.insertions, t)), to |-> t]
    <3>1. a.moves = Append(b.moves, v)  BY <2>2 DEF Dropped, Builder
    <3>2. v.to = t  OBVIOUS
    <3> HIDE DEF v, a
    <3>3. /\ Len(Append(b.moves, v)) = L + 1 /\ Append(b.moves, v)[L + 1] = v
          /\ \A q \in 1 .. L : Append(b.moves, v)[q] = b.moves[q]
      BY <1>1
    <3>4. /\ Len(a.moves) = L + 1 /\ a.moves[L + 1].to = t
          /\ \A q \in 1 .. L : a.moves[q] = b.moves[q]
      BY <3>1, <3>2, <3>3
    <3> HIDE DEF L
    <3> QED BY <1>1, <3>4
  <2> QED BY <2>1, <2>2
<1>4. /\ D \in SUBSET (0 .. m - 1) /\ I \in SUBSET (0 .. n - 1) /\ D \in SUBSET Nat /\ I \in SUBSET Int
      /\ DOMAIN new = 0 .. n - 1
  BY <1>2 DEF Leads, Within, Rows
<1> HIDE DEF a
<1>5. J = {Down(t, j) : j \in I \ {t}}
  <2> HIDE DEF I
  <2>1. J = Lowered(I, t)  BY <1>1, <1>4, IndexErased
  <2> QED BY <2>1 DEF Lowered
<1>6. mods = {Down(t, j) : j \in b.modifications \ {t}}
  <2>1. b.modifications \in SUBSET Int  BY <1>1
  <2>2. mods = Lowered(b.modifications, t)  BY <1>1, <2>1, IndexErased
  <2> QED BY <2>2 DEF Lowered
<1>7. c = [b EXCEPT !.deletions = D, !.insertions = J, !.modifications = mods, !.moves = moved]
  <2>1. Erased(b, t) = [Deleted(b, t) EXCEPT !.modifications = EraseIndex(Deleted(b, t).modifications, t),
              !.moves = Each(Picked(Deleted(b, t).moves, {k \in 1 .. Len(Deleted(b, t).moves) : Deleted(b, t).moves[k].to # t}),
                     LAMBDA v : IF v.to > t THEN [v EXCEPT !.to = v.to - 1] ELSE v)]
    BY DEF Erased
  <2>2. Deleted(b, t) = [b EXCEPT !.deletions = D, !.insertions = J]
    <3>1. CASE t \in b.insertions  BY <3>1 DEF a, Deleted, Builder
    <3>2. CASE t \notin b.insertions
      <4> DEFINE i == Shift(b.deletions, Unshift(b.insertions, t))
      <4>1. D = b.deletions \cup {i} /\ I = b.insertions \cup {t}  BY <3>2 DEF a, Dropped, Builder
      <4>2. AddShifted(b.deletions, Unshift(b.insertions, t)) = b.deletions \cup {i}
        BY DEF AddShifted
      <4>3. EraseIndex(b.insertions, t) = J
        <5>1. EraseIndex(b.insertions, t) = {Down(t, j) : j \in b.insertions \ {t}}
          <6> DEFINE S == b.insertions
          <6>1. S \in SUBSET Int  BY <1>1
          <6> HIDE DEF S
          <6>2. EraseIndex(S, t) = Lowered(S, t)  BY <1>1, <6>1, IndexErased
          <6> QED BY <6>2 DEF S, Lowered
        <5>2. b.insertions \ {t} = I \ {t}  BY <4>1
        <5> HIDE DEF I
        <5> QED BY <1>5, <5>1, <5>2
      <4> HIDE DEF i, D, J
      <4> QED BY <3>2, <4>1, <4>2, <4>3 DEF Deleted
    <3> QED BY <3>1, <3>2
  <2>3. Deleted(b, t).modifications = b.modifications /\ Deleted(b, t).moves = b.moves
    <3> HIDE DEF D, J
    <3> QED BY <2>2 DEF Builder
  <2> HIDE DEF D, J
  <2> QED BY <2>1, <2>2, <2>3 DEF Builder
<1>8. P \in SUBSET Nat /\ IsFiniteSet(P)
  <2>1. P \in SUBSET (1 .. L)  OBVIOUS
  <2> HIDE DEF P, L
  <2>2. IsFiniteSet(1 .. L) /\ P \in SUBSET (1 .. L)
    <3>1. 1 \in Int /\ L \in Int  BY <1>1
    <3> QED BY <2>1, <3>1, FS_Interval
  <2>3. IsFiniteSet(P)  BY <2>2, FS_Subset
  <2> QED BY <2>2, <2>3
<1>9. /\ p \in Nat /\ \A q \in 1 .. p : Nth(P, q) \in P
      /\ \A k \in P : \E q \in 1 .. p : Nth(P, q) = k
      /\ \A q, r \in 1 .. p : q < r => Nth(P, q) < Nth(P, r)
  <2> HIDE DEF P
  <2> QED BY <1>8, NthWorks
<1>10. \A q, r \in 1 .. p : Nth(P, q) = Nth(P, r) => q = r
  <2> SUFFICES ASSUME NEW q \in 1 .. p, NEW r \in 1 .. p, Nth(P, q) = Nth(P, r) PROVE q = r  OBVIOUS
  <2>1. q \in Int /\ r \in Int /\ Nth(P, q) \in Int
    <3>1. P \in SUBSET Int  BY <1>8
    <3> HIDE DEF P, p
    <3>2. Nth(P, q) \in P  BY <1>9
    <3>3. p \in Nat  BY <1>9
    <3>4. q \in Int /\ r \in Int  BY <3>3
    <3>5. Nth(P, q) \in Int  BY <3>1, <3>2, Zenon
    <3> QED BY <3>4, <3>5
  <2>2. ~(q < r) /\ ~(r < q)
    <3> HIDE DEF P, p
    <3> QED BY <1>9, <2>1
  <2> QED BY <2>1, <2>2
<1>11. /\ moved \in Seq(MoveType) /\ Len(moved) = p
       /\ \A q \in 1 .. p : /\ moved[q].from = b.moves[Nth(P, q)].from
                            /\ moved[q].to = Down(t, b.moves[Nth(P, q)].to)
  <2> DEFINE s == Picked(b.moves, P)
             down(v) == IF v.to > t THEN [v EXCEPT !.to = v.to - 1] ELSE v
  <2>1. s = [q \in 1 .. p |-> b.moves[Nth(P, q)]]  BY DEF Picked
  <2>2. \A q \in 1 .. p : Nth(P, q) \in 1 .. L /\ b.moves[Nth(P, q)] \in MoveType  BY <1>1, <1>9
  <2>3. s \in Seq(MoveType) /\ Len(s) = p
    <3>1. s \in [1 .. p -> MoveType]
      <4> HIDE DEF s, P, p
      <4> QED BY <2>1, <2>2
    <3> HIDE DEF s
    <3> QED BY <1>9, <3>1, FunIsSeq
  <2>4. moved = [q \in 1 .. Len(s) |-> down(s[q])]  BY DEF Each
  <2> HIDE DEF s, moved, P, p
  <2>5. ASSUME NEW v \in MoveType
        PROVE  /\ down(v) \in MoveType /\ down(v).from = v.from
               /\ down(v).to = Down(t, v.to)
    <3>1. v.from \in Nat /\ v.to \in Nat  BY DEF MoveType
    <3>2. CASE v.to > t
      <4>1. v.to - 1 \in Nat  BY <1>1, <3>1, <3>2
      <4>2. down(v) = [v EXCEPT !.to = v.to - 1]  BY <3>2
      <4> QED BY <3>2, <4>1, <4>2 DEF MoveType, Down
    <3>3. CASE ~(v.to > t)  BY <3>3 DEF Down
    <3> QED BY <3>2, <3>3
  <2> HIDE DEF down
  <2>6. moved \in [1 .. p -> MoveType]  BY <2>1, <2>2, <2>3, <2>4, <2>5
  <2>7. moved \in Seq(MoveType) /\ Len(moved) = p  BY <1>9, <2>6, FunIsSeq
  <2> QED BY <2>1, <2>2, <2>3, <2>4, <2>5, <2>7
<1> HIDE DEF moved, c
<1>12. /\ c \in Builder /\ c.deletions = D /\ c.insertions = J /\ c.moves = moved
       /\ c.modifications = mods
  <2>1. J \in SUBSET Nat /\ mods \in SUBSET Nat  BY <1>1, <1>4, <1>5, <1>6 DEF Down
  <2> HIDE DEF J, mods, D
  <2> QED BY <1>4, <1>7, <1>11, <2>1 DEF Builder
<1>13. Within(D, J, m, n - 1)
  <2>1. \A j \in I \ {t} : Down(t, j) \in 0 .. n - 2  BY <1>1, <1>4 DEF Down
  <2> HIDE DEF D, J, I
  <2> QED BY <1>1, <1>4, <1>5, <2>1 DEF Within
<1>14. Matches(D, J, old, next)
  <2>1. Matches(D, I, old, new)  BY <1>2 DEF Leads
  <2> HIDE DEF D, I
  <2> QED BY <1>2, <1>4, <2>1, MatchErased
<1>15. MovesAre(moved, D, J, old, next)
  <2> DEFINE K == I \ {t}
             g == [j \in K |-> Down(t, j)]
             h == [q \in 1 .. p |-> Nth(P, q)]
  <2>1. MovesAre(a.moves, D, I, old, new)  BY <1>2 DEF Leads
  <2>2. \A j \in K : g[j] \in J /\ next[g[j]] = new[j]
    <3>1. \A j \in K : g[j] = Down(t, j) /\ g[j] \in J /\ j \in 0 .. n - 1 /\ j # t  BY <1>4, <1>5
    <3> HIDE DEF K, g, J
    <3> QED BY <3>1
  <2>3. \A l \in J : (\E j \in K : g[j] = l) \/ \A i \in D : old[i] # next[l]  BY <1>5
  <2>4. ASSUME NEW q \in 1 .. Len(moved)
        PROVE  /\ h[q] \in 1 .. Len(a.moves) /\ a.moves[h[q]].to \in K
               /\ moved[q].from = a.moves[h[q]].from /\ moved[q].to = g[a.moves[h[q]].to]
    <3> DEFINE k == Nth(P, q)
    <3>1. q \in 1 .. p /\ h[q] = k  BY <1>11
    <3>2. k \in 1 .. L /\ b.moves[k].to # t  BY <1>9, <3>1
    <3>3. moved[q].from = b.moves[k].from /\ moved[q].to = Down(t, b.moves[k].to)  BY <1>11, <3>1
    <3> HIDE DEF k, h, D
    <3>4. k \in 1 .. Len(a.moves) /\ a.moves[k] = b.moves[k]  BY <1>3, <3>2
    <3>5. a.moves[k].to \in I  BY <2>1, <3>4 DEF MovesAre
    <3> QED BY <3>1, <3>2, <3>3, <3>4, <3>5
  <2>5. /\ \A q, r \in 1 .. Len(moved) : h[q] = h[r] => q = r
        /\ \A k \in 1 .. Len(a.moves) : a.moves[k].to \in K => \E q \in 1 .. Len(moved) : h[q] = k
    <3>1. \A q \in 1 .. Len(moved) : q \in 1 .. p /\ h[q] = Nth(P, q)  BY <1>11
    <3>2. \A k \in 1 .. Len(a.moves) : a.moves[k].to # t => k \in P  BY <1>3
    <3>3. \A q \in 1 .. p : q \in 1 .. Len(moved)  BY <1>11
    <3>4. \A k \in 1 .. Len(a.moves) : a.moves[k].to \in K => a.moves[k].to # t  OBVIOUS
    <3> HIDE DEF P, h, p, K
    <3>5. \A q, r \in 1 .. Len(moved) : h[q] = h[r] => q = r  BY <1>10, <3>1
    <3>6. ASSUME NEW k \in 1 .. Len(a.moves), a.moves[k].to \in K
          PROVE  \E q \in 1 .. Len(moved) : h[q] = k
      <4>1. k \in P  BY <3>6, <3>2, <3>4
      <4>2. PICK q \in 1 .. p : Nth(P, q) = k  BY <1>9, <4>1
      <4> QED BY <3>1, <3>3, <4>2
    <3> QED BY <3>5, <3>6
  <2>6. K \in SUBSET I  OBVIOUS
  <2> HIDE DEF g, h, D, I, J, K
  <2>7. Recounted(a.moves, moved, g, h, K, J, D, old, new, next)
    BY <2>2, <2>3, <2>4, <2>5 DEF Recounted
  <2> QED BY <2>1, <2>6, <2>7, MovesMapped, Zenon
<1> QED BY <1>6, <1>12, <1>13, <1>14, <1>15 DEF Leads, Goes, Lowered, c

\* Where a row goes when the one at f is moved to t.
Place(f, t, j) == IF j = f THEN t ELSE Up(t, Down(f, j))
Relocated(S, f, t) == {Place(f, t, j) : j \in S}

\* Moving one row makes a permutation of all of them.
LEMMA PlaceWorks ==
    ASSUME NEW n \in Nat, NEW f \in 0 .. n - 1, NEW t \in 0 .. n - 1
    PROVE  /\ \A j \in 0 .. n - 1 : Place(f, t, j) \in 0 .. n - 1
           /\ \A j, k \in 0 .. n - 1 : Place(f, t, j) = Place(f, t, k) => j = k
           /\ \A l \in 0 .. n - 1 : \E j \in 0 .. n - 1 : Place(f, t, j) = l
<1>1. \A j \in 0 .. n - 1 : Place(f, t, j) \in 0 .. n - 1  BY DEF Place, Up, Down
<1>2. \A j, k \in 0 .. n - 1 : Place(f, t, j) = Place(f, t, k) => j = k  BY DEF Place, Up, Down
<1>3. ASSUME NEW l \in 0 .. n - 1 PROVE \E j \in 0 .. n - 1 : Place(f, t, j) = l
  <2>1. CASE l = t  BY <2>1 DEF Place
  <2>2. CASE l # t
    <3> DEFINE j == Up(f, Down(t, l))
    <3>1. j \in 0 .. n - 1 /\ Place(f, t, j) = l  BY <2>2 DEF Place, Up, Down
    <3> QED BY <3>1
  <2> QED BY <2>1, <2>2
<1> QED BY <1>1, <1>2, <1>3

\* erase_at and insert_at of a set of indexes, for a row that is moved.
LEMMA IndexesPlaced ==
    ASSUME NEW S \in SUBSET Int, NEW f \in Int, NEW t \in Int
    PROVE  /\ MakeRoom(EraseIndex(S, f), t, 1) = {Place(f, t, j) : j \in S \ {f}}
           /\ InsertIndex(EraseIndex(S, f), t, 1) = {Place(f, t, j) : j \in S \ {f}} \cup {t}
<1> DEFINE E == EraseIndex(S, f)
<1>1. E = {Down(f, j) : j \in S \ {f}}
  <2>1. E = Lowered(S, f)  BY IndexErased
  <2> QED BY <2>1 DEF Lowered
<1>2. E \in SUBSET Int
  <2> HIDE DEF E
  <2> QED BY <1>1 DEF Down
<1> HIDE DEF E
<1>3. MakeRoom(E, t, 1) = {Up(t, j) : j \in E} /\ InsertIndex(E, t, 1) = MakeRoom(E, t, 1) \cup {t}
  BY <1>2, RoomMade
<1>4. {Up(t, j) : j \in E} = {Place(f, t, j) : j \in S \ {f}}
  <2>1. \A j \in S \ {f} : Place(f, t, j) = Up(t, Down(f, j))  BY DEF Place
  <2> QED BY <1>1, <2>1
<1> QED BY <1>3, <1>4 DEF E

\* The row at f is moved to t.
LEMMA LeadsMoved ==
    ASSUME NEW m \in Nat, NEW n \in Nat \ {0}, NEW old, NEW new, NEW next,
           Rows(old, m), Rows(new, n), NEW b \in Builder, Leads(b, m, n, old, new),
           NEW f \in 0 .. n - 1, NEW t \in 0 .. n - 1, DOMAIN next = 0 .. n - 1,
           \A j \in 0 .. n - 1 : next[Place(f, t, j)] = new[j]
    PROVE  Goes(Moved(b, f, t), m, n, old, next, Relocated(b.modifications, f, t))
<1> DEFINE a == IF f \in b.insertions THEN b ELSE Dropped(b, f)
           D == a.deletions
           I == a.insertions
           J == InsertIndex(EraseIndex(I, f), t, 1)
           i == Shift(b.deletions, Unshift(b.insertions, f))
           mods == MakeRoom(EraseIndex(b.modifications, f), t, 1)
                    \cup (IF f \in b.modifications THEN {t} ELSE {})
           L == Len(b.moves)
           other(v) == CASE v.to = f -> t
                         [] v.to # f /\ v.to >= t /\ v.to < f -> v.to + 1
                         [] v.to <= t /\ v.to > f -> v.to - 1
                         [] OTHER -> v.to
           moved == Each(b.moves, LAMBDA v : [v EXCEPT !.to = other(v)])
           c == Moved(b, f, t)
<1>1. /\ n \in Nat /\ f \in Nat /\ t \in Nat /\ f \in Int /\ t \in Int /\ L \in Nat
      /\ (\A k \in 1 .. L : b.moves[k] \in MoveType) /\ b.modifications \in SUBSET Nat
      /\ b.insertions \in SUBSET Int /\ b.moves \in Seq(MoveType) /\ n - 1 \in Int
  BY LenProperties, ElementOfSeq DEF Builder
<1>2. a \in Builder /\ Leads(a, m, n, old, new) /\ f \in I
  <2>1. CASE f \in b.insertions  BY <2>1
  <2>2. CASE f \notin b.insertions
    <3>1. Dropped(b, f) \in Builder /\ Leads(Dropped(b, f), m, n, old, new)
      BY <1>1, <2>2, LeadsDropped
    <3>2. f \in Dropped(b, f).insertions  BY DEF Dropped, Builder
    <3> QED BY <2>2, <3>1, <3>2
  <2> QED BY <2>1, <2>2
<1>3. \A v \in MoveType : other(v) = Place(f, t, v.to) /\ Place(f, t, v.to) \in Nat
  BY <1>1 DEF MoveType, Place, Up, Down
<1>4. /\ moved \in Seq(MoveType) /\ Len(moved) = L
      /\ \A k \in 1 .. L : moved[k].from = b.moves[k].from /\ moved[k].to = Place(f, t, b.moves[k].to)
  <2> DEFINE put(v) == [v EXCEPT !.to = other(v)]
  <2>1. moved = [k \in 1 .. L |-> put(b.moves[k])]  BY DEF Each
  <2> HIDE DEF moved, L, other
  <2>2. \A v \in MoveType : /\ put(v) \in MoveType /\ put(v).from = v.from
                            /\ put(v).to = Place(f, t, v.to)
    BY <1>3 DEF MoveType
  <2> HIDE DEF put
  <2>3. moved \in [1 .. L -> MoveType]  BY <1>1, <2>1, <2>2
  <2>4. moved \in Seq(MoveType) /\ Len(moved) = L  BY <1>1, <2>3, FunIsSeq
  <2> QED BY <1>1, <2>1, <2>2, <2>4
<1> HIDE DEF moved, other
<1>5. /\ D \in SUBSET (0 .. m - 1) /\ I \in SUBSET (0 .. n - 1) /\ D \in SUBSET Nat /\ I \in SUBSET Int
      /\ DOMAIN new = 0 .. n - 1
  BY <1>2 DEF Leads, Within, Rows
\* moved once more, or now for the first time
<1>6. /\ c = [b EXCEPT !.deletions = D, !.insertions = J, !.modifications = mods, !.moves = c.moves]
      /\ c.moves = IF f \in b.insertions THEN moved ELSE Append(moved, [from |-> i, to |-> t])
  <2> DEFINE again == \E k \in 1 .. L : b.moves[k].to = f
             J0 == InsertIndex(EraseIndex(b.insertions, f), t, 1)
             placed == [b EXCEPT !.insertions = J0, !.moves = moved, !.modifications = mods]
  <2>1. again => f \in b.insertions  BY DEF Leads, MovesAre
  <2>2. c = IF again \/ f \in b.insertions THEN placed
            ELSE [placed EXCEPT !.deletions = placed.deletions \cup {i},
                                !.moves = Append(placed.moves, [from |-> i, to |-> t])]
    BY DEF Moved, moved, other
  <2>3. J0 = J
    <3>1. J0 = {Place(f, t, j) : j \in b.insertions \ {f}} \cup {t}  BY <1>1, IndexesPlaced
    <3>2. J = {Place(f, t, j) : j \in I \ {f}} \cup {t}
      <4> HIDE DEF I
      <4> QED BY <1>1, <1>5, IndexesPlaced
    <3>3. I \ {f} = b.insertions \ {f}  BY DEF Dropped, Builder
    <3> HIDE DEF I, J, J0
    <3> QED BY <3>1, <3>2, <3>3
  <2>4. D = IF f \in b.insertions THEN b.deletions ELSE b.deletions \cup {i}
    BY DEF Dropped, Builder
  <2> HIDE DEF again, J0, J, D, mods, i, c
  <2>5. CASE f \in b.insertions  BY <2>2, <2>3, <2>4, <2>5 DEF Builder
  <2>6. CASE f \notin b.insertions  BY <2>1, <2>2, <2>3, <2>4, <2>6 DEF Builder
  <2> QED BY <2>5, <2>6
<1>7. /\ Len(c.moves) = Len(a.moves) /\ Len(a.moves) \in Nat
      /\ c.moves \in Seq(MoveType)
      /\ \A k \in 1 .. Len(a.moves) :
            c.moves[k].from = a.moves[k].from /\ c.moves[k].to = Place(f, t, a.moves[k].to)
  <2>1. CASE f \in b.insertions
    <3>1. c.moves = moved /\ a.moves = b.moves  BY <1>6, <2>1
    <3> HIDE DEF c, a
    <3> QED BY <1>1, <1>4, <3>1
  <2>2. CASE f \notin b.insertions
    <3> DEFINE v == [from |-> i, to |-> f]
               w == [from |-> i, to |-> t]
    <3>1. a.moves = Append(b.moves, v) /\ c.moves = Append(moved, w) /\ a.deletions = b.deletions \cup {i}
      BY <1>6, <2>2 DEF Dropped, Builder
    <3>2. i \in Nat
      <4>1. i \in D  BY <3>1
      <4> HIDE DEF i, D
      <4> QED BY <1>5, <4>1
    <3>3. /\ v \in MoveType /\ w \in MoveType /\ v.from = w.from /\ v.to = f /\ w.to = t
          /\ Place(f, t, f) = t
      BY <1>1, <3>2 DEF MoveType, Place
    <3> HIDE DEF v, w, c, a, L, i
    <3>4. /\ Len(Append(b.moves, v)) = L + 1 /\ Append(b.moves, v)[L + 1] = v
          /\ \A q \in 1 .. L : Append(b.moves, v)[q] = b.moves[q]
      BY <1>1 DEF L
    <3>5. /\ Append(moved, w) \in Seq(MoveType)
          /\ Len(Append(moved, w)) = L + 1 /\ Append(moved, w)[L + 1] = w
          /\ \A q \in 1 .. L : Append(moved, w)[q] = moved[q]
      BY <1>1, <1>4, <3>3, AppendProperties
    <3>6. \A k \in 1 .. L + 1 : k # L + 1 => k \in 1 .. L  BY <1>1
    <3> QED BY <1>1, <1>4, <3>1, <3>3, <3>4, <3>5, <3>6
  <2> QED BY <2>1, <2>2
<1> HIDE DEF a
<1>8. J = {Place(f, t, j) : j \in I}
  <2>1. J = {Place(f, t, j) : j \in I \ {f}} \cup {t}
    <3> HIDE DEF I
    <3> QED BY <1>1, <1>5, IndexesPlaced
  <2>2. Place(f, t, f) = t  BY DEF Place
  <2> HIDE DEF J, I
  <2> QED BY <1>2, <2>1, <2>2
<1>9. mods = {Place(f, t, j) : j \in b.modifications}
  <2>1. MakeRoom(EraseIndex(b.modifications, f), t, 1) = {Place(f, t, j) : j \in b.modifications \ {f}}
    <3>1. b.modifications \in SUBSET Int  BY <1>1
    <3> QED BY <1>1, <3>1, IndexesPlaced
  <2>2. Place(f, t, f) = t  BY DEF Place
  <2> QED BY <2>1, <2>2
<1> HIDE DEF c
<1>10. /\ c \in Builder /\ c.deletions = D /\ c.insertions = J /\ c.modifications = mods
  <2>1. J \in SUBSET Nat /\ mods \in SUBSET Nat
    <3>1. \A j \in Nat : Place(f, t, j) \in Nat  BY <1>1 DEF Place, Up, Down
    <3> HIDE DEF J, mods, I
    <3>2. I \in SUBSET Nat  BY <1>5
    <3> QED BY <1>1, <1>8, <1>9, <3>1, <3>2
  <2> HIDE DEF J, mods, D
  <2> QED BY <1>5, <1>6, <1>7, <2>1 DEF Builder
<1>11. Within(D, J, m, n)
  <2>1. \A j \in I : Place(f, t, j) \in 0 .. n - 1  BY <1>1, <1>5, PlaceWorks
  <2> HIDE DEF D, J, I
  <2> QED BY <1>5, <1>8, <2>1 DEF Within
<1>12. Matches(D, J, old, next)
  <2> DEFINE gone == [j \in 0 .. n - 2 |-> next[Up(t, j)]]
             E == EraseIndex(I, f)
  <2>1. Matches(D, I, old, new)  BY <1>2 DEF Leads
  <2>2. ASSUME NEW j \in 0 .. n - 1, j # f PROVE gone[Down(f, j)] = new[j]
    <3>1. Down(f, j) \in 0 .. n - 2 /\ Place(f, t, j) = Up(t, Down(f, j))  BY <2>2, <1>1 DEF Down, Place
    <3> QED BY <3>1
  <2>3. DOMAIN gone = 0 .. n - 2  OBVIOUS
  <2>4. E \in SUBSET Int
    <3>1. E = Lowered(I, f)
      <4> HIDE DEF I
      <4> QED BY <1>1, <1>5, IndexErased
    <3> HIDE DEF E, I
    <3> QED BY <1>1, <1>5, <3>1 DEF Lowered, Down
  <2>5. \A j \in 0 .. n - 2 : next[Up(t, j)] = gone[j]  OBVIOUS
  <2> HIDE DEF gone
  <2>6. Matches(D, E, old, gone)
    <3> HIDE DEF D, I
    <3> QED BY <1>2, <1>5, <2>1, <2>2, <2>3, MatchErased
  <2>7. n - 1 \in Nat /\ t \in 0 .. n - 1 /\ (n - 1) - 1 = n - 2  BY <1>1
  <2>8. Matches(D, InsertIndex(E, t, 1), old, next)
    <3> DEFINE p == n - 1
    <3>1. /\ p \in Nat /\ t \in 0 .. p /\ DOMAIN gone = 0 .. p - 1 /\ DOMAIN next = 0 .. p
          /\ \A j \in 0 .. p - 1 : next[Up(t, j)] = gone[j]
      BY <2>3, <2>5, <2>7
    <3> HIDE DEF p, E, D
    <3> QED BY <2>4, <2>6, <3>1, MatchInserted
  <2> QED BY <2>8
<1>13. MovesAre(c.moves, D, J, old, next)
  <2> DEFINE g == [j \in I |-> Place(f, t, j)]
             h == [k \in 1 .. Len(a.moves) |-> k]
  <2>1. MovesAre(a.moves, D, I, old, new)  BY <1>2 DEF Leads
  <2>2. \A j \in I : g[j] \in J /\ next[g[j]] = new[j]  BY <1>5, <1>8
  <2>3. \A l \in J : \E j \in I : g[j] = l  BY <1>8
  <2>4. \A q \in 1 .. Len(c.moves) :
              /\ h[q] = q /\ a.moves[h[q]].to \in I /\ g[a.moves[h[q]].to] = Place(f, t, a.moves[q].to)
    BY <1>7, <2>1 DEF MovesAre
  <2>5. I \in SUBSET I  OBVIOUS
  <2> HIDE DEF g, h, D, I, J
  <2>6. Recounted(a.moves, c.moves, g, h, I, J, D, old, new, next)
    BY <1>7, <2>2, <2>3, <2>4 DEF Recounted
  <2> QED BY <2>1, <2>5, <2>6, MovesMapped, Zenon
<1> QED BY <1>9, <1>10, <1>11, <1>12, <1>13 DEF Leads, Goes, Relocated, c

\* All the rows are erased.
LEMMA LeadsCleared ==
    ASSUME NEW m \in Nat, NEW n \in Nat, NEW old, NEW new, NEW next, Rows(old, m), Rows(new, n),
           NEW b \in Builder, Leads(b, m, n, old, new), DOMAIN next = {}
    PROVE  Goes(Cleared(b, n), m, 0, old, next, {})
<1> DEFINE D == b.deletions
           I == b.insertions
           c == Cleared(b, n)
<1>1. D \in SUBSET (0 .. m - 1) /\ I \in SUBSET (0 .. n - 1) /\ Matches(D, I, old, new)
  BY DEF Leads, Within
<1> HIDE DEF D, I
<1>2. Cardinality(D) \in Nat /\ Cardinality(I) \in Nat /\ m - Cardinality(D) = n - Cardinality(I)
  <2>1. \A A \in SUBSET (0 .. m - 1), B \in SUBSET (0 .. n - 1) : Matches(A, B, old, new) =>
          Cardinality(A) \in Nat /\ Cardinality(B) \in Nat /\ m - Cardinality(A) = n - Cardinality(B)
    BY SameSize
  <2> QED BY <1>1, <2>1, Zenon
<1>3. n + Cardinality(D) - Cardinality(I) - 1 = m - 1  BY <1>2
<1>4. c = [NoChange EXCEPT !.deletions = 0 .. m - 1]  BY <1>3 DEF Cleared, D, I
<1> HIDE DEF c
<1>5. /\ c \in Builder /\ c.deletions = 0 .. m - 1 /\ c.insertions = {} /\ c.modifications = {}
      /\ c.moves = <<>>
  <2>1. <<>> \in Seq(MoveType)  BY EmptySeq
  <2>2. c = [deletions |-> 0 .. m - 1, insertions |-> {}, modifications |-> {}, moves |-> <<>>,
             mapping |-> NoMapping]
    BY <1>4 DEF NoChange
  <2>3. 0 .. m - 1 \in SUBSET Nat  OBVIOUS
  <2> QED BY <2>1, <2>2, <2>3 DEF Builder
<1>6. Within(c.deletions, c.insertions, m, 0) /\ Matches(c.deletions, c.insertions, old, next)
  BY <1>5 DEF Within, Matches, Rows
<1>7. MovesAre(c.moves, c.deletions, c.insertions, old, next)
  <2>1. \A k \in 1 .. Len(<<>>) : FALSE  OBVIOUS
  <2> QED BY <1>5, <2>1 DEF MovesAre
<1> QED BY <1>5, <1>6, <1>7 DEF Leads, Goes, c

-----------------------------------------------------------------------------
(* Merging: the moves of the first change set, as the second leaves them.  *)

\* The last move takes the place of one that is used up.
LEMMA MoveUsedUp ==
    ASSUME NEW s \in Seq(MoveType), NEW k \in 1 .. Len(s)
    PROVE  LET t == Front(ReplaceAt(s, k, Last(s)))
               h == [q \in 1 .. Len(s) - 1 |-> IF q = k THEN Len(s) ELSE q]
           IN  /\ t \in Seq(MoveType) /\ Len(t) = Len(s) - 1
               /\ \A q \in 1 .. Len(t) : h[q] \in (1 .. Len(s)) \ {k} /\ t[q] = s[h[q]]
               /\ \A r \in (1 .. Len(s)) \ {k} : \E q \in 1 .. Len(t) : h[q] = r
               /\ \A q, r \in 1 .. Len(t) : h[q] = h[r] => q = r
<1> DEFINE n == Len(s)
           u == ReplaceAt(s, k, Last(s))
           t == Front(u)
           h == [q \in 1 .. n - 1 |-> IF q = k THEN n ELSE q]
<1>1. n \in Nat \ {0} /\ n \in 1 .. n /\ n - 1 \in Nat /\ \A q \in 1 .. n : s[q] \in MoveType
  BY LenProperties, ElementOfSeq
<1>2. /\ u \in [1 .. n -> MoveType] /\ \A q \in 1 .. n : u[q] = IF q = k THEN s[n] ELSE s[q]
  <2>1. s \in [1 .. n -> MoveType]  BY LenProperties
  <2>2. u = [s EXCEPT ![k] = s[n]]  BY DEF ReplaceAt, Last
  <2> HIDE DEF n, u
  <2> QED BY <1>1, <2>1, <2>2 DEF n
<1>3. u \in Seq(MoveType) /\ Len(u) = n
  <2> HIDE DEF u, n
  <2> QED BY <1>1, <1>2, FunIsSeq
<1>4. t \in Seq(MoveType) /\ Len(t) = n - 1 /\ \A q \in 1 .. n - 1 : t[q] = u[q]
  <2>1. t = [q \in 1 .. n - 1 |-> u[q]]
    <3>1. t = SubSeq(u, 1, n - 1)  BY <1>3 DEF Front
    <3> HIDE DEF u, t, n
    <3> QED BY <1>1, <1>3, <3>1
  <2>2. \A q \in 1 .. n - 1 : q \in 1 .. n  BY <1>1
  <2>3. t \in [1 .. n - 1 -> MoveType]
    <3> HIDE DEF t, u, n
    <3> QED BY <1>2, <2>1, <2>2
  <2> HIDE DEF t, u, n
  <2> QED BY <1>1, <2>1, <2>3, FunIsSeq
<1>5. \A q \in 1 .. n - 1 : h[q] \in (1 .. n) \ {k} /\ t[q] = s[h[q]]
  <2>1. \A q \in 1 .. n - 1 : q \in 1 .. n /\ q # n  BY <1>1
  <2>2. \A q \in 1 .. n - 1 : h[q] = IF q = k THEN n ELSE q  OBVIOUS
  <2> HIDE DEF t, u, h, n
  <2> QED BY <1>1, <1>2, <1>4, <2>1, <2>2
<1>6. ASSUME NEW r \in (1 .. n) \ {k} PROVE \E q \in 1 .. n - 1 : h[q] = r
  <2>1. CASE r = n
    <3>1. k \in 1 .. n - 1 /\ h[k] = r  BY <1>1, <2>1
    <3> QED BY <3>1
  <2>2. CASE r # n
    <3>1. r \in 1 .. n - 1 /\ h[r] = r  BY <1>1, <2>2
    <3> QED BY <3>1
  <2> QED BY <2>1, <2>2
<1>7. \A q, r \in 1 .. n - 1 : h[q] = h[r] => q = r  BY <1>1
<1> QED BY <1>4, <1>5, <1>6, <1>7

MergeState == [moves : Seq(MoveType), c : Builder]

\* The move that is found is of the row that is looked for.
LEMMA MoveFound ==
    ASSUME NEW s \in Seq(MoveType), NEW i, MoveFrom(s, i) # {}
    PROVE  Min(MoveFrom(s, i)) \in 1 .. Len(s) /\ s[Min(MoveFrom(s, i))].from = i
<1> DEFINE K == MoveFrom(s, i)
<1>1. K \in SUBSET (1 .. Len(s)) /\ K \in SUBSET Nat /\ \A k \in K : s[k].from = i  BY DEF MoveFrom
<1> HIDE DEF K
<1>2. \E x \in K : \A y \in K : x <= y  BY <1>1, NatMin DEF K
<1>3. Min(K) \in K  BY <1>2 DEF Min
<1> QED BY <1>1, <1>3 DEF K

\* merge looks at a move of b, and leaves moves and a change set.
LEMMA MovedAgainType ==
    ASSUME NEW b \in Builder, NEW c \in Builder, IsFiniteSet(c.deletions), IsFiniteSet(c.insertions),
           NEW a \in MergeState, NEW v \in MoveType
    PROVE  MovedAgain(b, c, a, v) \in MergeState
<1> DEFINE s == a.c.moves
           K == MoveFrom(s, v.to)
           k == Min(K)
           t == Front(ReplaceAt(s, k, Last(s)))
           to == s[k].to
           mods == IF v.to \in b.modifications THEN a.c.modifications \cup {to} ELSE a.c.modifications
           w == [v EXCEPT !.to = to]
           d == Shift(c.insertions, Unshift(c.deletions, v.to))
           x == [v EXCEPT !.to = d]
<1>1. /\ a.moves \in Seq(MoveType) /\ a.c \in Builder /\ s \in Seq(MoveType) /\ v.from \in Nat /\ v.to \in Nat
      /\ a.c.modifications \in SUBSET Nat
  BY DEF MergeState, Builder, MoveType
<1>2. CASE K # {}
  <2>1. MovedAgain(b, c, a, v) = [a EXCEPT !.moves = Append(a.moves, w),
                                     !.c = [a.c EXCEPT !.moves = t, !.modifications = mods]]
    BY <1>2 DEF MovedAgain, MergeState, Builder
  <2>2. k \in 1 .. Len(s)  BY <1>1, <1>2, MoveFound
  <2>3. t \in Seq(MoveType) /\ s[k] \in MoveType
    <3> HIDE DEF s, k
    <3> QED BY <1>1, <2>2, MoveUsedUp, ElementOfSeq
  <2>4. to \in Nat /\ w \in MoveType  BY <1>1, <2>3 DEF MoveType
  <2>5. Append(a.moves, w) \in Seq(MoveType)
    <3> HIDE DEF w
    <3> QED BY <1>1, <2>4, AppendProperties
  <2>6. mods \in SUBSET Nat
    <3> HIDE DEF to
    <3> QED BY <1>1, <2>4
  <2> HIDE DEF t, w, mods
  <2>7. [a.c EXCEPT !.moves = t, !.modifications = mods] \in Builder
    BY <1>1, <2>3, <2>6 DEF Builder
  <2> QED BY <2>1, <2>5, <2>7 DEF MergeState
<1>3. CASE K = {} /\ v.to \in c.deletions  BY <1>3 DEF MovedAgain
<1>4. CASE K = {} /\ v.to \notin c.deletions
  <2>1. MovedAgain(b, c, a, v) = [a EXCEPT !.moves = Append(a.moves, x)]  BY <1>4 DEF MovedAgain
  <2>2. d \in Nat
    <3> DEFINE u == Unshift(c.deletions, v.to)
    <3>1. c.deletions \in SUBSET Nat /\ c.insertions \in SUBSET Int  BY DEF Builder
    <3>2. u \in Nat  BY <1>1, <3>1, UnshiftCounts
    <3> HIDE DEF u
    <3>3. Shift(c.insertions, u) \in Int /\ Shift(c.insertions, u) >= u  BY <3>1, <3>2, ShiftWorks
    <3> QED BY <3>2, <3>3 DEF u
  <2>3. x \in MoveType
    <3> HIDE DEF d
    <3> QED BY <1>1, <2>2 DEF MoveType
  <2>4. Append(a.moves, x) \in Seq(MoveType)
    <3> HIDE DEF x
    <3> QED BY <1>1, <2>3, AppendProperties
  <2> HIDE DEF x
  <2> QED BY <1>1, <2>1, <2>4 DEF MergeState
<1> QED BY <1>2, <1>3, <1>4

\* Where the rows of the first k moves of b are among the new rows.
Reach(moves, k, b, K, old, mid, new) ==
    /\ \A q \in 1 .. Len(moves) :
        /\ moves[q].to \in K /\ old[moves[q].from] = new[moves[q].to]
        /\ \E l \in 1 .. k : moves[q].from = b.moves[l].from
    /\ \A q, r \in 1 .. Len(moves) : moves[q].from = moves[r].from => q = r
    /\ \A l \in 1 .. k, j \in DOMAIN new : mid[b.moves[l].to] = new[j] =>
        \E q \in 1 .. Len(moves) : moves[q].from = b.moves[l].from /\ moves[q].to = j

\* The first k moves of b have been followed through c: where they lead to now, the moves of c
\* that were not used up, and the rows that were modified in between and moved again.
Followed(x, k, b, c, K, old, mid, new) ==
    /\ x \in MergeState /\ x.c.deletions = c.deletions /\ x.c.insertions = c.insertions
    /\ x.c.modifications \subseteq DOMAIN new
    /\ Reach(x.moves, k, b, K, old, mid, new)
    /\ \A q \in 1 .. Len(x.c.moves) :
        /\ \E r \in 1 .. Len(c.moves) : x.c.moves[q] = c.moves[r]
        /\ \A l \in 1 .. k : b.moves[l].to # x.c.moves[q].from
    /\ \A r \in 1 .. Len(c.moves) : (\A l \in 1 .. k : b.moves[l].to # c.moves[r].from) =>
        \E q \in 1 .. Len(x.c.moves) : x.c.moves[q] = c.moves[r]
    /\ \A q, r \in 1 .. Len(x.c.moves) : x.c.moves[q].from = x.c.moves[r].from => q = r
    /\ \A j \in DOMAIN new : j \in x.c.modifications <=>
        \/ j \in c.modifications
        \/ \E l \in 1 .. k : /\ b.moves[l].to \in b.modifications /\ b.moves[l].to \in c.deletions
                             /\ mid[b.moves[l].to] = new[j]

\* What c leaves is where shift and unshift say, and what b leaves comes from there.
LEMMA DestinationKnown ==
    ASSUME NEW p \in Nat, NEW n \in Nat, NEW mid, NEW new, Rows(mid, p), Rows(new, n),
           NEW c \in Builder, Leads(c, p, n, mid, new),
           NEW i \in 0 .. p - 1, i \notin c.deletions
    PROVE  /\ Shift(c.insertions, Unshift(c.deletions, i)) \in 0 .. n - 1
           /\ Shift(c.insertions, Unshift(c.deletions, i)) \notin c.insertions
           /\ mid[i] = new[Shift(c.insertions, Unshift(c.deletions, i))]
<1>1. /\ c.deletions \in SUBSET (0 .. p - 1) /\ c.insertions \in SUBSET (0 .. n - 1)
      /\ Matches(c.deletions, c.insertions, mid, new)
  BY DEF Leads, Within
<1>2. /\ IsFiniteSet(c.deletions) /\ c.deletions \in SUBSET Nat
      /\ IsFiniteSet(c.insertions) /\ c.insertions \in SUBSET Nat
  BY <1>1, WithinFinite
<1> DEFINE E == c.deletions
           J == c.insertions
<1>3. Matches(E, J, mid, new) /\ i \notin E  BY <1>1
<1> HIDE DEF E, J
<1>4. IsFiniteSet(E) /\ E \in SUBSET Nat /\ IsFiniteSet(J) /\ J \in SUBSET Nat  BY <1>2 DEF E, J
<1>5. Shift(J, Unshift(E, i)) \in 0 .. n - 1  BY <1>3, <1>4, StayedTo
<1>6. Shift(J, Unshift(E, i)) \notin J  BY <1>3, <1>4, StayedTo
<1>7. mid[i] = new[Shift(J, Unshift(E, i))]  BY <1>3, <1>4, StayedTo
<1> QED BY <1>5, <1>6, <1>7 DEF E, J

\* A row that the first change set did not insert has one it was before.
LEMMA SourceKnown ==
    ASSUME NEW m \in Nat, NEW p \in Nat, NEW old, NEW mid, Rows(old, m), Rows(mid, p),
           NEW b \in Builder, Leads(b, m, p, old, mid),
           NEW j \in 0 .. p - 1, j \notin b.insertions
    PROVE  /\ Shift(b.deletions, Unshift(b.insertions, j)) \in 0 .. m - 1
           /\ Shift(b.deletions, Unshift(b.insertions, j)) \notin b.deletions
           /\ old[Shift(b.deletions, Unshift(b.insertions, j))] = mid[j]
<1>1. /\ b.deletions \in SUBSET (0 .. m - 1) /\ b.insertions \in SUBSET (0 .. p - 1)
      /\ Matches(b.deletions, b.insertions, old, mid)
  BY DEF Leads, Within
<1>2. /\ IsFiniteSet(b.deletions) /\ b.deletions \in SUBSET Nat
      /\ IsFiniteSet(b.insertions) /\ b.insertions \in SUBSET Nat
  <2>1. /\ \A S \in SUBSET (0 .. m - 1) : IsFiniteSet(S) /\ S \in SUBSET Nat
        /\ \A S \in SUBSET (0 .. p - 1) : IsFiniteSet(S) /\ S \in SUBSET Nat
    BY WithinFinite
  <2> QED BY <1>1, <2>1
<1> DEFINE D == b.deletions
           I == b.insertions
<1>3. Matches(D, I, old, mid) /\ j \notin I  BY <1>1
<1> HIDE DEF D, I
<1>4. IsFiniteSet(D) /\ D \in SUBSET Nat /\ IsFiniteSet(I) /\ I \in SUBSET Nat  BY <1>2 DEF D, I
<1>5. Shift(D, Unshift(I, j)) \in 0 .. m - 1  BY <1>3, <1>4, StayedFrom
<1>6. Shift(D, Unshift(I, j)) \notin D  BY <1>3, <1>4, StayedFrom
<1>7. old[Shift(D, Unshift(I, j))] = mid[j]  BY <1>3, <1>4, StayedFrom
<1> QED BY <1>5, <1>6, <1>7 DEF D, I

\* One that leads to a place to is appended.
LEMMA FollowedTo ==
    ASSUME NEW b, NEW K, NEW old, NEW mid, NEW new, NEW n \in Nat, Rows(new, n),
           NEW k \in 1 .. Len(b.moves), Len(b.moves) \in Nat,
           NEW s \in Seq(MoveType), NEW w \in MoveType,
           w.from = b.moves[k].from, w.to \in K, w.to \in DOMAIN new,
           old[w.from] = new[w.to], mid[b.moves[k].to] = new[w.to],
           \A l, q \in 1 .. Len(b.moves) : b.moves[l].from = b.moves[q].from => l = q,
           Reach(s, k - 1, b, K, old, mid, new)
    PROVE  Append(s, w) \in Seq(MoveType) /\ Reach(Append(s, w), k, b, K, old, mid, new)
<1> DEFINE t == Append(s, w)
           L == Len(s)
<1>1. /\ t \in Seq(MoveType) /\ Len(t) = L + 1 /\ t[L + 1] = w /\ L \in Nat
      /\ \A q \in 1 .. L : t[q] = s[q]
  BY AppendProperties, LenProperties
<1>2. /\ \A q \in 1 .. L :
            /\ s[q].to \in K /\ old[s[q].from] = new[s[q].to]
            /\ \E l \in 1 .. k - 1 : s[q].from = b.moves[l].from
      /\ \A q, r \in 1 .. L : s[q].from = s[r].from => q = r
      /\ \A l \in 1 .. k - 1, j \in DOMAIN new : mid[b.moves[l].to] = new[j] =>
            \E q \in 1 .. L : s[q].from = b.moves[l].from /\ s[q].to = j
  BY DEF Reach
<1> HIDE DEF t, L
<1>3. /\ L + 1 \in 1 .. Len(t) /\ \A q \in 1 .. Len(t) : q # L + 1 => q \in 1 .. L
      /\ \A q \in 1 .. L : q \in 1 .. Len(t)
  BY <1>1
<1>4. /\ \A l \in 1 .. k - 1 : l \in 1 .. k /\ l # k /\ l \in 1 .. Len(b.moves)
      /\ \A l \in 1 .. k : l # k => l \in 1 .. k - 1
      /\ k \in 1 .. k
  <2>1. k <= Len(b.moves)  OBVIOUS
  <2> QED BY <2>1
<1>5. \A q \in 1 .. L : s[q].from # w.from  BY <1>2, <1>4
<1>6. ASSUME NEW q \in 1 .. Len(t)
      PROVE  /\ t[q].to \in K /\ old[t[q].from] = new[t[q].to]
             /\ \E l \in 1 .. k : t[q].from = b.moves[l].from
  <2>1. CASE q = L + 1  BY <1>1, <1>4, <2>1
  <2>2. CASE q # L + 1
    <3>1. q \in 1 .. L /\ t[q] = s[q]  BY <1>1, <1>3, <2>2, Zenon
    <3>2. PICK l \in 1 .. k - 1 : s[q].from = b.moves[l].from  BY <1>2, <3>1, Zenon
    <3>3. l \in 1 .. k  BY <1>4, Zenon
    <3>4. s[q].to \in K /\ old[s[q].from] = new[s[q].to]  BY <1>2, <3>1, Zenon
    <3> QED BY <3>1, <3>2, <3>3, <3>4, Zenon
  <2> QED BY <2>1, <2>2
<1>7. ASSUME NEW q \in 1 .. Len(t), NEW r \in 1 .. Len(t), t[q].from = t[r].from
      PROVE  q = r
  <2>1. CASE q \in 1 .. L /\ r \in 1 .. L  BY <1>7, <1>2, <1>1, <2>1
  <2>2. CASE q = L + 1 \/ r = L + 1  BY <1>7, <1>1, <1>3, <1>5, <2>2
  <2> QED BY <1>3, <2>1, <2>2
<1>8. ASSUME NEW l \in 1 .. k, NEW j \in DOMAIN new, mid[b.moves[l].to] = new[j]
      PROVE  \E q \in 1 .. Len(t) : t[q].from = b.moves[l].from /\ t[q].to = j
  <2>1. CASE l = k
    <3>1. w.to = j  BY <1>8, <2>1 DEF Rows
    <3> QED BY <1>1, <1>3, <2>1, <3>1
  <2>2. CASE l # k
    <3>1. PICK q \in 1 .. L : s[q].from = b.moves[l].from /\ s[q].to = j  BY <1>8, <1>2, <1>4, <2>2
    <3> QED BY <1>1, <1>3, <3>1
  <2> QED BY <2>1, <2>2
<1> QED BY <1>1, <1>6, <1>7, <1>8 DEF t, Reach

\* Looking at one more move of b keeps what holds of the moves before it.
LEMMA FollowedNext ==
    ASSUME NEW m \in Nat, NEW p \in Nat, NEW n \in Nat, NEW old, NEW mid, NEW new,
           Rows(old, m), Rows(mid, p), Rows(new, n), NEW b \in Builder, NEW c \in Builder,
           Leads(b, m, p, old, mid), Leads(c, p, n, mid, new),
           NEW K, K = {Shift(c.insertions, Unshift(c.deletions, j)) : j \in b.insertions \ c.deletions}
                            \cup c.insertions,
           NEW k \in 1 .. Len(b.moves), NEW x, Followed(x, k - 1, b, c, K, old, mid, new)
    PROVE  Followed(MovedAgain(b, c, x, b.moves[k]), k, b, c, K, old, mid, new)
<1> DEFINE v == b.moves[k]
           D == b.deletions
           I == b.insertions
           E == c.deletions
           J == c.insertions
           s == x.c.moves
           A == MoveFrom(s, v.to)
           y == MovedAgain(b, c, x, v)
           Left(t, i) ==
                /\ \A q \in 1 .. Len(t) : /\ \E r \in 1 .. Len(c.moves) : t[q] = c.moves[r]
                                          /\ \A l \in 1 .. i : b.moves[l].to # t[q].from
                /\ \A r \in 1 .. Len(c.moves) : (\A l \in 1 .. i : b.moves[l].to # c.moves[r].from) =>
                        \E q \in 1 .. Len(t) : t[q] = c.moves[r]
                /\ \A q, r \in 1 .. Len(t) : t[q].from = t[r].from => q = r
<1>1. /\ DOMAIN old = 0 .. m - 1 /\ DOMAIN mid = 0 .. p - 1 /\ DOMAIN new = 0 .. n - 1
      /\ D \in SUBSET (0 .. m - 1) /\ I \in SUBSET (0 .. p - 1)
      /\ E \in SUBSET (0 .. p - 1) /\ J \in SUBSET (0 .. n - 1)
  BY DEF Rows, Leads, Within
<1>2. /\ IsFiniteSet(E) /\ E \in SUBSET Nat /\ IsFiniteSet(J) /\ J \in SUBSET Nat
  <2>1. IsFiniteSet(E) /\ E \in SUBSET Nat
    <3>1. E \in SUBSET (0 .. p - 1)  BY <1>1
    <3> HIDE DEF E
    <3> QED BY <3>1, WithinFinite
  <2>2. IsFiniteSet(J) /\ J \in SUBSET Nat
    <3>1. J \in SUBSET (0 .. n - 1)  BY <1>1
    <3> HIDE DEF J
    <3> QED BY <3>1, WithinFinite
  <2> QED BY <2>1, <2>2
<1>3. /\ \A l \in 1 .. Len(b.moves) :
            /\ b.moves[l] \in MoveType /\ b.moves[l].from \in D /\ b.moves[l].to \in I
            /\ old[b.moves[l].from] = mid[b.moves[l].to]
      /\ \A l, q \in 1 .. Len(b.moves) : b.moves[l].from = b.moves[q].from => l = q
      /\ Len(b.moves) \in Nat
  BY LenProperties, ElementOfSeq DEF Builder, Leads, MovesAre
<1>4. ASSUME NEW l \in 1 .. Len(b.moves), NEW q \in 1 .. Len(b.moves),
             b.moves[l].to = b.moves[q].to
      PROVE  l = q
  <2>1. old[b.moves[l].from] = old[b.moves[q].from]  BY <1>4, <1>3
  <2>2. b.moves[l].from \in 0 .. m - 1 /\ b.moves[q].from \in 0 .. m - 1  BY <1>1, <1>3
  <2>3. b.moves[l].from = b.moves[q].from  BY <2>1, <2>2 DEF Rows
  <2> QED BY <1>3, <2>3
<1>5. /\ \A r \in 1 .. Len(c.moves) :
            c.moves[r].from \in E /\ c.moves[r].to \in J /\ mid[c.moves[r].from] = new[c.moves[r].to]
      /\ \A i \in E, j \in J : mid[i] = new[j] =>
            \E r \in 1 .. Len(c.moves) : c.moves[r].from = i /\ c.moves[r].to = j
  BY DEF Leads, MovesAre
<1>6. /\ k \in Nat \ {0} /\ v \in MoveType /\ v.from \in Nat /\ v.to \in Nat
      /\ \A l \in 1 .. k - 1 : l \in 1 .. k /\ l # k /\ l \in 1 .. Len(b.moves)
      /\ \A l \in 1 .. k : l # k => l \in 1 .. k - 1
      /\ k \in 1 .. k /\ k \in 1 .. Len(b.moves)
  <2>1. k <= Len(b.moves) /\ k \in Nat \ {0} /\ v \in MoveType  BY <1>3
  <2> QED BY <1>3, <2>1 DEF MoveType
<1>7. y \in MergeState
  <2>1. x \in MergeState  BY DEF Followed
  <2> HIDE DEF v
  <2> QED BY <1>2, <1>6, <2>1, MovedAgainType
<1>8. v.from \in D /\ v.to \in I /\ old[v.from] = mid[v.to] /\ v.to \in 0 .. p - 1  BY <1>1, <1>3
<1>9. /\ x \in MergeState /\ x.moves \in Seq(MoveType) /\ x.c \in Builder /\ s \in Seq(MoveType)
      /\ x.c.deletions = E /\ x.c.insertions = J /\ x.c.modifications \subseteq DOMAIN new
  BY DEF Followed, MergeState, Builder
\* it is deleted and not moved by c: no row of the new ones is it
<1>10. ASSUME A = {}, v.to \in E, NEW j \in DOMAIN new, mid[v.to] = new[j] PROVE FALSE
  <2>1. j \in J
    <3> SUFFICES ASSUME j \notin J PROVE FALSE  OBVIOUS
    <3>1. PICK i \in DOMAIN mid \ E : mid[i] = new[j]  BY DEF Leads, Matches
    <3>2. i = v.to  BY <1>1, <1>8, <1>10, <3>1 DEF Rows
    <3> QED BY <1>10, <3>1, <3>2
  <2>2. PICK r \in 1 .. Len(c.moves) : c.moves[r].from = v.to /\ c.moves[r].to = j
    BY <1>5, <1>10, <2>1
  <2>3. \A l \in 1 .. k - 1 : b.moves[l].to # c.moves[r].from  BY <1>4, <1>6, <2>2
  <2>4. PICK q \in 1 .. Len(s) : s[q] = c.moves[r]  BY <2>3 DEF Followed
  <2>5. q \in A  BY <2>2, <2>4 DEF MoveFrom
  <2> QED BY <1>10, <2>5
\* the moves of c that are left when none of them goes on from v
<1>11. ASSUME A = {} PROVE Left(s, k)
  <2>1. \A q \in 1 .. Len(s) : s[q].from # v.to  BY <1>11 DEF MoveFrom
  <2>2. Left(s, k - 1)  BY DEF Followed
  <2> HIDE DEF s, A
  <2>3. \A q \in 1 .. Len(s), l \in 1 .. k : b.moves[l].to # s[q].from  BY <1>6, <2>1, <2>2
  <2> QED BY <1>6, <2>2, <2>3
<1>12. /\ Reach(x.moves, k - 1, b, K, old, mid, new)
       /\ \A j \in DOMAIN new : j \in x.c.modifications <=>
            \/ j \in c.modifications
            \/ \E l \in 1 .. k - 1 : /\ b.moves[l].to \in b.modifications /\ b.moves[l].to \in E
                                     /\ mid[b.moves[l].to] = new[j]
  BY DEF Followed
\* where a row of b leads to is put behind the moves
<1>13. ASSUME NEW w \in MoveType, w.from = b.moves[k].from, w.to \in K, w.to \in DOMAIN new,
              old[w.from] = new[w.to], mid[b.moves[k].to] = new[w.to]
       PROVE  /\ Append(x.moves, w) \in Seq(MoveType)
              /\ Reach(Append(x.moves, w), k, b, K, old, mid, new)
  <2> DEFINE r == x.moves
  <2>1. r \in Seq(MoveType) /\ Reach(r, k - 1, b, K, old, mid, new)  BY <1>9, <1>12
  <2>2. /\ \A l, q \in 1 .. Len(b.moves) : b.moves[l].from = b.moves[q].from => l = q
        /\ k \in 1 .. Len(b.moves) /\ Len(b.moves) \in Nat
    BY <1>3, <1>6
  <2> HIDE DEF r, v, D, I, E, J, s, y, A, Left
  <2>3. Append(r, w) \in Seq(MoveType) /\ Reach(Append(r, w), k, b, K, old, mid, new)
    BY <1>13, <2>1, <2>2, FollowedTo
  <2> QED BY <2>3 DEF r
<1>14. CASE A = {} /\ v.to \in E
  <2>1. y = x  BY <1>14 DEF MovedAgain
  <2>2. \A q \in 1 .. Len(x.moves) : \E l \in 1 .. k : x.moves[q].from = b.moves[l].from
    <3>1. \A q \in 1 .. Len(x.moves) : \E l \in 1 .. k - 1 : x.moves[q].from = b.moves[l].from
      BY <1>12 DEF Reach
    <3> QED BY <1>6, <3>1
  <2>3. \A l \in 1 .. k, j \in DOMAIN new : mid[b.moves[l].to] = new[j] =>
          \E q \in 1 .. Len(x.moves) : x.moves[q].from = b.moves[l].from /\ x.moves[q].to = j
    BY <1>6, <1>10, <1>12, <1>14 DEF Reach
  <2>4. Reach(x.moves, k, b, K, old, mid, new)  BY <1>12, <2>2, <2>3 DEF Reach
  <2>5. \A j \in DOMAIN new : j \in x.c.modifications <=>
          \/ j \in c.modifications
          \/ \E l \in 1 .. k : /\ b.moves[l].to \in b.modifications /\ b.moves[l].to \in E
                               /\ mid[b.moves[l].to] = new[j]
    <3>1. \A l \in 1 .. k, j \in DOMAIN new : mid[b.moves[l].to] = new[j] => l \in 1 .. k - 1
      BY <1>6, <1>10, <1>14
    <3> QED BY <1>6, <1>12, <3>1
  <2> HIDE DEF y
  <2> QED BY <1>7, <1>9, <1>11, <1>14, <2>1, <2>5, <2>4 DEF Followed, y
<1>15. CASE A = {} /\ v.to \notin E
  <2> DEFINE d == Shift(J, Unshift(E, v.to))
             w == [v EXCEPT !.to = d]
             t == Append(x.moves, w)
  <2>1. y = [x EXCEPT !.moves = t]  BY <1>15 DEF MovedAgain
  <2>2. d \in 0 .. n - 1 /\ mid[v.to] = new[d]
    <3> DEFINE i == v.to
    <3>1. i \in 0 .. p - 1 /\ i \notin c.deletions  BY <1>8, <1>15
    <3> HIDE DEF i
    <3>2. Shift(c.insertions, Unshift(c.deletions, i)) \in 0 .. n - 1  BY <3>1, DestinationKnown
    <3>3. mid[i] = new[Shift(c.insertions, Unshift(c.deletions, i))]  BY <3>1, DestinationKnown
    <3> QED BY <3>2, <3>3 DEF i
  <2>3. d \in K  BY <1>8, <1>15
  <2> HIDE DEF d
  <2>4. w \in MoveType /\ w.from = v.from /\ w.to = d
    <3> HIDE DEF v
    <3>1. d \in Nat  BY <2>2
    <3> QED BY <1>6, <3>1 DEF MoveType
  <2>5. old[w.from] = new[w.to] /\ mid[v.to] = new[w.to]  BY <1>8, <2>2, <2>4
  <2> HIDE DEF w, A
  <2>6. t \in Seq(MoveType) /\ Reach(t, k, b, K, old, mid, new)
    <3>1. w.to \in K /\ w.to \in DOMAIN new /\ w.from = b.moves[k].from /\ mid[b.moves[k].to] = new[w.to]
      BY <1>1, <2>2, <2>3, <2>4, <2>5
    <3> QED BY <1>13, <2>4, <2>5, <3>1
  <2>7. \A j \in DOMAIN new : j \in x.c.modifications <=>
          \/ j \in c.modifications
          \/ \E l \in 1 .. k : /\ b.moves[l].to \in b.modifications /\ b.moves[l].to \in E
                               /\ mid[b.moves[l].to] = new[j]
    <3>1. \A l \in 1 .. k : b.moves[l].to \in E => l \in 1 .. k - 1  BY <1>6, <1>15
    <3> QED BY <1>6, <1>12, <3>1
  <2> HIDE DEF t
  <2>8. y.moves = t /\ y.c = x.c  BY <1>9, <2>1 DEF MergeState
  <2> HIDE DEF y
  <2> QED BY <1>7, <1>9, <1>11, <1>15, <2>6, <2>7, <2>8 DEF Followed, y
<1>16. CASE A # {}
  <2> DEFINE q0 == Min(A)
             to == s[q0].to
             w == [v EXCEPT !.to = to]
             t == Append(x.moves, w)
             u == Front(ReplaceAt(s, q0, Last(s)))
             h == [q \in 1 .. Len(s) - 1 |-> IF q = q0 THEN Len(s) ELSE q]
             mods == IF v.to \in b.modifications THEN x.c.modifications \cup {to} ELSE x.c.modifications
  <2>1. y = [x EXCEPT !.moves = t, !.c = [x.c EXCEPT !.moves = u, !.modifications = mods]]
    BY <1>9, <1>16 DEF MovedAgain, MergeState, Builder
  <2>2. q0 \in 1 .. Len(s) /\ s[q0].from = v.to  BY <1>9, <1>16, MoveFound
  <2> HIDE DEF q0, A
  <2>3. PICK r0 \in 1 .. Len(c.moves) : s[q0] = c.moves[r0]  BY <2>2 DEF Followed
  <2>4. to \in J /\ mid[v.to] = new[to] /\ v.to \in E /\ to \in 0 .. n - 1
    <3>1. to = c.moves[r0].to /\ v.to = c.moves[r0].from  BY <2>2, <2>3
    <3> HIDE DEF to, v
    <3>2. to \in J /\ v.to \in E /\ mid[v.to] = new[to]  BY <1>5, <3>1
    <3> HIDE DEF J
    <3> QED BY <1>1, <3>2
  <2> HIDE DEF to
  <2>5. w \in MoveType /\ w.from = v.from /\ w.to = to
    <3> HIDE DEF v
    <3>1. to \in Nat  BY <2>4
    <3> QED BY <1>6, <3>1 DEF MoveType
  <2>6. t \in Seq(MoveType) /\ Reach(t, k, b, K, old, mid, new)
    <3>1. /\ w.to \in K /\ w.to \in DOMAIN new /\ w.from = b.moves[k].from
          /\ mid[b.moves[k].to] = new[w.to] /\ old[w.from] = new[w.to]
      BY <1>1, <1>8, <2>4, <2>5
    <3> HIDE DEF w
    <3> QED BY <1>13, <2>5, <3>1
  <2>7. /\ u \in Seq(MoveType) /\ Len(u) = Len(s) - 1
        /\ \A q \in 1 .. Len(u) : h[q] \in (1 .. Len(s)) \ {q0} /\ u[q] = s[h[q]]
        /\ \A r \in (1 .. Len(s)) \ {q0} : \E q \in 1 .. Len(u) : h[q] = r
        /\ \A q, r \in 1 .. Len(u) : h[q] = h[r] => q = r
    <3> HIDE DEF s
    <3> QED BY <1>9, <2>2, MoveUsedUp
  <2> HIDE DEF h, u, t
  <2>8. Left(s, k - 1)  BY DEF Followed
  <2> HIDE DEF s
  <2>9. ASSUME NEW q \in 1 .. Len(u)
        PROVE  /\ \E r \in 1 .. Len(c.moves) : u[q] = c.moves[r]
               /\ \A l \in 1 .. k : b.moves[l].to # u[q].from
    <3>1. h[q] \in 1 .. Len(s) /\ h[q] # q0 /\ u[q] = s[h[q]]  BY <2>7
    <3>2. s[h[q]].from # v.to  BY <2>2, <2>8, <3>1
    <3>3. \A l \in 1 .. k - 1 : b.moves[l].to # s[h[q]].from  BY <2>8, <3>1
    <3>4. \A l \in 1 .. k : b.moves[l].to # s[h[q]].from  BY <1>6, <3>2, <3>3
    <3> QED BY <2>8, <3>1, <3>4
  <2>10. ASSUME NEW r \in 1 .. Len(c.moves), \A l \in 1 .. k : b.moves[l].to # c.moves[r].from
         PROVE  \E q \in 1 .. Len(u) : u[q] = c.moves[r]
    <3>1. \A l \in 1 .. k - 1 : b.moves[l].to # c.moves[r].from  BY <2>10, <1>6
    <3>2. PICK q1 \in 1 .. Len(s) : s[q1] = c.moves[r]  BY <2>8, <3>1
    <3>3. q1 # q0  BY <2>10, <1>6, <2>2, <3>2
    <3>4. PICK q \in 1 .. Len(u) : h[q] = q1  BY <2>7, <3>3
    <3> QED BY <2>7, <3>2, <3>4
  <2>11. ASSUME NEW q \in 1 .. Len(u), NEW r \in 1 .. Len(u), u[q].from = u[r].from
         PROVE  q = r
    <3>1. h[q] \in 1 .. Len(s) /\ h[r] \in 1 .. Len(s) /\ s[h[q]].from = s[h[r]].from  BY <2>11, <2>7
    <3>2. h[q] = h[r]  BY <2>8, <3>1
    <3> QED BY <2>7, <3>2
  <2>12. ASSUME NEW j \in DOMAIN new
         PROVE  j \in mods <=>
            \/ j \in c.modifications
            \/ \E l \in 1 .. k : /\ b.moves[l].to \in b.modifications /\ b.moves[l].to \in E
                                 /\ mid[b.moves[l].to] = new[j]
    <3>1. mid[v.to] = new[j] <=> j = to  BY <1>1, <2>4 DEF Rows
    <3>2. j \in mods <=> j \in x.c.modifications \/ (v.to \in b.modifications /\ j = to)  OBVIOUS
    <3>3. (\E l \in 1 .. k : /\ b.moves[l].to \in b.modifications /\ b.moves[l].to \in E
                             /\ mid[b.moves[l].to] = new[j])
          <=> \/ \E l \in 1 .. k - 1 : /\ b.moves[l].to \in b.modifications /\ b.moves[l].to \in E
                                       /\ mid[b.moves[l].to] = new[j]
              \/ v.to \in b.modifications /\ v.to \in E /\ mid[v.to] = new[j]
      BY <1>6
    <3> HIDE DEF mods, v
    <3> QED BY <1>12, <2>4, <3>1, <3>2, <3>3
  <2>13. mods \subseteq DOMAIN new  BY <1>1, <1>9, <2>4
  <2> HIDE DEF mods
  <2>14. /\ y.moves = t /\ y.c.moves = u /\ y.c.modifications = mods
         /\ y.c.deletions = E /\ y.c.insertions = J
    BY <1>9, <2>1 DEF MergeState, Builder
  <2> HIDE DEF y
  <2> QED BY <1>7, <2>6, <2>9, <2>10, <2>11, <2>12, <2>13, <2>14 DEF Followed, y
<1> QED BY <1>14, <1>15, <1>16

\* Where merge puts the insertions of b and of c.
Placed(b, c) == {Shift(c.insertions, Unshift(c.deletions, j)) : j \in b.insertions \ c.deletions}
                    \cup c.insertions

\* After all moves of b, those of it that are left lead to where c leaves the rows.
LEMMA MovesFollowed ==
    ASSUME NEW m \in Nat, NEW p \in Nat, NEW n \in Nat, NEW old, NEW mid, NEW new,
           Rows(old, m), Rows(mid, p), Rows(new, n), NEW b \in Builder, NEW c \in Builder,
           Leads(b, m, p, old, mid), Leads(c, p, n, mid, new),
           c.modifications \in SUBSET (DOMAIN new)
    PROVE  Followed(MergedMoves(b, c), Len(b.moves), b, c, Placed(b, c), old, mid, new)
<1> DEFINE L == Len(b.moves)
           K == Placed(b, c)
           base == [moves |-> <<>>, c |-> c]
           F == [k \in 1 .. L |-> [x \in MergeState |-> MovedAgain(b, c, x, b.moves[k])]]
           Fold(a) == a = [k \in 0 .. L |->
                            IF k = 0 THEN base ELSE MovedAgain(b, c, a[k - 1], b.moves[k])]
           a == CHOOSE a : Fold(a)
<1>1. L \in Nat /\ \A k \in 1 .. L : b.moves[k] \in MoveType
  BY LenProperties, ElementOfSeq DEF Builder
<1>2. base \in MergeState
  <2>1. <<>> \in Seq(MoveType)  BY EmptySeq
  <2> QED BY <2>1 DEF MergeState
<1>3. F \in [1 .. L -> [MergeState -> MergeState]]
  <2>1. IsFiniteSet(c.deletions) /\ IsFiniteSet(c.insertions)
    <3>1. c.deletions \in SUBSET (0 .. p - 1) /\ c.insertions \in SUBSET (0 .. n - 1)
      BY DEF Leads, Within
    <3> QED BY <3>1, WithinFinite
  <2>2. \A k \in 1 .. L : \A x \in MergeState : MovedAgain(b, c, x, b.moves[k]) \in MergeState
    BY <1>1, <2>1, MovedAgainType
  <2> HIDE DEF L
  <2> QED BY <2>2
<1>4. \E f : Fold(f)
  <2>1. \A k \in 1 .. L, x \in MergeState : F[k][x] = MovedAgain(b, c, x, b.moves[k])  OBVIOUS
  <2> HIDE DEF F, base, L
  <2>2. PICK f \in [0 .. L -> MergeState] : f[0] = base /\ \A k \in 1 .. L : f[k] = F[k][f[k - 1]]
    BY <1>1, <1>2, <1>3, StepsExist
  <2>3. ASSUME NEW k \in 0 .. L
        PROVE  f[k] = IF k = 0 THEN base ELSE MovedAgain(b, c, f[k - 1], b.moves[k])
    <3>1. CASE k = 0  BY <2>2, <3>1
    <3>2. CASE k # 0
      <4>1. k \in 1 .. L /\ k - 1 \in 0 .. L  BY <1>1, <3>2
      <4> QED BY <2>1, <2>2, <3>2, <4>1
    <3> QED BY <3>1, <3>2
  <2> QED BY <2>2, <2>3
<1>5. Fold(a)  BY <1>4
<1> HIDE DEF a
<1>6. a[0] = base /\ \A k \in 1 .. L : a[k] = MovedAgain(b, c, a[k - 1], b.moves[k])
  <2> HIDE DEF base
  <2>1. 0 \in 0 .. L /\ \A k \in 1 .. L : k \in 0 .. L /\ k # 0  BY <1>1
  <2> HIDE DEF L
  <2> QED BY <1>5, <2>1
<1>7. MergedMoves(b, c) = a[L]  BY DEF MergedMoves, a
<1>8. Followed(a[0], 0, b, c, K, old, mid, new)
  <2>1. base.moves = <<>> /\ base.c = c /\ Len(base.moves) = 0  OBVIOUS
  <2> HIDE DEF base
  <2>2. /\ \A q \in 1 .. Len(base.moves) : FALSE
        /\ \A l \in 1 .. 0 : FALSE
    BY <2>1
  <2>3. Reach(base.moves, 0, b, K, old, mid, new)  BY <2>2 DEF Reach
  <2>4. \A q, r \in 1 .. Len(c.moves) : c.moves[q].from = c.moves[r].from => q = r
    BY DEF Leads, MovesAre
  <2> HIDE DEF K
  <2> QED BY <1>2, <1>6, <2>1, <2>2, <2>3, <2>4 DEF Followed
<1>9. \A k \in 0 .. L : Followed(a[k], k, b, c, K, old, mid, new)
  <2> DEFINE S == {k \in 0 .. L : Followed(a[k], k, b, c, K, old, mid, new)}
  <2>1. 0 \in S  BY <1>1, <1>8
  <2>2. ASSUME NEW k \in 1 .. L, k - 1 \in S PROVE k \in S
    <3>1. Followed(a[k - 1], k - 1, b, c, K, old, mid, new)  BY <2>2
    <3>2. Followed(MovedAgain(b, c, a[k - 1], b.moves[k]), k, b, c, K, old, mid, new)
      <4>1. K = {Shift(c.insertions, Unshift(c.deletions, j)) : j \in b.insertions \ c.deletions}
                      \cup c.insertions
        BY DEF Placed
      <4> HIDE DEF K
      <4> QED BY <3>1, <4>1, FollowedNext
    <3>3. k \in 0 .. L  BY <1>1
    <3> QED BY <1>6, <3>2, <3>3
  <2> HIDE DEF S
  <2>3. \A k \in 0 .. L : k \in S  BY <1>1, <2>1, <2>2, CountUp
  <2> QED BY <2>3 DEF S
<1> QED BY <1>1, <1>7, <1>9

\* Some of the entries of a sequence of moves, in their order.
LEMMA PickedMoves ==
    ASSUME NEW s \in Seq(MoveType), NEW P \in SUBSET (1 .. Len(s))
    PROVE  /\ Picked(s, P) \in Seq(MoveType)
           /\ \A q \in 1 .. Len(Picked(s, P)) : Nth(P, q) \in P /\ Picked(s, P)[q] = s[Nth(P, q)]
           /\ \A k \in P : \E q \in 1 .. Len(Picked(s, P)) : Nth(P, q) = k
           /\ \A q, r \in 1 .. Len(Picked(s, P)) : Nth(P, q) = Nth(P, r) => q = r
<1> DEFINE p == Cardinality(P)
           t == Picked(s, P)
<1>1. Len(s) \in Nat /\ \A k \in 1 .. Len(s) : s[k] \in MoveType  BY LenProperties, ElementOfSeq
<1>2. P \in SUBSET Nat /\ IsFiniteSet(P)
  <2>1. 1 \in Int /\ Len(s) \in Int  BY <1>1
  <2>2. IsFiniteSet(1 .. Len(s))  BY <2>1, FS_Interval
  <2>3. IsFiniteSet(P)  BY <2>2, FS_Subset
  <2> QED BY <1>1, <2>3
<1>3. /\ p \in Nat /\ \A q \in 1 .. p : Nth(P, q) \in P
      /\ \A k \in P : \E q \in 1 .. p : Nth(P, q) = k
      /\ \A q, r \in 1 .. p : q < r => Nth(P, q) < Nth(P, r)
  BY <1>2, NthWorks
<1> HIDE DEF p
<1>4. ASSUME NEW q \in 1 .. p, NEW r \in 1 .. p, Nth(P, q) = Nth(P, r) PROVE q = r
  <2>1. Nth(P, q) \in P  BY <1>3
  <2>2. Nth(P, q) \in Int
    <3>1. P \in SUBSET Int  BY <1>2
    <3> QED BY <2>1, <3>1, Zenon
  <2>3. ~(q < r) /\ ~(r < q)  BY <1>4, <1>3, <2>2
  <2>4. q \in Int /\ r \in Int  BY <1>3
  <2> QED BY <2>3, <2>4
<1>5. t = [q \in 1 .. p |-> s[Nth(P, q)]]  BY DEF Picked, p
<1>6. \A q \in 1 .. p : s[Nth(P, q)] \in MoveType  BY <1>1, <1>3
<1>7. t \in [1 .. p -> MoveType]
  <2> HIDE DEF t
  <2> QED BY <1>5, <1>6
<1> HIDE DEF t
<1>8. t \in Seq(MoveType) /\ Len(t) = p  BY <1>3, <1>7, FunIsSeq
<1> QED BY <1>3, <1>4, <1>5, <1>8 DEF t

-----------------------------------------------------------------------------
(* Merging: the moves that are new, and all together.                      *)

\* Two sequences of moves, one after the other.
LEMMA MovesJoined ==
    ASSUME NEW M \in Seq(MoveType), NEW N \in Seq(MoveType)
    PROVE  /\ M \o N \in Seq(MoveType) /\ Len(M) \in Nat
           /\ \A q \in 1 .. Len(M) : q \in 1 .. Len(M \o N) /\ (M \o N)[q] = M[q]
           /\ \A q \in 1 .. Len(N) : q + Len(M) \in 1 .. Len(M \o N) /\ (M \o N)[q + Len(M)] = N[q]
           /\ \A q \in 1 .. Len(M \o N) : q \in 1 .. Len(M) \/ \E r \in 1 .. Len(N) : q = r + Len(M)
<1> DEFINE R == M \o N
<1>1. Len(M) \in Nat /\ Len(N) \in Nat  BY LenProperties
<1>2. /\ R \in Seq(MoveType) /\ Len(R) = Len(M) + Len(N)
      /\ \A q \in 1 .. Len(M) + Len(N) : R[q] = IF q <= Len(M) THEN M[q] ELSE N[q - Len(M)]
  BY ConcatProperties
<1> HIDE DEF R
<1>3. \A q \in 1 .. Len(M) : q \in 1 .. Len(M) + Len(N) /\ q <= Len(M)  BY <1>1
<1>4. \A q \in 1 .. Len(N) : /\ q + Len(M) \in 1 .. Len(M) + Len(N) /\ ~(q + Len(M) <= Len(M))
                              /\ (q + Len(M)) - Len(M) = q
  BY <1>1
<1>5. \A q \in 1 .. Len(M) + Len(N) : q \notin 1 .. Len(M) =>
        q - Len(M) \in 1 .. Len(N) /\ q = (q - Len(M)) + Len(M)
  BY <1>1
<1>6. R \in Seq(MoveType) /\ \A q \in 1 .. Len(M) : q \in 1 .. Len(R) /\ R[q] = M[q]  BY <1>2, <1>3
<1>7. \A q \in 1 .. Len(N) : q + Len(M) \in 1 .. Len(R) /\ R[q + Len(M)] = N[q]  BY <1>2, <1>4
<1>8. \A q \in 1 .. Len(R) : q \in 1 .. Len(M) \/ \E r \in 1 .. Len(N) : q = r + Len(M)
  BY <1>2, <1>5
<1> QED BY <1>1, <1>6, <1>7, <1>8 DEF R

\* s has the moves of t that are of rows not in I, each one once, and N has them counted as b
\* found them.
Selected(s, g, t, I) ==
    /\ \A q \in 1 .. Len(s) : g[q] \in 1 .. Len(t) /\ s[q] = t[g[q]] /\ s[q].from \notin I
    /\ \A k \in 1 .. Len(t) : t[k].from \notin I => \E q \in 1 .. Len(s) : g[q] = k
    /\ \A q, r \in 1 .. Len(s) : g[q] = g[r] => q = r
FromThere(N, s, b) ==
    /\ Len(N) = Len(s)
    /\ \A q \in 1 .. Len(N) : N[q].from = Source(b, s[q].from) /\ N[q].to = s[q].to

\* The moves of two change sets together: those of b, followed through c, and those of c that
\* are of rows b leaves alone.
LEMMA MovesTogether ==
    ASSUME NEW m \in Nat, NEW p \in Nat, NEW n \in Nat, NEW old, NEW mid, NEW new,
           Rows(old, m), Rows(mid, p), Rows(new, n), NEW b \in Builder, NEW c \in Builder,
           Leads(b, m, p, old, mid), Leads(c, p, n, mid, new),
           \A i \in 0 .. m - 1, l \in 0 .. n - 1 : old[i] = new[l] => \E j \in 0 .. p - 1 : mid[j] = old[i],
           NEW x, Followed(x, Len(b.moves), b, c, Placed(b, c), old, mid, new),
           NEW F, F = b.deletions \cup {Shift(b.deletions, Unshift(b.insertions, j)) : j \in c.deletions \ b.insertions},
           NEW s \in Seq(MoveType), NEW N \in Seq(MoveType), NEW g,
           Selected(s, g, x.c.moves, b.insertions), FromThere(N, s, b)
    PROVE  /\ x.moves \o N \in Seq(MoveType)
           /\ MovesAre(x.moves \o N, F, Placed(b, c), old, new)
<1> DEFINE D == b.deletions
           I == b.insertions
           E == c.deletions
           J == c.insertions
           K == Placed(b, c)
           M == x.moves
           src(j) == Shift(D, Unshift(I, j))
           R == M \o N
<1>1. /\ Len(N) = Len(s)
      /\ \A q \in 1 .. Len(s) : /\ g[q] \in 1 .. Len(x.c.moves) /\ s[q] = x.c.moves[g[q]]
                                /\ s[q].from \notin b.insertions
      /\ \A k \in 1 .. Len(x.c.moves) : x.c.moves[k].from \notin b.insertions =>
            \E q \in 1 .. Len(s) : g[q] = k
      /\ \A q, r \in 1 .. Len(s) : g[q] = g[r] => q = r
      /\ \A q \in 1 .. Len(N) : /\ N[q].from = Shift(b.deletions, Unshift(b.insertions, s[q].from))
                                /\ N[q].to = s[q].to
  BY DEF Selected, FromThere, Source
<1>2. /\ DOMAIN old = 0 .. m - 1 /\ DOMAIN mid = 0 .. p - 1 /\ DOMAIN new = 0 .. n - 1
      /\ D \in SUBSET (0 .. m - 1) /\ I \in SUBSET (0 .. p - 1)
      /\ E \in SUBSET (0 .. p - 1) /\ J \in SUBSET (0 .. n - 1)
  BY DEF Rows, Leads, Within
<1>3. /\ \A i, j \in 0 .. m - 1 : old[i] = old[j] => i = j
      /\ \A i, j \in 0 .. p - 1 : mid[i] = mid[j] => i = j
      /\ \A i, j \in 0 .. n - 1 : new[i] = new[j] => i = j
  BY DEF Rows
<1>4. ASSUME NEW j \in 0 .. p - 1, j \notin I
      PROVE  src(j) \in 0 .. m - 1 /\ src(j) \notin D /\ old[src(j)] = mid[j]
  <2>1. src(j) \in 0 .. m - 1  BY <1>4, SourceKnown
  <2>2. src(j) \notin D  BY <1>4, SourceKnown
  <2>3. old[src(j)] = mid[j]  BY <1>4, SourceKnown
  <2> QED BY <2>1, <2>2, <2>3
<1>5. F = D \cup {src(j) : j \in E \ I}  OBVIOUS
<1>6. /\ \A l \in 1 .. Len(b.moves) : b.moves[l].from \in D /\ b.moves[l].to \in I
      /\ \A i \in D, j \in I : old[i] = mid[j] =>
            \E l \in 1 .. Len(b.moves) : b.moves[l].from = i /\ b.moves[l].to = j
  BY DEF Leads, MovesAre
<1>7. /\ \A r \in 1 .. Len(c.moves) :
            c.moves[r].from \in E /\ c.moves[r].to \in J /\ mid[c.moves[r].from] = new[c.moves[r].to]
      /\ \A i \in E, j \in J : mid[i] = new[j] =>
            \E r \in 1 .. Len(c.moves) : c.moves[r].from = i /\ c.moves[r].to = j
  BY DEF Leads, MovesAre
<1>8. J \in SUBSET K  BY DEF Placed
<1>9. M \in Seq(MoveType) /\ Len(M) \in Nat /\ Len(N) \in Nat
  <2>1. M \in Seq(MoveType)  BY DEF Followed, MergeState
  <2> HIDE DEF M
  <2> QED BY <2>1, LenProperties
<1> HIDE DEF src, K, R, M
<1>10. N \in Seq(MoveType) /\ M \in Seq(MoveType)  BY <1>9
<1>11. /\ \A q \in 1 .. Len(M) : q \in 1 .. Len(R) /\ R[q] = M[q]
       /\ \A q \in 1 .. Len(N) : q + Len(M) \in 1 .. Len(R) /\ R[q + Len(M)] = N[q]
       /\ \A q \in 1 .. Len(R) : q \in 1 .. Len(M) \/ \E r \in 1 .. Len(N) : q = r + Len(M)
       /\ R \in Seq(MoveType)
  <2>1. \A q \in 1 .. Len(M) : q \in 1 .. Len(R) /\ R[q] = M[q]  BY <1>10, MovesJoined DEF R
  <2>2. \A q \in 1 .. Len(N) : q + Len(M) \in 1 .. Len(R) /\ R[q + Len(M)] = N[q]
    BY <1>10, MovesJoined DEF R
  <2>3. \A q \in 1 .. Len(R) : q \in 1 .. Len(M) \/ \E r \in 1 .. Len(N) : q = r + Len(M)
    BY <1>10, MovesJoined DEF R
  <2>4. R \in Seq(MoveType)  BY <1>10, MovesJoined, Zenon DEF R
  <2> QED BY <2>1, <2>2, <2>3, <2>4
<1>12. /\ \A q \in 1 .. Len(M) :
            /\ M[q].to \in K /\ old[M[q].from] = new[M[q].to]
            /\ \E l \in 1 .. Len(b.moves) : M[q].from = b.moves[l].from
       /\ \A q, r \in 1 .. Len(M) : M[q].from = M[r].from => q = r
       /\ \A l \in 1 .. Len(b.moves), j \in DOMAIN new : mid[b.moves[l].to] = new[j] =>
            \E q \in 1 .. Len(M) : M[q].from = b.moves[l].from /\ M[q].to = j
  BY DEF Followed, Reach, M, K
<1>13. ASSUME NEW q \in 1 .. Len(N)
       PROVE  /\ s[q].from \in E \ I /\ s[q].to \in J /\ mid[s[q].from] = new[s[q].to]
              /\ N[q].from = src(s[q].from) /\ N[q].to = s[q].to
  <2>1. q \in 1 .. Len(s)  BY <1>1
  <2>2. g[q] \in 1 .. Len(x.c.moves) /\ s[q] = x.c.moves[g[q]] /\ s[q].from \notin I  BY <1>1, <2>1
  <2>3. \E r \in 1 .. Len(c.moves) : x.c.moves[g[q]] = c.moves[r]  BY <2>2 DEF Followed
  <2>4. PICK r \in 1 .. Len(c.moves) : x.c.moves[g[q]] = c.moves[r]  BY <2>3
  <2>5. N[q].from = src(s[q].from) /\ N[q].to = s[q].to  BY <1>1 DEF src
  <2>6. s[q] = c.moves[r]  BY <2>2, <2>4
  <2>7. c.moves[r].from \in E /\ c.moves[r].to \in J /\ mid[c.moves[r].from] = new[c.moves[r].to]
    BY <1>7, <2>4
  <2> HIDE DEF D, I, E, J
  <2> QED BY <2>2, <2>5, <2>6, <2>7
<1>14. ASSUME NEW q \in 1 .. Len(N)
       PROVE  /\ N[q].from \in F /\ N[q].from \notin D /\ N[q].to \in K
              /\ old[N[q].from] = new[N[q].to]
  <2> DEFINE j == s[q].from
  <2>1. j \in E \ I /\ N[q].from = src(j) /\ N[q].to \in J /\ mid[j] = new[N[q].to]  BY <1>13
  <2> HIDE DEF j
  <2>2. j \in 0 .. p - 1 /\ j \notin I  BY <1>2, <2>1
  <2>3. src(j) \notin D /\ old[src(j)] = mid[j]  BY <1>4, <2>2
  <2>4. src(j) \in F  BY <1>5, <2>1
  <2>5. N[q].from \in F /\ N[q].to \in K  BY <1>8, <2>1, <2>4
  <2> QED BY <2>1, <2>3, <2>5
<1>15. ASSUME NEW q \in 1 .. Len(R)
       PROVE  R[q].from \in F /\ R[q].to \in K /\ old[R[q].from] = new[R[q].to]
  <2>1. CASE q \in 1 .. Len(M)
    <3>1. M[q].from \in D  BY <1>6, <1>12, <2>1
    <3>2. M[q].from \in F  BY <1>5, <3>1
    <3>3. R[q] = M[q]  BY <1>11, <2>1
    <3>4. M[q].to \in K /\ old[M[q].from] = new[M[q].to]  BY <1>12, <2>1
    <3>5. R[q].from = M[q].from /\ R[q].to = M[q].to  BY <3>3
    <3> QED BY <3>2, <3>4, <3>5, Zenon
  <2>2. ASSUME NEW r \in 1 .. Len(N), q = r + Len(M)
        PROVE  R[q].from \in F /\ R[q].to \in K /\ old[R[q].from] = new[R[q].to]
    <3>1. R[q] = N[r]  BY <1>11, <2>2
    <3>2. N[r].from \in F /\ N[r].to \in K /\ old[N[r].from] = new[N[r].to]  BY <1>14, Zenon
    <3> QED BY <3>1, <3>2, Zenon
  <2> QED BY <1>11, <2>1, <2>2
<1>16. ASSUME NEW q \in 1 .. Len(N), NEW r \in 1 .. Len(N), N[q].from = N[r].from
       PROVE  q = r
  <2>1. src(s[q].from) = src(s[r].from) /\ s[q].from \in E \ I /\ s[r].from \in E \ I
    BY <1>13, <1>16
  <2>2. s[q].from \in 0 .. p - 1 /\ s[r].from \in 0 .. p - 1 /\ s[q].from \notin I /\ s[r].from \notin I
    BY <1>2, <2>1
  <2>3. mid[s[q].from] = mid[s[r].from]
    <3>1. old[src(s[q].from)] = mid[s[q].from]  BY <1>4, <2>2
    <3>2. old[src(s[r].from)] = mid[s[r].from]  BY <1>4, <2>2
    <3> QED BY <2>1, <3>1, <3>2
  <2>4. s[q].from = s[r].from  BY <1>3, <2>2, <2>3
  <2>5. /\ g[q] \in 1 .. Len(x.c.moves) /\ s[q] = x.c.moves[g[q]]
        /\ g[r] \in 1 .. Len(x.c.moves) /\ s[r] = x.c.moves[g[r]]
    BY <1>1
  <2>6. \A k, l \in 1 .. Len(x.c.moves) : x.c.moves[k].from = x.c.moves[l].from => k = l
    BY DEF Followed
  <2>7. x.c.moves[g[q]].from = x.c.moves[g[r]].from  BY <2>4, <2>5
  <2>8. g[q] = g[r]  BY <2>5, <2>6, <2>7, Zenon
  <2> QED BY <1>1, <2>8
<1>17. ASSUME NEW q \in 1 .. Len(R), NEW r \in 1 .. Len(R), R[q].from = R[r].from
       PROVE  q = r
  <2>1. CASE q \in 1 .. Len(M) /\ r \in 1 .. Len(M)  BY <1>11, <1>12, <1>17, <2>1
  <2>2. ASSUME NEW i \in 1 .. Len(M), NEW j \in 1 .. Len(N) PROVE M[i].from # N[j].from
    <3>1. PICK l \in 1 .. Len(b.moves) : M[i].from = b.moves[l].from  BY <1>12
    <3>2. b.moves[l].from \in D  BY <1>6
    <3> QED BY <1>14, <3>1, <3>2
  <2>3. CASE q \in 1 .. Len(M) /\ r \notin 1 .. Len(M)
    <3>1. PICK j \in 1 .. Len(N) : r = j + Len(M)  BY <1>11, <2>3
    <3>2. R[q] = M[q] /\ R[r] = N[j]  BY <1>11, <2>3, <3>1
    <3> QED BY <1>17, <2>2, <2>3, <3>2
  <2>4. CASE q \notin 1 .. Len(M) /\ r \in 1 .. Len(M)
    <3>1. PICK j \in 1 .. Len(N) : q = j + Len(M)  BY <1>11, <2>4
    <3>2. R[r] = M[r] /\ R[q] = N[j]  BY <1>11, <2>4, <3>1
    <3> QED BY <1>17, <2>2, <2>4, <3>2
  <2>5. CASE q \notin 1 .. Len(M) /\ r \notin 1 .. Len(M)
    <3>1. PICK i \in 1 .. Len(N) : q = i + Len(M)  BY <1>11, <2>5
    <3>2. PICK j \in 1 .. Len(N) : r = j + Len(M)  BY <1>11, <2>5
    <3>3. N[i].from = N[j].from  BY <1>11, <1>17, <3>1, <3>2
    <3>4. i = j  BY <1>16, <3>3
    <3> QED BY <3>1, <3>2, <3>4
  <2> QED BY <2>1, <2>3, <2>4, <2>5
<1>18. ASSUME NEW i \in F, NEW l \in K, l \in 0 .. n - 1, i \in 0 .. m - 1, old[i] = new[l]
       PROVE  \E q \in 1 .. Len(R) : R[q].from = i /\ R[q].to = l
  <2>1. PICK j \in 0 .. p - 1 : mid[j] = old[i]  BY <1>18
  <2>2. CASE j \in I
    <3>1. i \in D
      <4> SUFFICES ASSUME i \notin D PROVE FALSE  OBVIOUS
      <4>1. PICK k \in DOMAIN mid \ I : old[i] = mid[k]  BY <1>2, <1>18 DEF Leads, Matches
      <4> QED BY <1>2, <1>3, <2>1, <2>2, <4>1
    <3>2. PICK k \in 1 .. Len(b.moves) : b.moves[k].from = i /\ b.moves[k].to = j
      BY <1>6, <2>1, <2>2, <3>1
    <3>3. mid[b.moves[k].to] = new[l] /\ l \in DOMAIN new  BY <1>2, <1>18, <2>1, <3>2
    <3>4. \E q \in 1 .. Len(M) : M[q].from = b.moves[k].from /\ M[q].to = l
      <4>1. \A r \in 1 .. Len(b.moves), y \in DOMAIN new : mid[b.moves[r].to] = new[y] =>
              \E q \in 1 .. Len(M) : M[q].from = b.moves[r].from /\ M[q].to = y
        BY <1>12
      <4> QED BY <3>3, <4>1, Zenon
    <3>5. PICK q \in 1 .. Len(M) : M[q].from = i /\ M[q].to = l  BY <3>2, <3>4, Zenon
    <3> QED BY <1>11, <3>5
  <2>3. CASE j \notin I
    <3>1. src(j) = i
      <4>1. src(j) \in 0 .. m - 1 /\ old[src(j)] = mid[j]  BY <1>4, <2>3
      <4> QED BY <1>3, <1>18, <2>1, <4>1
    <3>2. i \notin D  BY <1>4, <2>3, <3>1
    <3>3. j \in E
      <4>1. PICK k \in E \ I : i = src(k)  BY <1>5, <3>2
      <4>2. k \in 0 .. p - 1 /\ old[i] = mid[k]  BY <1>2, <1>4, <4>1
      <4> QED BY <1>3, <2>1, <4>1, <4>2
    <3>4. l \in J
      <4> SUFFICES ASSUME l \notin J PROVE FALSE  OBVIOUS
      <4>1. PICK k \in DOMAIN mid \ E : mid[k] = new[l]  BY <1>2, <1>18 DEF Leads, Matches
      <4> QED BY <1>2, <1>3, <1>18, <2>1, <3>3, <4>1
    <3>5. PICK r \in 1 .. Len(c.moves) : c.moves[r].from = j /\ c.moves[r].to = l
      BY <1>7, <1>18, <2>1, <3>3, <3>4
    <3>6. PICK k \in 1 .. Len(x.c.moves) : x.c.moves[k] = c.moves[r]
      <4>1. \A k \in 1 .. Len(b.moves) : b.moves[k].to # c.moves[r].from  BY <1>6, <2>3, <3>5
      <4> QED BY <4>1 DEF Followed
    <3>7. PICK q \in 1 .. Len(s) : g[q] = k  BY <1>1, <2>3, <3>5, <3>6
    <3>8. s[q] = c.moves[r] /\ q \in 1 .. Len(N)  BY <1>1, <3>6, <3>7
    <3>9. N[q].from = i /\ N[q].to = l  BY <1>13, <3>1, <3>5, <3>8
    <3> QED BY <1>11, <3>9, <3>8
  <2> QED BY <2>2, <2>3
<1>19. F \in SUBSET (0 .. m - 1) /\ K \in SUBSET (0 .. n - 1)
  <2>1. \A j \in E \ I : src(j) \in 0 .. m - 1  BY <1>2, <1>4
  <2>2. ASSUME NEW j \in I \ E PROVE Shift(J, Unshift(E, j)) \in 0 .. n - 1
    <3>1. j \in 0 .. p - 1 /\ j \notin c.deletions  BY <1>2
    <3> QED BY <3>1, DestinationKnown
  <2>3. F \in SUBSET (0 .. m - 1)
    <3> SUFFICES ASSUME NEW i \in F PROVE i \in 0 .. m - 1  OBVIOUS
    <3>1. i \in D \/ \E j \in E \ I : i = src(j)  BY <1>5
    <3> QED BY <1>2, <2>1, <3>1
  <2>4. K \in SUBSET (0 .. n - 1)  BY <1>2, <2>2 DEF K, Placed
  <2> QED BY <2>3, <2>4
<1>20. MovesAre(R, F, K, old, new)
  <2>1. \A i \in F, l \in K : old[i] = new[l] => \E q \in 1 .. Len(R) : R[q].from = i /\ R[q].to = l
    BY <1>18, <1>19
  <2> QED BY <1>15, <1>17, <2>1 DEF MovesAre
<1> QED BY <1>11, <1>20 DEF R, M, K

MovesFromThere(b, c) == Each(NewMoves(b, c), LAMBDA v : [v EXCEPT !.from = Source(b, @)])

\* The moves of c that are of rows b leaves alone.
LEMMA NewMovesAre ==
    ASSUME NEW m \in Nat, NEW p \in Nat, NEW n \in Nat, NEW old, NEW mid, NEW new,
           Rows(old, m), Rows(mid, p), Rows(new, n), NEW b \in Builder, NEW c \in Builder,
           Leads(b, m, p, old, mid), Leads(c, p, n, mid, new),
           NEW x, Followed(x, Len(b.moves), b, c, Placed(b, c), old, mid, new)
    PROVE  /\ NewMoves(b, x.c) \in Seq(MoveType) /\ MovesFromThere(b, x.c) \in Seq(MoveType)
           /\ \E g : Selected(NewMoves(b, x.c), g, x.c.moves, b.insertions)
           /\ FromThere(MovesFromThere(b, x.c), NewMoves(b, x.c), b)
<1> DEFINE t == x.c.moves
           P == {k \in 1 .. Len(t) : t[k].from \notin b.insertions}
           s == NewMoves(b, x.c)
           N == MovesFromThere(b, x.c)
           src(j) == Source(b, j)
<1>1. t \in Seq(MoveType)  BY DEF Followed, MergeState, Builder
<1>2. s = Picked(t, P)  BY DEF NewMoves
<1>3. N = [q \in 1 .. Len(s) |-> [s[q] EXCEPT !.from = src(@)]]  BY DEF MovesFromThere, Each
<1>4. P \in SUBSET (1 .. Len(t)) /\ \A k \in 1 .. Len(t) : k \in P <=> t[k].from \notin b.insertions
  OBVIOUS
<1> HIDE DEF P, s, N, t, src
<1>5. s \in Seq(MoveType)  BY <1>1, <1>2, <1>4, PickedMoves
<1>6. \A q \in 1 .. Len(s) : Nth(P, q) \in P /\ s[q] = t[Nth(P, q)]
  BY <1>1, <1>2, <1>4, PickedMoves
<1>7. \A k \in P : \E q \in 1 .. Len(s) : Nth(P, q) = k  BY <1>1, <1>2, <1>4, PickedMoves
<1>8. \A q, r \in 1 .. Len(s) : Nth(P, q) = Nth(P, r) => q = r  BY <1>1, <1>2, <1>4, PickedMoves
<1>9. Len(s) \in Nat /\ \A q \in 1 .. Len(s) : s[q] \in MoveType
  BY <1>5, LenProperties, ElementOfSeq
<1>10. ASSUME NEW q \in 1 .. Len(s)
       PROVE  src(s[q].from) \in Nat
  <2> DEFINE k == Nth(P, q)
             j == s[q].from
  <2>1. k \in 1 .. Len(t) /\ s[q] = t[k] /\ j \notin b.insertions
    <3>1. k \in P /\ s[q] = t[k]  BY <1>6
    <3> QED BY <1>4, <3>1
  <2>2. \E r \in 1 .. Len(c.moves) : t[k] = c.moves[r]  BY <2>1 DEF Followed, t
  <2>3. PICK r \in 1 .. Len(c.moves) : t[k] = c.moves[r]  BY <2>2
  <2>4. c.moves[r].from \in c.deletions /\ c.deletions \subseteq 0 .. p - 1
    BY DEF Leads, MovesAre, Within
  <2>5. j \in 0 .. p - 1  BY <2>1, <2>3, <2>4
  <2> HIDE DEF j
  <2>6. Shift(b.deletions, Unshift(b.insertions, j)) \in 0 .. m - 1  BY <2>1, <2>5, SourceKnown
  <2>7. src(j) \in Nat  BY <2>6 DEF src, Source
  <2> QED BY <2>7 DEF j
<1>11. ASSUME NEW q \in 1 .. Len(s)
       PROVE  /\ [s[q] EXCEPT !.from = src(@)] \in MoveType
              /\ [s[q] EXCEPT !.from = src(@)].from = src(s[q].from)
              /\ [s[q] EXCEPT !.from = src(@)].to = s[q].to
  <2> DEFINE v == s[q]
             d == src(v.from)
  <2>1. v \in MoveType /\ d \in Nat  BY <1>9, <1>10
  <2> HIDE DEF v, d
  <2>2. [v EXCEPT !.from = d] \in MoveType /\ [v EXCEPT !.from = d].from = d
        /\ [v EXCEPT !.from = d].to = v.to
    BY <2>1 DEF MoveType
  <2> QED BY <2>2 DEF v, d
<1>12. N \in [1 .. Len(s) -> MoveType]  BY <1>3, <1>11
<1>13. N \in Seq(MoveType) /\ Len(N) = Len(s)  BY <1>9, <1>12, FunIsSeq
<1>14. \A q \in 1 .. Len(N) : N[q].from = src(s[q].from) /\ N[q].to = s[q].to  BY <1>3, <1>11, <1>13
<1>15. \A q \in 1 .. Len(s) : Nth(P, q) \in 1 .. Len(t) /\ s[q] = t[Nth(P, q)] /\ s[q].from \notin b.insertions
  BY <1>4, <1>6
<1>16. \A k \in 1 .. Len(t) : t[k].from \notin b.insertions => \E q \in 1 .. Len(s) : Nth(P, q) = k
  BY <1>4, <1>7
<1> DEFINE g == [q \in 1 .. Len(s) |-> Nth(P, q)]
<1>17. Selected(s, g, t, b.insertions)  BY <1>8, <1>15, <1>16 DEF Selected
<1> HIDE DEF g
<1>18. FromThere(N, s, b)  BY <1>13, <1>14 DEF FromThere, src
<1> QED BY <1>5, <1>13, <1>17, <1>18 DEF s, N, t

\* Rows that are the same may stand for each other.
LEMMA LeadsSame ==
    ASSUME NEW m \in Nat, NEW n \in Nat, NEW old, NEW new, NEW old2, NEW new2, NEW b,
           DOMAIN old = 0 .. m - 1, DOMAIN new = 0 .. n - 1, DOMAIN old2 = DOMAIN old, DOMAIN new2 = DOMAIN new,
           \A i \in 0 .. m - 1 : old2[i] = old[i], \A j \in 0 .. n - 1 : new2[j] = new[j],
           Leads(b, m, n, old, new)
    PROVE  Leads(b, m, n, old2, new2)
<1> DEFINE D == b.deletions
           I == b.insertions
<1>1. /\ D \subseteq DOMAIN old /\ I \subseteq DOMAIN new
      /\ \A i \in DOMAIN old : old2[i] = old[i]
      /\ \A j \in DOMAIN new : new2[j] = new[j]
  BY DEF Leads, Within
<1>2. Matches(D, I, old, new) /\ MovesAre(b.moves, D, I, old, new) /\ Within(D, I, m, n)
  BY DEF Leads
<1> HIDE DEF D, I
<1>3. Matches(D, I, old2, new2)
  <2> DEFINE S == DOMAIN old \ D
             T == DOMAIN new \ I
  <2>1. /\ \A i \in S : \E j \in T : old[i] = new[j]
        /\ \A j \in T : \E i \in S : old[i] = new[j]
        /\ \A i, k \in S, j, l \in T : old[i] = new[j] /\ old[k] = new[l] /\ i < k => j < l
    BY <1>2 DEF Matches
  <2>2. /\ S = DOMAIN old2 \ D /\ T = DOMAIN new2 \ I
        /\ \A i \in S : old2[i] = old[i]
        /\ \A j \in T : new2[j] = new[j]
    BY <1>1
  <2> HIDE DEF S, T
  <2>3. \A i \in S : \E j \in T : old2[i] = new2[j]  BY <2>1, <2>2
  <2>4. \A j \in T : \E i \in S : old2[i] = new2[j]  BY <2>1, <2>2
  <2>5. \A i, k \in S, j, l \in T : old2[i] = new2[j] /\ old2[k] = new2[l] /\ i < k => j < l
    BY <2>1, <2>2, SMTT(30)
  <2> QED BY <2>2, <2>3, <2>4, <2>5 DEF Matches
<1>4. MovesAre(b.moves, D, I, old2, new2)
  <2> DEFINE t == b.moves
  <2>1. /\ \A k \in 1 .. Len(t) : t[k].from \in D /\ t[k].to \in I /\ old[t[k].from] = new[t[k].to]
        /\ \A k, l \in 1 .. Len(t) : t[k].from = t[l].from => k = l
        /\ \A i \in D, j \in I : old[i] = new[j] => \E k \in 1 .. Len(t) : t[k].from = i /\ t[k].to = j
    BY <1>2 DEF MovesAre
  <2> HIDE DEF t
  <2>2. \A k \in 1 .. Len(t) : t[k].from \in D /\ t[k].to \in I /\ old2[t[k].from] = new2[t[k].to]
    BY <1>1, <2>1
  <2>3. \A i \in D, j \in I : old2[i] = new2[j] => \E k \in 1 .. Len(t) : t[k].from = i /\ t[k].to = j
    BY <1>1, <2>1
  <2>4. MovesAre(t, D, I, old2, new2)  BY <2>1, <2>2, <2>3 DEF MovesAre
  <2> QED BY <2>4 DEF t
<1> QED BY <1>2, <1>3, <1>4 DEF Leads, D, I

\* A change set without anything leads from rows to the same rows.
LEMMA NothingLeads ==
    ASSUME NEW m \in Nat, NEW n \in Nat, NEW old, NEW new, Rows(old, m), Rows(new, n),
           NEW b, Leads(b, m, n, old, new), IsEmpty(b)
    PROVE  m = n /\ \A i \in 0 .. m - 1 : old[i] = new[i]
<1>1. Matches({}, {}, old, new)  BY DEF Leads, IsEmpty
<1> QED BY <1>1, NothingMatches

\* What is put together leads from the oldest rows to the newest.
LEMMA JoinedLeads ==
    ASSUME NEW m \in Nat, NEW p \in Nat, NEW n \in Nat, NEW old, NEW mid, NEW new,
           Rows(old, m), Rows(mid, p), Rows(new, n), NEW b \in Builder, NEW c \in Builder,
           Leads(b, m, p, old, mid), Leads(c, p, n, mid, new),
           \A i \in 0 .. m - 1, l \in 0 .. n - 1 : old[i] = new[l] => \E j \in 0 .. p - 1 : mid[j] = old[i],
           NEW x, Followed(x, Len(b.moves), b, c, Placed(b, c), old, mid, new)
    PROVE  /\ Joined(b, x.c, x.moves) \in Builder
           /\ Leads(Joined(b, x.c, x.moves), m, n, old, new)
<1> DEFINE D == b.deletions
           I == b.insertions
           E == c.deletions
           J == c.insertions
           F == AddShiftedBy(D, I, E)
           K == InsertEach(EraseEach(I, E), J)
           s == NewMoves(b, x.c)
           N == MovesFromThere(b, x.c)
           y == Joined(b, x.c, x.moves)
<1>1. x.c.deletions = E /\ x.c.insertions = J  BY DEF Followed
<1>2. Within(D, I, m, p) /\ Within(E, J, p, n) /\ Matches(D, I, old, mid) /\ Matches(E, J, mid, new)
  BY DEF Leads
<1> HIDE DEF D, I, E, J
<1>3. Within(F, K, m, n)  BY <1>2, MatchComposed
<1>4. Matches(F, K, old, new)  BY <1>2, MatchComposed
<1>5. F = D \cup {Shift(D, Unshift(I, j)) : j \in E \ I}  BY DEF AddShiftedBy
<1>6. K = {Shift(J, Unshift(E, j)) : j \in I \ E} \cup J
  BY DEF InsertEach, MakeRoomForEach, EraseEach
<1>7. K = Placed(b, c)  BY <1>6 DEF Placed, I, E, J
<1> HIDE DEF F, K
<1>8. /\ s \in Seq(MoveType) /\ N \in Seq(MoveType) /\ FromThere(N, s, b)
      /\ \E g : Selected(s, g, x.c.moves, b.insertions)
  BY NewMovesAre
<1> HIDE DEF s, N
<1>9. PICK g : Selected(s, g, x.c.moves, b.insertions)  BY <1>8
<1>10. F = b.deletions \cup {Shift(b.deletions, Unshift(b.insertions, j)) : j \in c.deletions \ b.insertions}
  BY <1>5 DEF D, I, E
<1>11. x.moves \o N \in Seq(MoveType)
  <2>1. x.moves \in Seq(MoveType)  BY DEF Followed, MergeState
  <2> QED BY <1>8, <2>1, MovesJoined, Zenon
<1>12. MovesAre(x.moves \o N, F, K, old, new)  BY <1>7, <1>8, <1>9, <1>10, MovesTogether
<1>13. y = [b EXCEPT !.moves = x.moves \o N, !.deletions = F, !.insertions = K]
  BY <1>1 DEF Joined, F, K, D, I, E, J, N, MovesFromThere
<1> HIDE DEF y
<1>14. y \in Builder /\ y.moves = x.moves \o N /\ y.deletions = F /\ y.insertions = K
  <2> DEFINE r == x.moves \o N
  <2>1. F \in SUBSET Nat /\ K \in SUBSET Nat  BY <1>3 DEF Within
  <2>2. r \in Seq(MoveType)  BY <1>11
  <2> HIDE DEF r
  <2>3. y = [b EXCEPT !.moves = r, !.deletions = F, !.insertions = K]  BY <1>13 DEF r
  <2>4. y \in Builder /\ y.moves = r /\ y.deletions = F /\ y.insertions = K
    BY <2>1, <2>2, <2>3 DEF Builder
  <2> QED BY <2>4 DEF r
<1>15. Leads(y, m, n, old, new)  BY <1>3, <1>4, <1>12, <1>14 DEF Leads
<1> QED BY <1>14, <1>15 DEF y

\* mods has the rows of cm, and of those that are now where bm says only rows that it has; it
\* misses none of these that was there in the beginning.
ModifiedSince(mods, bm, cm, m, n, old, mid, new) ==
    /\ mods \subseteq 0 .. n - 1 /\ cm \subseteq mods
    /\ \A l \in mods : l \in cm \/ \E j \in bm : mid[j] = new[l]
    /\ \A j \in bm, l \in 0 .. n - 1, i \in 0 .. m - 1 : mid[j] = new[l] /\ old[i] = new[l] => l \in mods

\* The modifications that merge gives are those of both.
LEMMA ModificationsJoined ==
    ASSUME NEW m \in Nat, NEW p \in Nat, NEW n \in Nat, NEW old, NEW mid, NEW new,
           Rows(old, m), Rows(mid, p), Rows(new, n), NEW b \in Builder, NEW c \in Builder,
           Leads(b, m, p, old, mid), Leads(c, p, n, mid, new),
           b.modifications \subseteq 0 .. p - 1, c.modifications \subseteq 0 .. n - 1,
           NEW x, Followed(x, Len(b.moves), b, c, Placed(b, c), old, mid, new)
    PROVE  ModifiedSince(JoinedModifications(b, x.c), b.modifications, c.modifications, m, n, old, mid, new)
<1> DEFINE D == b.deletions
           I == b.insertions
           E == c.deletions
           J == c.insertions
           t == x.c.moves
           s == NewMoves(b, x.c)
           B == b.modifications
           X == x.c.modifications
           Z == JoinedModifications(b, x.c)
<1>1. /\ DOMAIN old = 0 .. m - 1 /\ DOMAIN mid = 0 .. p - 1 /\ DOMAIN new = 0 .. n - 1
      /\ D \in SUBSET (0 .. m - 1) /\ I \in SUBSET (0 .. p - 1)
      /\ E \in SUBSET (0 .. p - 1) /\ J \in SUBSET (0 .. n - 1)
      /\ \A i, j \in 0 .. p - 1 : mid[i] = mid[j] => i = j
      /\ \A i, j \in 0 .. n - 1 : new[i] = new[j] => i = j
  BY DEF Rows, Leads, Within
<1>2. /\ \A r \in 1 .. Len(c.moves) :
            c.moves[r].from \in E /\ c.moves[r].to \in J /\ mid[c.moves[r].from] = new[c.moves[r].to]
      /\ \A i \in E, j \in J : mid[i] = new[j] =>
            \E r \in 1 .. Len(c.moves) : c.moves[r].from = i /\ c.moves[r].to = j
  BY DEF Leads, MovesAre
<1>3. x.c.deletions = E /\ x.c.insertions = J  BY DEF Followed
<1>4. \A l \in Z : \/ \E j \in B \ E : l = Shift(J, Unshift(E, j))
                   \/ l \in X
                   \/ \E k \in 1 .. Len(s) : s[k].from \in B /\ l = s[k].to
  BY <1>3 DEF JoinedModifications, MakeRoomForEach, EraseEach
<1>5. /\ \A j \in B \ E : Shift(J, Unshift(E, j)) \in Z
      /\ \A l \in X : l \in Z
      /\ \A k \in 1 .. Len(s) : s[k].from \in B => s[k].to \in Z
  BY <1>3 DEF JoinedModifications, MakeRoomForEach, EraseEach
<1>6. ASSUME NEW j \in B \ E
      PROVE  /\ Shift(J, Unshift(E, j)) \in 0 .. n - 1
             /\ mid[j] = new[Shift(J, Unshift(E, j))]
  <2>1. j \in 0 .. p - 1 /\ j \notin c.deletions  OBVIOUS
  <2>2. Shift(J, Unshift(E, j)) \in 0 .. n - 1  BY <2>1, DestinationKnown
  <2>3. mid[j] = new[Shift(J, Unshift(E, j))]  BY <2>1, DestinationKnown
  <2> QED BY <2>2, <2>3
<1>7. PICK g : Selected(s, g, t, I)  BY NewMovesAre
<1>8. ASSUME NEW k \in 1 .. Len(s)
      PROVE  \E r \in 1 .. Len(c.moves) : s[k] = c.moves[r]
  <2>1. g[k] \in 1 .. Len(t) /\ s[k] = t[g[k]]  BY <1>7 DEF Selected
  <2>2. \A q \in 1 .. Len(t) : \E r \in 1 .. Len(c.moves) : t[q] = c.moves[r]  BY DEF Followed
  <2> QED BY <2>1, <2>2
<1>9. ASSUME NEW k \in 1 .. Len(s)
      PROVE  s[k].to \in 0 .. n - 1 /\ mid[s[k].from] = new[s[k].to]
  <2>1. PICK r \in 1 .. Len(c.moves) : s[k] = c.moves[r]  BY <1>8
  <2>2. c.moves[r].to \in J /\ mid[c.moves[r].from] = new[c.moves[r].to]  BY <1>2
  <2> QED BY <1>1, <2>1, <2>2
<1>10. /\ X \subseteq DOMAIN new
       /\ \A j \in DOMAIN new : j \in X <=>
            \/ j \in c.modifications
            \/ \E l \in 1 .. Len(b.moves) : /\ b.moves[l].to \in B /\ b.moves[l].to \in E
                                            /\ mid[b.moves[l].to] = new[j]
  BY DEF Followed
<1>11. /\ \A l \in 1 .. Len(b.moves) : b.moves[l].to \in I
       /\ \A i \in D, j \in I : old[i] = mid[j] =>
            \E l \in 1 .. Len(b.moves) : b.moves[l].from = i /\ b.moves[l].to = j
  BY DEF Leads, MovesAre
<1>12. \A k \in 1 .. Len(c.moves) : (\A l \in 1 .. Len(b.moves) : b.moves[l].to # c.moves[k].from) =>
            \E q \in 1 .. Len(t) : t[q] = c.moves[k]
  BY DEF Followed
<1>13. /\ \A k \in 1 .. Len(t) : t[k].from \notin I => \E q \in 1 .. Len(s) : g[q] = k
       /\ \A q \in 1 .. Len(s) : s[q] = t[g[q]]
  BY <1>7 DEF Selected
<1>14. /\ \A i \in DOMAIN old \ D : \E j \in DOMAIN mid \ I : old[i] = mid[j]
       /\ \A j \in DOMAIN new \ J : \E i \in DOMAIN mid \ E : mid[i] = new[j]
  BY DEF Leads, Matches
<1> HIDE DEF s, t, X, Z, J
<1>15. ASSUME NEW l \in Z
       PROVE  l \in 0 .. n - 1 /\ (l \in c.modifications \/ \E j \in B : mid[j] = new[l])
  <2>1. CASE \E j \in B \ E : l = Shift(J, Unshift(E, j))  BY <1>6, <2>1
  <2>2. CASE l \in X  BY <1>1, <1>10, <2>2
  <2>3. CASE \E k \in 1 .. Len(s) : s[k].from \in B /\ l = s[k].to  BY <1>9, <2>3
  <2> QED BY <1>4, <2>1, <2>2, <2>3
<1>16. ASSUME NEW l \in c.modifications
       PROVE  l \in Z
  BY <1>1, <1>5, <1>10
<1>17. ASSUME NEW j \in B, NEW l \in 0 .. n - 1, NEW i \in 0 .. m - 1, mid[j] = new[l], old[i] = new[l]
       PROVE  l \in Z
  <2>1. CASE j \notin E
    <3>1. Shift(J, Unshift(E, j)) = l  BY <1>1, <1>6, <1>17, <2>1
    <3> QED BY <1>5, <2>1, <3>1
  <2>2. CASE j \in E
    <3>1. l \in J
      <4> SUFFICES ASSUME l \notin J PROVE FALSE  OBVIOUS
      <4>1. PICK k \in DOMAIN mid \ E : mid[k] = new[l]  BY <1>1, <1>14
      <4> QED BY <1>1, <1>17, <2>2, <4>1
    <3>2. PICK r \in 1 .. Len(c.moves) : c.moves[r].from = j /\ c.moves[r].to = l
      BY <1>2, <1>17, <2>2, <3>1
    <3>3. CASE j \in I
      <4>1. i \in D
        <5> SUFFICES ASSUME i \notin D PROVE FALSE  OBVIOUS
        <5>1. PICK k \in DOMAIN mid \ I : old[i] = mid[k]  BY <1>1, <1>14
        <5> QED BY <1>1, <1>17, <2>2, <3>3, <5>1
      <4>2. PICK k \in 1 .. Len(b.moves) : b.moves[k].from = i /\ b.moves[k].to = j
        <5>1. old[i] = mid[j]  BY <1>17
        <5>2. \A a \in D, e \in I : old[a] = mid[e] =>
                \E k \in 1 .. Len(b.moves) : b.moves[k].from = a /\ b.moves[k].to = e
          BY <1>11
        <5> QED BY <3>3, <4>1, <5>1, <5>2, Zenon
      <4>3. l \in X  BY <1>1, <1>10, <1>17, <2>2, <4>2
      <4> QED BY <1>5, <4>3
    <3>4. CASE j \notin I
      <4>1. \A k \in 1 .. Len(b.moves) : b.moves[k].to # c.moves[r].from  BY <1>11, <3>2, <3>4
      <4>2. PICK k \in 1 .. Len(t) : t[k] = c.moves[r]  BY <1>12, <4>1
      <4>3. PICK q \in 1 .. Len(s) : g[q] = k  BY <1>13, <3>2, <3>4, <4>2
      <4>4. s[q].from = j /\ s[q].to = l  BY <1>13, <3>2, <4>2, <4>3
      <4> QED BY <1>5, <4>4
    <3> QED BY <3>3, <3>4
  <2> QED BY <2>1, <2>2
<1>18. c.modifications \subseteq Z  BY <1>16
<1> QED BY <1>15, <1>17, <1>18 DEF ModifiedSince, Z

\* Merge of two change sets that follow each other leads from the rows before the first to the
\* rows after the second, and knows of all that were modified in one of them.
THEOREM MergeLeads ==
    ASSUME NEW m \in Nat, NEW p \in Nat, NEW n \in Nat, NEW old, NEW mid, NEW new,
           Rows(old, m), Rows(mid, p), Rows(new, n), NEW b \in Builder, NEW c \in Builder,
           Leads(b, m, p, old, mid), Leads(c, p, n, mid, new),
           b.modifications \subseteq 0 .. p - 1, c.modifications \subseteq 0 .. n - 1,
           \A i \in 0 .. m - 1, l \in 0 .. n - 1 : old[i] = new[l] => \E j \in 0 .. p - 1 : mid[j] = old[i]
    PROVE  /\ Merge(b, c) \in Builder /\ Leads(Merge(b, c), m, n, old, new)
           /\ ModifiedSince(Merge(b, c).modifications, b.modifications, c.modifications, m, n, old, mid, new)
<1> DEFINE r == Merge(b, c)
<1>1. CASE IsEmpty(c)
  <2>1. r = b  BY <1>1 DEF Merge
  <2>2. p = n /\ \A j \in 0 .. p - 1 : mid[j] = new[j]  BY <1>1, NothingLeads
  <2>3. Leads(b, m, n, old, new)
    <3>1. DOMAIN new = DOMAIN mid /\ DOMAIN old = 0 .. m - 1 /\ DOMAIN mid = 0 .. p - 1
      BY <2>2 DEF Rows
    <3>2. Leads(b, m, p, old, new)  BY <2>2, <3>1, LeadsSame
    <3> QED BY <2>2, <3>2
  <2>4. c.modifications = {}  BY <1>1 DEF IsEmpty
  <2>5. \A j \in b.modifications, l \in 0 .. n - 1 : mid[j] = new[l] => j = l  BY <2>2 DEF Rows
  <2>6. ModifiedSince(b.modifications, b.modifications, c.modifications, m, n, old, mid, new)
    BY <2>2, <2>4, <2>5 DEF ModifiedSince
  <2> QED BY <2>1, <2>3, <2>6
<1>2. CASE ~IsEmpty(c) /\ IsEmpty(b)
  <2>1. r = c  BY <1>2 DEF Merge
  <2>2. m = p /\ \A j \in 0 .. m - 1 : old[j] = mid[j]
    <3>1. IsEmpty(b) /\ Leads(b, m, p, old, mid)  BY <1>2
    <3> QED BY <3>1, NothingLeads
  <2>3. Leads(c, m, n, old, new)
    <3>1. DOMAIN old = DOMAIN mid /\ DOMAIN new = 0 .. n - 1 /\ DOMAIN mid = 0 .. p - 1
      BY <2>2 DEF Rows
    <3>2. Leads(c, p, n, old, new)  BY <2>2, <3>1, LeadsSame
    <3> QED BY <2>2, <3>2
  <2>4. b.modifications = {}  BY <1>2 DEF IsEmpty
  <2>5. ModifiedSince(c.modifications, b.modifications, c.modifications, m, n, old, mid, new)
    BY <2>4 DEF ModifiedSince
  <2> QED BY <2>1, <2>3, <2>5
<1>3. CASE ~IsEmpty(c) /\ ~IsEmpty(b)
  <2> DEFINE x == MergedMoves(b, c)
             y == Joined(b, x.c, x.moves)
             Z == JoinedModifications(b, x.c)
  <2>1. r = [CleanedUp(y) EXCEPT !.modifications = Z]  BY <1>3 DEF Merge
  <2>2. Followed(x, Len(b.moves), b, c, Placed(b, c), old, mid, new)  BY MovesFollowed DEF Rows
  <2> HIDE DEF x
  <2>3. y \in Builder  BY <2>2, JoinedLeads
  <2>4. Leads(y, m, n, old, new)  BY <2>2, JoinedLeads
  <2>5. ModifiedSince(Z, b.modifications, c.modifications, m, n, old, mid, new)
    BY <2>2, ModificationsJoined
  <2> HIDE DEF y, Z, r
  <2>6. CleanedUp(y) \in Builder  BY <2>3, <2>4, CleanedGood
  <2>7. Leads(CleanedUp(y), m, n, old, new)  BY <2>3, <2>4, CleanedGood
  <2> DEFINE w == CleanedUp(y)
  <2>8. w \in Builder /\ Leads(w, m, n, old, new) /\ r = [w EXCEPT !.modifications = Z]
    BY <2>1, <2>6, <2>7
  <2> HIDE DEF w
  <2>9. Z \in SUBSET Nat  BY <2>5 DEF ModifiedSince
  <2>10. /\ r \in Builder /\ r.modifications = Z
         /\ r.deletions = w.deletions /\ r.insertions = w.insertions /\ r.moves = w.moves
    BY <2>8, <2>9 DEF Builder
  <2>11. Leads(r, m, n, old, new)  BY <2>8, <2>10 DEF Leads
  <2> QED BY <2>5, <2>10, <2>11 DEF r
<1> QED BY <1>1, <1>2, <1>3

-----------------------------------------------------------------------------
(* Lists.                                                                  *)

\* Rows behind t go up by one when one is inserted at t.
LEMMA RowInserted ==
    ASSUME NEW T, NEW s \in Seq(T), NEW t \in 0 .. Len(s), NEW e \in T
    PROVE  LET u == InsertAt(s, t + 1, e) IN
           /\ u \in Seq(T) /\ Len(u) = Len(s) + 1 /\ u[t + 1] = e
           /\ \A j \in 0 .. Len(s) - 1 : u[Up(t, j) + 1] = s[j + 1]
<1> DEFINE n == Len(s)
           a == SubSeq(s, 1, (t + 1) - 1)
           z == SubSeq(s, t + 1, n)
           u == InsertAt(s, t + 1, e)
<1>1. n \in Nat /\ t \in 0 .. n /\ t \in Int /\ \A i \in 1 .. n : s[i] \in T
  BY LenProperties, ElementOfSeq
<1>2. a \in Seq(T) /\ Len(a) = t /\ \A i \in 1 .. t : a[i] = s[i]
  <2> DEFINE k == (t + 1) - 1
  <2>1. k = t /\ k \in Int /\ \A i \in 1 .. k : s[i] \in T  BY <1>1
  <2> HIDE DEF k
  <2>2. /\ a \in Seq(T) /\ Len(a) = IF 1 <= k THEN k - 1 + 1 ELSE 0
        /\ \A i \in 1 .. k - 1 + 1 : a[i] = s[1 + i - 1]
    BY <2>1, SubSeqProperties DEF k
  <2> HIDE DEF a
  <2>3. k - 1 + 1 = t /\ \A i \in 1 .. t : 1 + i - 1 = i  BY <1>1, <2>1
  <2> QED BY <1>1, <2>1, <2>2, <2>3
<1>3. z \in Seq(T) /\ Len(z) = n - t /\ \A i \in 1 .. n - t : z[i] = s[t + i]
  <2>1. \A i \in t + 1 .. n : s[i] \in T  BY <1>1
  <2> HIDE DEF n
  <2>2. /\ z \in Seq(T) /\ Len(z) = IF t + 1 <= n THEN n - (t + 1) + 1 ELSE 0
        /\ \A i \in 1 .. n - (t + 1) + 1 : z[i] = s[t + 1 + i - 1]
    BY <1>1, <2>1, SubSeqProperties
  <2> HIDE DEF z
  <2>3. n - (t + 1) + 1 = n - t /\ \A i \in 1 .. n - t : t + 1 + i - 1 = t + i  BY <1>1
  <2> QED BY <1>1, <2>2, <2>3
<1>4. u = a \o <<e>> \o z  BY DEF InsertAt
<1> DEFINE b == a \o <<e>>
<1> HIDE DEF a, z, u, n
<1>5. b \in Seq(T) /\ Len(b) = t + 1 /\ b[t + 1] = e /\ \A i \in 1 .. t : b[i] = a[i]  BY <1>1, <1>2
<1> HIDE DEF b
<1>6. /\ u \in Seq(T) /\ Len(u) = n + 1 /\ u[t + 1] = e
      /\ \A i \in 1 .. t : u[i] = s[i]
      /\ \A i \in 1 .. n - t : u[t + 1 + i] = s[t + i]
  <2>1. u = b \o z  BY <1>4 DEF b
  <2>2. /\ u \in Seq(T) /\ Len(u) = Len(b) + Len(z)
        /\ \A i \in 1 .. Len(b) + Len(z) : u[i] = IF i <= Len(b) THEN b[i] ELSE z[i - Len(b)]
    BY <1>3, <1>5, <2>1, ConcatProperties
  <2>3. Len(u) = n + 1 /\ \A i \in 1 .. n + 1 : u[i] = IF i <= t + 1 THEN b[i] ELSE z[i - (t + 1)]
    BY <1>1, <1>3, <1>5, <2>2
  <2>4. \A i \in 1 .. t : i \in 1 .. n + 1 /\ i <= t + 1  BY <1>1
  <2>5. \A i \in 1 .. n - t : t + 1 + i \in 1 .. n + 1 /\ ~(t + 1 + i <= t + 1) /\ t + 1 + i - (t + 1) = i
    BY <1>1
  <2>6. t + 1 \in 1 .. n + 1  BY <1>1
  <2> QED BY <1>2, <1>3, <1>5, <2>2, <2>3, <2>4, <2>5, <2>6
<1>7. ASSUME NEW j \in 0 .. n - 1
      PROVE  u[Up(t, j) + 1] = s[j + 1]
  <2>1. CASE j < t
    <3>1. Up(t, j) + 1 = j + 1 /\ j + 1 \in 1 .. t  BY <1>1, <2>1 DEF Up
    <3> QED BY <1>6, <3>1
  <2>2. CASE ~(j < t)
    <3>1. Up(t, j) + 1 = t + 1 + (j + 1 - t) /\ j + 1 - t \in 1 .. n - t /\ t + (j + 1 - t) = j + 1
      BY <1>1, <2>2 DEF Up
    <3> HIDE DEF Up
    <3> QED BY <1>6, <3>1
  <2> QED BY <2>1, <2>2
<1> QED BY <1>6, <1>7 DEF u, n

\* And they go down by one when the one at t is removed.
LEMMA RowRemoved ==
    ASSUME NEW T, NEW s \in Seq(T), NEW t \in 0 .. Len(s) - 1
    PROVE  LET u == RemoveAt(s, t + 1) IN
           /\ u \in Seq(T) /\ Len(u) = Len(s) - 1
           /\ \A j \in 0 .. Len(s) - 1 : j # t => u[Down(t, j) + 1] = s[j + 1]
<1> DEFINE n == Len(s)
           a == SubSeq(s, 1, (t + 1) - 1)
           z == SubSeq(s, (t + 1) + 1, n)
           u == RemoveAt(s, t + 1)
<1>1. n \in Nat /\ t \in 0 .. n - 1 /\ t \in Int /\ \A i \in 1 .. n : s[i] \in T
  BY LenProperties, ElementOfSeq
<1>2. a \in Seq(T) /\ Len(a) = t /\ \A i \in 1 .. t : a[i] = s[i]
  <2> DEFINE k == (t + 1) - 1
  <2>1. k = t /\ k \in Int /\ \A i \in 1 .. k : s[i] \in T  BY <1>1
  <2> HIDE DEF k
  <2>2. /\ a \in Seq(T) /\ Len(a) = IF 1 <= k THEN k - 1 + 1 ELSE 0
        /\ \A i \in 1 .. k - 1 + 1 : a[i] = s[1 + i - 1]
    BY <2>1, SubSeqProperties DEF k
  <2> HIDE DEF a
  <2>3. k - 1 + 1 = t /\ \A i \in 1 .. t : 1 + i - 1 = i  BY <1>1, <2>1
  <2> QED BY <1>1, <2>1, <2>2, <2>3
<1>3. z \in Seq(T) /\ Len(z) = n - t - 1 /\ \A i \in 1 .. n - t - 1 : z[i] = s[t + 1 + i]
  <2> DEFINE k == t + 1 + 1
  <2>1. k = t + 2 /\ k \in Int /\ \A i \in k .. n : s[i] \in T  BY <1>1
  <2> HIDE DEF n, k
  <2>2. /\ z \in Seq(T) /\ Len(z) = IF k <= n THEN n - k + 1 ELSE 0
        /\ \A i \in 1 .. n - k + 1 : z[i] = s[k + i - 1]
    BY <1>1, <2>1, SubSeqProperties DEF k
  <2> HIDE DEF z
  <2>3. n - k + 1 = n - t - 1 /\ \A i \in 1 .. n - t - 1 : k + i - 1 = t + 1 + i  BY <1>1, <2>1
  <2> QED BY <1>1, <2>1, <2>2, <2>3
<1>4. u = a \o z  BY DEF RemoveAt
<1> HIDE DEF a, z, u, n
<1>5. /\ u \in Seq(T) /\ Len(u) = n - 1
      /\ \A i \in 1 .. t : u[i] = s[i]
      /\ \A i \in 1 .. n - t - 1 : u[t + i] = s[t + 1 + i]
  <2>1. /\ u \in Seq(T) /\ Len(u) = Len(a) + Len(z)
        /\ \A i \in 1 .. Len(a) + Len(z) : u[i] = IF i <= Len(a) THEN a[i] ELSE z[i - Len(a)]
    BY <1>2, <1>3, <1>4, ConcatProperties
  <2>2. Len(u) = n - 1 /\ \A i \in 1 .. n - 1 : u[i] = IF i <= t THEN a[i] ELSE z[i - t]
    BY <1>1, <1>2, <1>3, <2>1
  <2>3. \A i \in 1 .. t : i \in 1 .. n - 1 /\ i <= t  BY <1>1
  <2>4. \A i \in 1 .. n - t - 1 : t + i \in 1 .. n - 1 /\ ~(t + i <= t) /\ t + i - t = i  BY <1>1
  <2> QED BY <1>2, <1>3, <2>1, <2>2, <2>3, <2>4
<1>6. ASSUME NEW j \in 0 .. n - 1, j # t
      PROVE  u[Down(t, j) + 1] = s[j + 1]
  <2>1. CASE j < t
    <3>1. Down(t, j) + 1 = j + 1 /\ j + 1 \in 1 .. t  BY <1>1, <2>1 DEF Down
    <3> QED BY <1>5, <3>1
  <2>2. CASE j > t
    <3>1. Down(t, j) + 1 = t + (j - t) /\ j - t \in 1 .. n - t - 1 /\ t + 1 + (j - t) = j + 1
      BY <1>1, <2>2 DEF Down
    <3> HIDE DEF Down
    <3> QED BY <1>5, <3>1
  <2> QED BY <1>1, <1>6, <2>1, <2>2
<1> QED BY <1>5, <1>6 DEF u, n

\* A row is taken out and put in elsewhere.
LEMMA RowPlaced ==
    ASSUME NEW T, NEW s \in Seq(T), NEW f \in 0 .. Len(s) - 1, NEW t \in 0 .. Len(s) - 1
    PROVE  LET u == InsertAt(RemoveAt(s, f + 1), t + 1, s[f + 1]) IN
           /\ u \in Seq(T) /\ Len(u) = Len(s)
           /\ \A j \in 0 .. Len(s) - 1 : u[Place(f, t, j) + 1] = s[j + 1]
<1> DEFINE n == Len(s)
           r == RemoveAt(s, f + 1)
           e == s[f + 1]
           u == InsertAt(r, t + 1, e)
<1>1. n \in Nat /\ f \in 0 .. n - 1 /\ t \in 0 .. n - 1 /\ f + 1 \in 1 .. n /\ e \in T
  BY LenProperties, ElementOfSeq
<1>2. r \in Seq(T) /\ Len(r) = n - 1 /\ \A j \in 0 .. n - 1 : j # f => r[Down(f, j) + 1] = s[j + 1]
  BY RowRemoved
<1> HIDE DEF r, e, n
<1>3. t \in 0 .. Len(r)  BY <1>1, <1>2
<1>4. /\ u \in Seq(T) /\ Len(u) = Len(r) + 1 /\ u[t + 1] = e
      /\ \A j \in 0 .. Len(r) - 1 : u[Up(t, j) + 1] = r[j + 1]
  <2>1. r \in Seq(T) /\ t \in 0 .. Len(r) /\ e \in T  BY <1>1, <1>2, <1>3
  <2>2. u \in Seq(T)  BY <2>1, RowInserted
  <2>3. Len(u) = Len(r) + 1  BY <2>1, RowInserted
  <2>4. u[t + 1] = e  BY <2>1, RowInserted
  <2>5. \A j \in 0 .. Len(r) - 1 : u[Up(t, j) + 1] = r[j + 1]  BY <2>1, RowInserted
  <2> QED BY <2>2, <2>3, <2>4, <2>5
<1> HIDE DEF u
<1>5. ASSUME NEW j \in 0 .. n - 1
      PROVE  u[Place(f, t, j) + 1] = s[j + 1]
  <2>1. CASE j = f  BY <1>4, <2>1 DEF Place, e
  <2>2. CASE j # f
    <3>1. Down(f, j) \in 0 .. Len(r) - 1  BY <1>1, <1>2, <2>2 DEF Down
    <3>2. u[Up(t, Down(f, j)) + 1] = r[Down(f, j) + 1]  BY <1>4, <3>1
    <3>3. u[Up(t, Down(f, j)) + 1] = s[j + 1]  BY <1>2, <2>2, <3>2
    <3> QED BY <2>2, <3>3 DEF Place
  <2> QED BY <2>1, <2>2
<1> QED BY <1>1, <1>2, <1>4, <1>5 DEF u, r, e, n

\* What a callback is told is faithful if the change set leads from the old rows to the new
\* and has the modifications of the rows that stay.
LEMMA FaithfulFrom ==
    ASSUME NEW m \in Nat, NEW n \in Nat, NEW old, NEW new, Rows(old, m), Rows(new, n),
           NEW b \in Builder, Leads(b, m, n, old, new), b.modifications \subseteq 0 .. n - 1, NEW marked,
           \A i \in 0 .. m - 1, j \in 0 .. n - 1 : old[i] = new[j] => (j \in b.modifications <=> new[j] \in marked)
    PROVE  Faithful(Finalized(b), old, new, marked)
<1> DEFINE D == b.deletions
           I == b.insertions
           M == b.modifications
           c == Finalized(b)
           at(j) == Shift(D, Unshift(I, j))
<1>1. /\ c.deletions = D /\ c.insertions = I /\ c.moves = b.moves /\ c.modifications_new = M \ I
      /\ c.modifications = {at(j) : j \in M \ I}
  BY DEF Finalized, MakeRoomForEach, EraseEach
<1>2. /\ DOMAIN old = 0 .. m - 1 /\ DOMAIN new = 0 .. n - 1
      /\ D \in SUBSET (0 .. m - 1) /\ I \in SUBSET (0 .. n - 1)
      /\ \A i, j \in 0 .. m - 1 : old[i] = old[j] => i = j
      /\ \A i, j \in 0 .. n - 1 : new[i] = new[j] => i = j
  BY DEF Rows, Leads, Within
<1>3. Matches(D, I, old, new) /\ MovesAre(b.moves, D, I, old, new)  BY DEF Leads
<1>4. ASSUME NEW j \in 0 .. n - 1, j \notin I
      PROVE  at(j) \in 0 .. m - 1 /\ at(j) \notin D /\ old[at(j)] = new[j]
  <2>1. at(j) \in 0 .. m - 1  BY <1>4, SourceKnown
  <2>2. at(j) \notin D  BY <1>4, SourceKnown
  <2>3. old[at(j)] = new[j]  BY <1>4, SourceKnown
  <2> QED BY <2>1, <2>2, <2>3
<1>5. \A i \in DOMAIN old \ D : \E j \in DOMAIN new \ I : old[i] = new[j]  BY <1>3 DEF Matches
<1> HIDE DEF D, I, M, c, at
<1>6. c.modifications_new = {j \in DOMAIN new \ I : new[j] \in marked}
  <2>1. \A j \in 0 .. n - 1 : j \notin I => (j \in M <=> new[j] \in marked)  BY <1>4 DEF M
  <2>2. M \subseteq 0 .. n - 1  BY DEF M
  <2> QED BY <1>1, <1>2, <2>1, <2>2
<1>7. c.modifications = {i \in DOMAIN old \ D : old[i] \in marked}
  <2>1. ASSUME NEW j \in M \ I
        PROVE  at(j) \in DOMAIN old \ D /\ old[at(j)] \in marked
    <3>1. j \in 0 .. n - 1 /\ j \notin I  BY DEF M
    <3>2. at(j) \in 0 .. m - 1 /\ at(j) \notin D /\ old[at(j)] = new[j]  BY <1>4, <3>1
    <3>3. new[j] \in marked  BY <3>1, <3>2 DEF M
    <3> QED BY <1>2, <3>2, <3>3
  <2>2. ASSUME NEW i \in DOMAIN old \ D, old[i] \in marked
        PROVE  \E j \in M \ I : i = at(j)
    <3>1. PICK j \in DOMAIN new \ I : old[i] = new[j]  BY <1>5
    <3>2. i \in 0 .. m - 1 /\ j \in 0 .. n - 1 /\ j \notin I  BY <1>2
    <3>3. j \in M  BY <2>2, <3>1, <3>2 DEF M
    <3>4. at(j) \in 0 .. m - 1 /\ old[at(j)] = old[i]  BY <1>4, <3>1, <3>2
    <3>5. at(j) = i  BY <1>2, <3>2, <3>4
    <3> QED BY <3>2, <3>3, <3>5
  <2> QED BY <1>1, <2>1, <2>2
<1>8. \A k \in 1 .. Len(c.moves) :
        c.moves[k].from \in c.deletions /\ c.moves[k].to \in c.insertions
            /\ old[c.moves[k].from] = new[c.moves[k].to]
  BY <1>1, <1>3 DEF MovesAre
<1> QED BY <1>1, <1>2, <1>3, <1>6, <1>7, <1>8 DEF Faithful, c

-----------------------------------------------------------------------------
(* What holds of a list in every state.                                    *)

\* The modifications are those of the rows that are marked.
ModsAre(mods, rows, marked) == mods = {j \in Indexes0(rows) : Row(rows, j) \in marked}

\* What leaves a list and comes back was there when the change set was begun.
ListRows ==
    /\ RowsAre(told) /\ RowsAre(start) /\ RowsAre(now)
    /\ \A i \in Indexes0(told), l \in Indexes0(now) : Row(told, i) = Row(now, l) =>
            \E j \in Indexes0(start) : Row(start, j) = Row(told, i)

ListMarks ==
    /\ modified.start \cup touched \subseteq modified.told
    /\ \A r \in modified.told : r \in Int /\ r <= MaxRows + steps
    /\ modified = [start |-> modified.start, told |-> modified.told]

ListAttached ==
    IF attached
    THEN /\ change \in Builder /\ Leads(change, Len(start), Len(now), Ids(start), Ids(now))
         /\ ModsAre(change.modifications, now, modified.start)
    ELSE change = NoChange /\ now = <<>>

\* Of the rows that were there when the callback was told last, acc or the change set that was
\* begun knows which were modified.
AccMods ==
    \A i \in Indexes0(told), j \in Indexes0(start) : Row(told, i) = Row(start, j) =>
        /\ j \in acc.modifications => Row(start, j) \in modified.told
        /\ Row(start, j) \in modified.told =>
            j \in acc.modifications \/ Row(start, j) \in modified.start \cup touched

ListAcc ==
    /\ acc \in Builder /\ Leads(acc, Len(told), Len(start), Ids(told), Ids(start))
    /\ acc.modifications \subseteq Indexes0(start)
    /\ AccMods

ListInv ==
    /\ steps \in Nat
    /\ kind = "list" => ListRows /\ ListMarks /\ ListAttached /\ ListAcc

\* What RowsAre says, by the indexes of the rows.
LEMMA RowsHaveIds ==
    ASSUME NEW rows, RowsAre(rows)
    PROVE  /\ Len(rows) \in Nat /\ Rows(Ids(rows), Len(rows))
           /\ Indexes0(rows) = 0 .. Len(rows) - 1
           /\ \A j \in 0 .. Len(rows) - 1 :
                /\ Ids(rows)[j] = rows[j + 1].id /\ Row(rows, j) = rows[j + 1].id
                /\ rows[j + 1].id \in Int /\ rows[j + 1].id <= MaxRows + steps
<1>1. rows \in Seq(RowType) /\ Distinct(rows) /\ Given(rows, MaxRows + steps)  BY DEF RowsAre
<1>2. Len(rows) \in Nat /\ \A k \in 1 .. Len(rows) : rows[k] \in RowType
  BY <1>1, LenProperties, ElementOfSeq
<1>3. \A j \in 0 .. Len(rows) - 1 : j + 1 \in 1 .. Len(rows)  BY <1>2
<1>4. \A j \in 0 .. Len(rows) - 1 : rows[j + 1].id \in Int  BY <1>2, <1>3 DEF RowType
<1>5. \A j \in 0 .. Len(rows) - 1 : rows[j + 1].id <= MaxRows + steps  BY <1>1, <1>3 DEF Given
<1>6. Indexes0(rows) = 0 .. Len(rows) - 1  BY DEF Indexes0
<1>7. \A j \in 0 .. Len(rows) - 1 : Ids(rows)[j] = rows[j + 1].id /\ Row(rows, j) = rows[j + 1].id
  BY <1>6 DEF Ids, Row
<1>8. DOMAIN Ids(rows) = 0 .. Len(rows) - 1  BY <1>6 DEF Ids
<1>9. ASSUME NEW i \in 0 .. Len(rows) - 1, NEW j \in 0 .. Len(rows) - 1, Ids(rows)[i] = Ids(rows)[j]
      PROVE  i = j
  <2>1. rows[i + 1].id = rows[j + 1].id  BY <1>7, <1>9
  <2>2. i + 1 = j + 1  BY <1>1, <1>3, <2>1 DEF Distinct
  <2> QED BY <1>2, <2>2
<1> QED BY <1>2, <1>4, <1>5, <1>6, <1>7, <1>8, <1>9 DEF Rows

\* Nothing has changed, and all rows have gone.
LEMMA NoChangeLeads ==
    ASSUME NEW m \in Nat, NEW old, Rows(old, m)
    PROVE  /\ NoChange \in Builder /\ Leads(NoChange, m, m, old, old)
           /\ NoChange.modifications = {}
<1>1. /\ NoChange.deletions = {} /\ NoChange.insertions = {} /\ NoChange.modifications = {}
      /\ NoChange.moves = <<>> /\ NoChange.mapping = NoMapping
  BY DEF NoChange
<1>2. NoChange \in Builder
  <2>1. <<>> \in Seq(MoveType)  BY EmptySeq
  <2> QED BY <2>1 DEF NoChange, Builder
<1>3. Matches({}, {}, old, old)  BY MatchNothing
<1>4. MovesAre(<<>>, {}, {}, old, old)  BY EmptySeq DEF MovesAre
<1> QED BY <1>1, <1>2, <1>3, <1>4 DEF Leads, Within

\* All rows have gone.
LEMMA AllGone ==
    ASSUME NEW m \in Nat, NEW old, NEW new, Rows(old, m), Rows(new, 0)
    PROVE  LET b == [NoChange EXCEPT !.deletions = 0 .. m - 1] IN
           b \in Builder /\ Leads(b, m, 0, old, new) /\ b.modifications = {}
<1> DEFINE b == [NoChange EXCEPT !.deletions = 0 .. m - 1]
<1>1. /\ b.deletions = 0 .. m - 1 /\ b.insertions = {} /\ b.modifications = {}
      /\ b.moves = <<>> /\ b.mapping = NoMapping /\ b \in Builder
  <2>1. <<>> \in Seq(MoveType)  BY EmptySeq
  <2>2. 0 .. m - 1 \in SUBSET Nat  OBVIOUS
  <2> QED BY <2>1, <2>2 DEF NoChange, Builder
<1>2. DOMAIN old \ (0 .. m - 1) = {} /\ DOMAIN new \ {} = {}  BY DEF Rows
<1>3. Matches(0 .. m - 1, {}, old, new)  BY <1>2 DEF Matches
<1>4. MovesAre(<<>>, 0 .. m - 1, {}, old, new)  BY EmptySeq DEF MovesAre
<1> QED BY <1>1, <1>3, <1>4 DEF Leads, Within

\* What a run of the notifier gives for the list.
LEMMA RanLeads ==
    ASSUME ListRows, ListAttached
    PROVE  /\ Ran(change) \in Builder
           /\ Leads(Ran(change), Len(start), Len(now), Ids(start), Ids(now))
           /\ ModsAre(Ran(change).modifications, now, modified.start \cup touched)
<1> DEFINE m == Len(start)
           n == Len(now)
           old == Ids(start)
           new == Ids(now)
           r == Ran(change)
<1>1. RowsAre(start) /\ RowsAre(now)  BY DEF ListRows
<1>2. m \in Nat /\ n \in Nat /\ Rows(old, m) /\ Rows(new, n) /\ Indexes0(start) = 0 .. m - 1
      /\ Indexes0(now) = 0 .. n - 1
  BY <1>1, RowsHaveIds
<1>3. CASE attached
  <2> DEFINE w == CleanedUp(change)
             M == w.modifications \cup {i \in Indexes0(now) : Row(now, i) \in touched}
  <2>1. change \in Builder /\ Leads(change, m, n, old, new) /\ ModsAre(change.modifications, now, modified.start)
    BY <1>3 DEF ListAttached
  <2>2. r = [w EXCEPT !.modifications = M]  BY <1>3 DEF Ran
  <2> HIDE DEF m, n, old, new
  <2>3. w \in Builder /\ Leads(w, m, n, old, new) /\ w.modifications = change.modifications
    BY <1>2, <2>1, CleanedGood
  <2>4. ModsAre(M, now, modified.start \cup touched)
    <3> HIDE DEF w
    <3> QED BY <2>1, <2>3 DEF ModsAre
  <2>5. M \in SUBSET Nat  BY <1>2, <2>4 DEF ModsAre
  <2> HIDE DEF w, M, r
  <2>6. r \in Builder /\ r.modifications = M
        /\ r.deletions = w.deletions /\ r.insertions = w.insertions /\ r.moves = w.moves
    BY <2>2, <2>3, <2>5 DEF Builder
  <2>7. Leads(r, m, n, old, new)  BY <2>3, <2>6 DEF Leads
  <2> QED BY <2>4, <2>6, <2>7 DEF r, m, n, old, new
<1>4. CASE ~attached
  <2>1. change = NoChange /\ now = <<>>  BY <1>4 DEF ListAttached
  <2>2. n = 0 /\ Indexes0(now) = {}  BY <1>2, <2>1, EmptySeq
  <2>3. ModsAre({}, now, modified.start \cup touched)  BY <2>2 DEF ModsAre
  <2>4. CASE start = <<>>
    <3>1. r = NoChange  BY <1>4, <2>4 DEF Ran
    <3>2. start = now  BY <2>1, <2>4
    <3>3. r \in Builder /\ Leads(r, n, n, new, new) /\ r.modifications = {}
      <4> HIDE DEF r, new, n
      <4> QED BY <1>2, <3>1, NoChangeLeads
    <3> QED BY <2>3, <3>2, <3>3
  <2>5. CASE start # <<>>
    <3>1. r = [NoChange EXCEPT !.deletions = 0 .. m - 1]  BY <1>2, <1>4, <2>1, <2>5 DEF Ran
    <3>2. Rows(new, 0)  BY <1>2, <2>2
    <3> HIDE DEF r, new, old, m, n
    <3>3. r \in Builder  BY <1>2, <3>1, <3>2, AllGone
    <3>4. Leads(r, m, 0, old, new)  BY <1>2, <3>1, <3>2, AllGone
    <3>5. r.modifications = {}  BY <1>2, <3>1, <3>2, AllGone
    <3> QED BY <2>2, <2>3, <3>3, <3>4, <3>5 DEF r, new, old, m, n
  <2> QED BY <2>4, <2>5
<1> QED BY <1>3, <1>4

\* The change set leads from what the callback was told to what is there now, with the
\* modifications that it was not told.
SinceTold(r) ==
    /\ r \in Builder /\ Leads(r, Len(told), Len(now), Ids(told), Ids(now))
    /\ r.modifications \subseteq Indexes0(now)
    /\ \A i \in Indexes0(told), j \in Indexes0(now) : Row(told, i) = Row(now, j) =>
            (j \in r.modifications <=> Row(now, j) \in modified.told)

\* What the callback has not been told: from what it was told to what is there now.
LEMMA AccLeads ==
    ASSUME ListRows, ListMarks, ListAcc, NEW c \in Builder,
           Leads(c, Len(start), Len(now), Ids(start), Ids(now)),
           ModsAre(c.modifications, now, modified.start \cup touched)
    PROVE  SinceTold(Merge(acc, c))
<1> DEFINE m == Len(told)
           p == Len(start)
           n == Len(now)
           old == Ids(told)
           mid == Ids(start)
           new == Ids(now)
           r == Merge(acc, c)
           A == acc.modifications
           C == c.modifications
           R == r.modifications
<1>1. RowsAre(told) /\ RowsAre(start) /\ RowsAre(now)  BY DEF ListRows
<1>2. /\ m \in Nat /\ Rows(old, m) /\ Indexes0(told) = 0 .. m - 1
      /\ \A j \in 0 .. m - 1 : old[j] = Row(told, j)
  BY <1>1, RowsHaveIds
<1>3. /\ p \in Nat /\ Rows(mid, p) /\ Indexes0(start) = 0 .. p - 1
      /\ \A j \in 0 .. p - 1 : mid[j] = Row(start, j)
  BY <1>1, RowsHaveIds
<1>4. /\ n \in Nat /\ Rows(new, n) /\ Indexes0(now) = 0 .. n - 1
      /\ \A j \in 0 .. n - 1 : new[j] = Row(now, j)
  BY <1>1, RowsHaveIds
<1>5. c \in Builder /\ Leads(c, p, n, mid, new) /\ ModsAre(C, now, modified.start \cup touched)
  OBVIOUS
<1>6. acc \in Builder /\ Leads(acc, m, p, old, mid) /\ A \subseteq 0 .. p - 1  BY <1>3 DEF ListAcc
<1>7. C \subseteq 0 .. n - 1 /\ \A j \in 0 .. n - 1 : j \in C <=> new[j] \in modified.start \cup touched
  BY <1>4, <1>5 DEF ModsAre
<1>8. ASSUME NEW i \in 0 .. m - 1, NEW l \in 0 .. n - 1, old[i] = new[l]
      PROVE  \E j \in 0 .. p - 1 : mid[j] = old[i]
  <2>1. i \in Indexes0(told) /\ l \in Indexes0(now) /\ Row(told, i) = Row(now, l) /\ old[i] = Row(told, i)
    BY <1>8, <1>2, <1>4
  <2>2. PICK j \in Indexes0(start) : Row(start, j) = Row(told, i)  BY <2>1 DEF ListRows
  <2>3. j \in 0 .. p - 1 /\ mid[j] = Row(start, j)  BY <1>3
  <2> QED BY <2>1, <2>2, <2>3
<1>9. r = Merge(acc, c)  OBVIOUS
<1>10. \A i \in 0 .. m - 1, j \in 0 .. p - 1 : old[i] = mid[j] =>
            /\ j \in A => mid[j] \in modified.told
            /\ mid[j] \in modified.told => j \in A \/ mid[j] \in modified.start \cup touched
  <2>1. AccMods  BY DEF ListAcc
  <2> HIDE DEF m, p, old, mid, A
  <2> QED BY <1>2, <1>3, <2>1 DEF AccMods, A
<1>11. modified.start \cup touched \subseteq modified.told  BY DEF ListMarks
<1> HIDE DEF m, p, n, old, mid, new, r
<1>12. r \in Builder  BY <1>2, <1>3, <1>4, <1>5, <1>6, <1>7, <1>8, <1>9, MergeLeads
<1>13. Leads(r, m, n, old, new)  BY <1>2, <1>3, <1>4, <1>5, <1>6, <1>7, <1>8, <1>9, MergeLeads
<1>14. ModifiedSince(R, A, C, m, n, old, mid, new)
  BY <1>2, <1>3, <1>4, <1>5, <1>6, <1>7, <1>8, <1>9, MergeLeads
<1>15. /\ R \subseteq 0 .. n - 1 /\ C \subseteq R
       /\ \A l \in R : l \in C \/ \E j \in A : mid[j] = new[l]
       /\ \A j \in A, l \in 0 .. n - 1, i \in 0 .. m - 1 : mid[j] = new[l] /\ old[i] = new[l] => l \in R
  BY <1>14 DEF ModifiedSince
<1> HIDE DEF A, C, R
<1>16. ASSUME NEW i \in 0 .. m - 1, NEW l \in 0 .. n - 1, old[i] = new[l]
       PROVE  l \in R <=> new[l] \in modified.told
  <2>1. ASSUME l \in R PROVE new[l] \in modified.told
    <3>1. CASE l \in C  BY <1>7, <1>11, <3>1
    <3>2. CASE \E j \in A : mid[j] = new[l]
      <4>1. PICK j \in A : mid[j] = new[l]  BY <3>2
      <4> QED BY <1>6, <1>10, <1>16, <4>1
    <3> QED BY <1>15, <2>1, <3>1, <3>2
  <2>2. ASSUME new[l] \in modified.told PROVE l \in R
    <3>1. PICK j \in 0 .. p - 1 : mid[j] = old[i]  BY <1>8, <1>16
    <3>2. mid[j] = new[l]  BY <1>16, <3>1
    <3>3. j \in A \/ new[l] \in modified.start \cup touched  BY <1>10, <2>2, <3>1, <3>2
    <3>4. CASE j \in A  BY <1>15, <1>16, <3>2, <3>4
    <3>5. CASE new[l] \in modified.start \cup touched  BY <1>7, <1>15, <3>5
    <3> QED BY <3>3, <3>4, <3>5
  <2> QED BY <2>1, <2>2
<1> QED BY <1>2, <1>4, <1>12, <1>13, <1>15, <1>16 DEF SinceTold, r, R, m, n, old, new

\* So it is for a list.
LEMMA AllOfListLeads ==
    ASSUME ListRows, ListMarks, ListAttached, ListAcc
    PROVE  SinceTold(AllOfList)
BY RanLeads, AccLeads DEF AllOfList

\* ListInv gives ListFaithful.
LEMMA ListInvGives == ListInv => ListFaithful
<1> SUFFICES ASSUME ListInv, kind = "list"
             PROVE  /\ Faithful(Finalized(Ran(change)), Ids(start), Ids(now), modified.start \cup touched)
                    /\ Faithful(Finalized(AllOfList), Ids(told), Ids(now), modified.told)
  BY DEF ListFaithful
<1>1. ListRows /\ ListMarks /\ ListAttached /\ ListAcc  BY DEF ListInv
<1>2. RowsAre(told) /\ RowsAre(start) /\ RowsAre(now)  BY <1>1 DEF ListRows
<1> DEFINE m == Len(told)
           p == Len(start)
           n == Len(now)
           old == Ids(told)
           mid == Ids(start)
           new == Ids(now)
           c == Ran(change)
           r == AllOfList
<1>3. /\ m \in Nat /\ Rows(old, m) /\ Indexes0(told) = 0 .. m - 1
      /\ \A j \in 0 .. m - 1 : old[j] = Row(told, j)
  BY <1>2, RowsHaveIds
<1>4. p \in Nat /\ Rows(mid, p)  BY <1>2, RowsHaveIds
<1>5. /\ n \in Nat /\ Rows(new, n) /\ Indexes0(now) = 0 .. n - 1
      /\ \A j \in 0 .. n - 1 : new[j] = Row(now, j)
  BY <1>2, RowsHaveIds
<1>6. c \in Builder /\ Leads(c, p, n, mid, new) /\ ModsAre(c.modifications, now, modified.start \cup touched)
  BY <1>1, RanLeads
<1>7. /\ r \in Builder /\ Leads(r, m, n, old, new) /\ r.modifications \subseteq Indexes0(now)
      /\ \A i \in Indexes0(told), j \in Indexes0(now) : Row(told, i) = Row(now, j) =>
                (j \in r.modifications <=> Row(now, j) \in modified.told)
  BY <1>1, AllOfListLeads DEF SinceTold
<1> HIDE DEF m, p, n, old, mid, new, c, r
<1>8. Faithful(Finalized(c), mid, new, modified.start \cup touched)
  <2>1. c.modifications \subseteq 0 .. n - 1
        /\ \A j \in 0 .. n - 1 : j \in c.modifications <=> new[j] \in modified.start \cup touched
    BY <1>5, <1>6 DEF ModsAre
  <2> QED BY <1>4, <1>5, <1>6, <2>1, FaithfulFrom
<1>9. Faithful(Finalized(r), old, new, modified.told)
  <2>1. r.modifications \subseteq 0 .. n - 1
        /\ \A i \in 0 .. m - 1, j \in 0 .. n - 1 : old[i] = new[j] =>
              (j \in r.modifications <=> new[j] \in modified.told)
    BY <1>3, <1>5, <1>7
  <2> QED BY <1>3, <1>5, <1>7, <2>1, FaithfulFrom
<1> QED BY <1>8, <1>9 DEF m, p, n, old, mid, new, c, r

RowsOf(rows) == {Row(rows, j) : j \in Indexes0(rows)}

\* b leads from old to the rows and has the modifications of those in S.
Follows(b, rows, m, old, S) ==
    /\ rows \in Seq(RowType) /\ Distinct(rows)
    /\ b \in Builder /\ Leads(b, m, Len(rows), old, Ids(rows))
    /\ ModsAre(b.modifications, rows, S)

\* The same of any rows.
LEMMA IdsOfRows ==
    ASSUME NEW rows \in Seq(RowType)
    PROVE  /\ Len(rows) \in Nat /\ Indexes0(rows) = 0 .. Len(rows) - 1
           /\ DOMAIN Ids(rows) = 0 .. Len(rows) - 1
           /\ \A j \in 0 .. Len(rows) - 1 : Ids(rows)[j] = rows[j + 1].id /\ Row(rows, j) = rows[j + 1].id
           /\ Distinct(rows) <=> Rows(Ids(rows), Len(rows))
<1>1. Len(rows) \in Nat  BY LenProperties
<1>2. Indexes0(rows) = 0 .. Len(rows) - 1  BY DEF Indexes0
<1>3. DOMAIN Ids(rows) = 0 .. Len(rows) - 1  BY <1>2 DEF Ids
<1>4. \A j \in 0 .. Len(rows) - 1 : Ids(rows)[j] = rows[j + 1].id /\ Row(rows, j) = rows[j + 1].id
  BY <1>2 DEF Ids, Row
<1>5. ASSUME Distinct(rows), NEW i \in 0 .. Len(rows) - 1, NEW j \in 0 .. Len(rows) - 1,
             Ids(rows)[i] = Ids(rows)[j]
      PROVE  i = j
  <2>1. i + 1 \in 1 .. Len(rows) /\ j + 1 \in 1 .. Len(rows)  BY <1>1
  <2>2. rows[i + 1].id = rows[j + 1].id  BY <1>4, <1>5
  <2>3. i + 1 = j + 1  BY <1>5, <2>1, <2>2 DEF Distinct
  <2> QED BY <1>1, <2>3
<1>6. ASSUME \A i, j \in 0 .. Len(rows) - 1 : Ids(rows)[i] = Ids(rows)[j] => i = j,
             NEW k \in 1 .. Len(rows), NEW l \in 1 .. Len(rows), rows[k].id = rows[l].id
      PROVE  k = l
  <2>1. k - 1 \in 0 .. Len(rows) - 1 /\ l - 1 \in 0 .. Len(rows) - 1 /\ (k - 1) + 1 = k /\ (l - 1) + 1 = l
    BY <1>1
  <2>2. Ids(rows)[k - 1] = rows[k].id /\ Ids(rows)[l - 1] = rows[l].id  BY <1>4, <2>1
  <2>3. k - 1 = l - 1  BY <1>6, <2>1, <2>2
  <2> QED BY <2>1, <2>3
<1>7. Distinct(rows) <=> Rows(Ids(rows), Len(rows))
  <2>1. Distinct(rows) => Rows(Ids(rows), Len(rows))  BY <1>3, <1>5 DEF Rows
  <2>2. Rows(Ids(rows), Len(rows)) => Distinct(rows)  BY <1>6 DEF Rows, Distinct
  <2> QED BY <2>1, <2>2
<1> QED BY <1>1, <1>2, <1>3, <1>4, <1>7

\* The rows are carried over to next, but for those at X; at Y there is at most one that is new.
Carried(rows, next, g, X, Y, S) ==
    /\ \A j \in 0 .. Len(rows) - 1 : j \notin X => g[j] \in 0 .. Len(next) - 1 /\ next[g[j] + 1] = rows[j + 1]
    /\ \A l \in 0 .. Len(next) - 1 : l \in Y \/ \E j \in 0 .. Len(rows) - 1 : j \notin X /\ g[j] = l
    /\ \A l \in Y, k \in Y : l = k
    /\ \A l \in Y : l \in 0 .. Len(next) - 1 /\ next[l + 1].id \notin S /\ next[l + 1].id \notin RowsOf(rows)

\* Rows that are carried over stay distinct, and their modifications go with them.
LEMMA RowsCarried ==
    ASSUME NEW rows \in Seq(RowType), Distinct(rows), NEW next \in Seq(RowType),
           NEW g, NEW X, NEW Y, NEW S, Carried(rows, next, g, X, Y, S)
    PROVE  /\ Distinct(next)
           /\ RowsOf(next) \subseteq RowsOf(rows) \cup {next[l + 1].id : l \in Y}
           /\ \A B, C : ModsAre(B, rows, S) /\ C = {g[j] : j \in B \ X} => ModsAre(C, next, S)
<1> DEFINE n == Len(rows)
           p == Len(next)
           old == Ids(rows)
           new == Ids(next)
<1>1. /\ n \in Nat /\ Indexes0(rows) = 0 .. n - 1 /\ Rows(old, n)
      /\ \A j \in 0 .. n - 1 : old[j] = rows[j + 1].id /\ Row(rows, j) = rows[j + 1].id
  BY IdsOfRows
<1>2. /\ p \in Nat /\ Indexes0(next) = 0 .. p - 1 /\ DOMAIN new = 0 .. p - 1
      /\ \A j \in 0 .. p - 1 : new[j] = next[j + 1].id /\ Row(next, j) = next[j + 1].id
      /\ Distinct(next) <=> Rows(new, p)
  BY IdsOfRows
<1>3. ASSUME NEW j \in 0 .. n - 1, j \notin X PROVE g[j] \in 0 .. p - 1 /\ new[g[j]] = old[j]
  <2>1. g[j] \in 0 .. p - 1 /\ next[g[j] + 1] = rows[j + 1]  BY <1>3 DEF Carried
  <2> QED BY <1>1, <1>2, <2>1
<1>4. \A l \in 0 .. p - 1 : l \in Y \/ \E j \in 0 .. n - 1 : j \notin X /\ g[j] = l  BY DEF Carried
<1>5. \A l \in Y, k \in Y : l = k  BY DEF Carried
<1>6. ASSUME NEW l \in Y
      PROVE  l \in 0 .. p - 1 /\ new[l] \notin S /\ \A j \in 0 .. n - 1 : old[j] # new[l]
  <2>1. l \in 0 .. p - 1 /\ next[l + 1].id \notin S /\ next[l + 1].id \notin RowsOf(rows)
    BY DEF Carried
  <2>2. \A j \in 0 .. n - 1 : rows[j + 1].id \in RowsOf(rows)  BY <1>1 DEF RowsOf
  <2> QED BY <1>1, <1>2, <2>1, <2>2
<1>7. RowsOf(next) \subseteq RowsOf(rows) \cup {next[l + 1].id : l \in Y}
  <2> SUFFICES ASSUME NEW l \in 0 .. p - 1
               PROVE  Row(next, l) \in RowsOf(rows) \cup {next[k + 1].id : k \in Y}
    BY <1>2 DEF RowsOf
  <2>1. CASE l \in Y  BY <1>2, <2>1
  <2>2. CASE l \notin Y
    <3>1. PICK j \in 0 .. n - 1 : j \notin X /\ g[j] = l  BY <1>4, <2>2
    <3>2. Row(next, l) = Row(rows, j)
      <4>1. old[j] = Row(rows, j)  BY <1>1
      <4>2. new[l] = Row(next, l)  BY <1>2
      <4>3. new[g[j]] = old[j]  BY <1>3, <3>1, Zenon
      <4> QED BY <3>1, <4>1, <4>2, <4>3, Zenon
    <3> QED BY <1>1, <3>2 DEF RowsOf
  <2> QED BY <2>1, <2>2
<1> HIDE DEF n, p, old, new
<1>8. ASSUME NEW i \in 0 .. p - 1, NEW k \in 0 .. p - 1, new[i] = new[k]
      PROVE  i = k
  <2>1. CASE i \in Y /\ k \in Y  BY <1>5, <2>1
  <2>2. CASE i \notin Y /\ k \notin Y
    <3>1. PICK a \in 0 .. n - 1 : a \notin X /\ g[a] = i  BY <1>4, <2>2
    <3>2. PICK c \in 0 .. n - 1 : c \notin X /\ g[c] = k  BY <1>4, <2>2
    <3>3. old[a] = old[c]  BY <1>3, <1>8, <3>1, <3>2
    <3> QED BY <1>1, <3>1, <3>2, <3>3 DEF Rows
  <2>3. CASE i \in Y /\ k \notin Y
    <3>1. PICK c \in 0 .. n - 1 : c \notin X /\ g[c] = k  BY <1>4, <2>3
    <3> QED BY <1>3, <1>6, <1>8, <2>3, <3>1
  <2>4. CASE i \notin Y /\ k \in Y
    <3>1. PICK c \in 0 .. n - 1 : c \notin X /\ g[c] = i  BY <1>4, <2>4
    <3> QED BY <1>3, <1>6, <1>8, <2>4, <3>1
  <2> QED BY <2>1, <2>2, <2>3, <2>4
<1>9. Distinct(next)
  <2>1. Rows(new, p)  BY <1>2, <1>8 DEF Rows
  <2> QED BY <1>2, <2>1
<1>10. ASSUME NEW B, NEW C, ModsAre(B, rows, S), C = {g[j] : j \in B \ X}
       PROVE  ModsAre(C, next, S)
  <2>1. \A j : j \in B <=> j \in 0 .. n - 1 /\ old[j] \in S  BY <1>1, <1>10 DEF ModsAre
  <2>2. ASSUME NEW l \in C PROVE l \in 0 .. p - 1 /\ new[l] \in S
    <3>1. PICK j \in B \ X : l = g[j]  BY <1>10
    <3> QED BY <1>3, <2>1, <3>1
  <2>3. ASSUME NEW l \in 0 .. p - 1, new[l] \in S PROVE l \in C
    <3>1. PICK j \in 0 .. n - 1 : j \notin X /\ g[j] = l  BY <1>4, <1>6, <2>3
    <3> QED BY <1>3, <1>10, <2>1, <2>3, <3>1
  <2>4. C = {l \in 0 .. p - 1 : new[l] \in S}  BY <2>2, <2>3
  <2>5. \A l \in 0 .. p - 1 : Row(next, l) = new[l]  BY <1>2
  <2> QED BY <1>2, <2>4, <2>5 DEF ModsAre
<1> QED BY <1>7, <1>9, <1>10

Counted(g, S) == {g[j] : j \in S}

\* So does a change set that goes on to lead to the next rows.
LEMMA FollowsNext ==
    ASSUME NEW m, NEW old, NEW rows, NEW b, NEW S, Follows(b, rows, m, old, S),
           NEW next \in Seq(RowType), NEW g, NEW X, NEW Y, Carried(rows, next, g, X, Y, S),
           NEW c, Goes(c, m, Len(next), old, Ids(next), Counted(g, b.modifications \ X))
    PROVE  /\ Follows(c, next, m, old, S)
           /\ RowsOf(next) \subseteq RowsOf(rows) \cup {next[l + 1].id : l \in Y}
<1>1. rows \in Seq(RowType) /\ Distinct(rows) /\ ModsAre(b.modifications, rows, S)  BY DEF Follows
<1>2. c \in Builder /\ Leads(c, m, Len(next), old, Ids(next)) /\ c.modifications = Counted(g, b.modifications \ X)
  BY DEF Goes
<1>3. Distinct(next)  BY <1>1, RowsCarried
<1>4. RowsOf(next) \subseteq RowsOf(rows) \cup {next[l + 1].id : l \in Y}  BY <1>1, RowsCarried
<1>5. \A B, E : ModsAre(B, rows, S) /\ E = {g[j] : j \in B \ X} => ModsAre(E, next, S)
  BY <1>1, RowsCarried
<1>6. ModsAre(Counted(g, b.modifications \ X), next, S)  BY <1>1, <1>5, Zenon DEF Counted
<1> QED BY <1>2, <1>3, <1>4, <1>6 DEF Follows

\* A change set that goes on to follow the rows, to which there is one added.
Grown(c, next, m, old, S, rows, id) ==
    Follows(c, next, m, old, S) /\ RowsOf(next) \subseteq RowsOf(rows) \cup {id}

\* link_list_insert
LEMMA ListInserted ==
    ASSUME NEW m \in Nat, NEW old, Rows(old, m), NEW rows, NEW b, NEW S, Follows(b, rows, m, old, S),
           NEW t \in 0 .. Len(rows), NEW r \in RowType, r.id \notin S, r.id \notin RowsOf(rows),
           \A i \in 0 .. m - 1 : old[i] # r.id
    PROVE  Grown(Inserted(b, t, TRUE), InsertAt(rows, t + 1, r), m, old, S, rows, r.id)
<1> DEFINE n == Len(rows)
           next == InsertAt(rows, t + 1, r)
           c == Inserted(b, t, TRUE)
           new == Ids(rows)
           new2 == Ids(next)
           g == [j \in 0 .. n - 1 |-> Up(t, j)]
           B == b.modifications
<1>1. rows \in Seq(RowType) /\ Distinct(rows) /\ b \in Builder /\ Leads(b, m, n, old, new)
      /\ ModsAre(B, rows, S)
  BY DEF Follows
<1>2. /\ n \in Nat /\ Indexes0(rows) = 0 .. n - 1 /\ Rows(new, n)
      /\ \A j \in 0 .. n - 1 : new[j] = rows[j + 1].id
  BY <1>1, IdsOfRows
<1>3. next \in Seq(RowType)  BY <1>1, RowInserted
<1>4. Len(next) = n + 1  BY <1>1, RowInserted
<1>5. next[t + 1] = r  BY <1>1, RowInserted
<1>6. \A j \in 0 .. n - 1 : next[Up(t, j) + 1] = rows[j + 1]  BY <1>1, RowInserted
<1>7. B \subseteq 0 .. n - 1  BY <1>1, <1>2 DEF ModsAre
<1>8. t \in Int /\ t \in 0 .. n  BY <1>2
<1>9. \A j \in 0 .. n - 1 : g[j] = Up(t, j) /\ Up(t, j) \in 0 .. n  BY <1>2, <1>8 DEF Up
<1>10. \A l \in 0 .. n : l = t \/ \E j \in 0 .. n - 1 : g[j] = l
  <2> SUFFICES ASSUME NEW l \in 0 .. n, l # t PROVE \E j \in 0 .. n - 1 : g[j] = l  OBVIOUS
  <2>1. Down(t, l) \in 0 .. n - 1 /\ l = Up(t, Down(t, l))  BY <1>2, <1>8 DEF Up, Down
  <2> QED BY <1>9, <2>1
<1>11. Raised(B, t) = Counted(g, B \ {})  BY <1>7, <1>9 DEF Raised, Counted
<1> HIDE DEF next, c, new, new2, n, g, B
<1>12. DOMAIN new2 = 0 .. n /\ \A j \in 0 .. n : new2[j] = next[j + 1].id
  <2>1. (n + 1) - 1 = n  BY <1>2
  <2> QED BY <1>3, <1>4, <2>1, IdsOfRows DEF new2
<1>13. new2[t] = r.id /\ \A j \in 0 .. n - 1 : new2[Up(t, j)] = new[j]
  BY <1>2, <1>5, <1>6, <1>8, <1>9, <1>12
<1>14. Goes(c, m, n + 1, old, new2, Raised(B, t))
  <2>1. \A i \in 0 .. m - 1 : old[i] # new2[t]  BY <1>13
  <2>2. \A j \in 0 .. n - 1 : new2[Up(t, j)] = new[j]  BY <1>13
  <2>3. DOMAIN new2 = 0 .. n  BY <1>12
  <2>4. n \in Nat /\ Rows(new, n) /\ b \in Builder /\ Leads(b, m, n, old, new)  BY <1>1, <1>2
  <2>5. Goes(Inserted(b, t, TRUE), m, n + 1, old, new2, Raised(b.modifications, t))
    BY <1>8, <2>1, <2>2, <2>3, <2>4, LeadsInserted, Zenon
  <2> QED BY <2>5 DEF c, B
<1>15. Carried(rows, next, g, {}, {t}, S)
  <2>1. (n + 1) - 1 = n  BY <1>2
  <2> QED BY <1>4, <1>5, <1>6, <1>8, <1>9, <1>10, <2>1 DEF Carried, n
<1>16. Goes(c, m, Len(next), old, Ids(next), Counted(g, b.modifications \ {}))
  BY <1>4, <1>11, <1>14 DEF B, new2
<1>17. Follows(c, next, m, old, S)  BY <1>3, <1>15, <1>16, FollowsNext
<1>18. RowsOf(next) \subseteq RowsOf(rows) \cup {next[l + 1].id : l \in {t}}
  BY <1>3, <1>15, <1>16, FollowsNext
<1> QED BY <1>5, <1>17, <1>18 DEF Grown, next, c

\* link_list_erase
LEMMA ListErased ==
    ASSUME NEW m \in Nat, NEW old, Rows(old, m), NEW rows, NEW b, NEW S, Follows(b, rows, m, old, S),
           NEW t \in 0 .. Len(rows) - 1
    PROVE  /\ Follows(Erased(b, t), RemoveAt(rows, t + 1), m, old, S)
           /\ RowsOf(RemoveAt(rows, t + 1)) \subseteq RowsOf(rows)
<1> DEFINE n == Len(rows)
           next == RemoveAt(rows, t + 1)
           c == Erased(b, t)
           new == Ids(rows)
           new2 == Ids(next)
           g == [j \in 0 .. n - 1 |-> Down(t, j)]
           B == b.modifications
<1>1. rows \in Seq(RowType) /\ Distinct(rows) /\ b \in Builder /\ Leads(b, m, n, old, new)
      /\ ModsAre(B, rows, S)
  BY DEF Follows
<1>2. /\ n \in Nat /\ Indexes0(rows) = 0 .. n - 1 /\ Rows(new, n)
      /\ \A j \in 0 .. n - 1 : new[j] = rows[j + 1].id
  BY <1>1, IdsOfRows
<1>3. next \in Seq(RowType)  BY <1>1, RowRemoved
<1>4. Len(next) = n - 1  BY <1>1, RowRemoved
<1>5. \A j \in 0 .. n - 1 : j # t => next[Down(t, j) + 1] = rows[j + 1]  BY <1>1, RowRemoved
<1>6. B \subseteq 0 .. n - 1  BY <1>1, <1>2 DEF ModsAre
<1>7. t \in Int /\ t \in 0 .. n - 1 /\ n \in Nat \ {0}  BY <1>2
<1>8. \A j \in 0 .. n - 1 : j # t => g[j] = Down(t, j) /\ Down(t, j) \in 0 .. n - 2
  BY <1>2, <1>7 DEF Down
<1>9. ASSUME NEW l \in 0 .. n - 2 PROVE \E j \in 0 .. n - 1 : j # t /\ g[j] = l
  <2>1. Up(t, l) \in 0 .. n - 1 /\ Up(t, l) # t /\ l = Down(t, Up(t, l))  BY <1>2, <1>7 DEF Up, Down
  <2> QED BY <1>8, <2>1
<1>10. Lowered(B, t) = Counted(g, B \ {t})  BY <1>6, <1>8 DEF Lowered, Counted
<1> HIDE DEF next, c, new, new2, n, g, B
<1>11. (n - 1) - 1 = n - 2 /\ n - 1 \in Nat  BY <1>7
<1>12. DOMAIN new2 = 0 .. n - 2 /\ \A j \in 0 .. n - 2 : new2[j] = next[j + 1].id
  BY <1>3, <1>4, <1>11, IdsOfRows DEF new2
<1>13. \A j \in 0 .. n - 1 : j # t => new2[Down(t, j)] = new[j]  BY <1>2, <1>5, <1>7, <1>8, <1>12
<1>14. Goes(c, m, n - 1, old, new2, Lowered(B, t))
  <2>1. DOMAIN new2 = 0 .. n - 2  BY <1>12
  <2> QED BY <1>1, <1>2, <1>7, <1>13, <2>1, LeadsErased, SMTT(30) DEF c, B
<1>15. Carried(rows, next, g, {t}, {}, S)  BY <1>4, <1>11, <1>5, <1>7, <1>8, <1>9 DEF Carried, n
<1>16. Goes(c, m, Len(next), old, Ids(next), Counted(g, b.modifications \ {t}))
  BY <1>4, <1>10, <1>14 DEF B, new2
<1>17. Follows(c, next, m, old, S)  BY <1>3, <1>15, <1>16, FollowsNext
<1>18. RowsOf(next) \subseteq RowsOf(rows) \cup {next[l + 1].id : l \in {}}
  BY <1>3, <1>15, <1>16, FollowsNext
<1> QED BY <1>17, <1>18 DEF next, c

\* link_list_move
LEMMA ListMoved ==
    ASSUME NEW m \in Nat, NEW old, Rows(old, m), NEW rows, NEW b, NEW S, Follows(b, rows, m, old, S),
           NEW f \in 0 .. Len(rows) - 1, NEW t \in 0 .. Len(rows) - 1
    PROVE  LET next == InsertAt(RemoveAt(rows, f + 1), t + 1, rows[f + 1]) IN
           Follows(Moved(b, f, t), next, m, old, S) /\ RowsOf(next) \subseteq RowsOf(rows)
<1> DEFINE n == Len(rows)
           next == InsertAt(RemoveAt(rows, f + 1), t + 1, rows[f + 1])
           c == Moved(b, f, t)
           new == Ids(rows)
           new2 == Ids(next)
           g == [j \in 0 .. n - 1 |-> Place(f, t, j)]
           B == b.modifications
<1>1. rows \in Seq(RowType) /\ Distinct(rows) /\ b \in Builder /\ Leads(b, m, n, old, new)
      /\ ModsAre(B, rows, S)
  BY DEF Follows
<1>2. /\ n \in Nat /\ Indexes0(rows) = 0 .. n - 1 /\ Rows(new, n)
      /\ \A j \in 0 .. n - 1 : new[j] = rows[j + 1].id
  BY <1>1, IdsOfRows
<1>3. next \in Seq(RowType)  BY <1>1, RowPlaced
<1>4. Len(next) = n  BY <1>1, RowPlaced
<1>5. \A j \in 0 .. n - 1 : next[Place(f, t, j) + 1] = rows[j + 1]  BY <1>1, RowPlaced
<1>6. B \subseteq 0 .. n - 1  BY <1>1, <1>2 DEF ModsAre
<1>7. f \in 0 .. n - 1 /\ t \in 0 .. n - 1 /\ n \in Nat \ {0}  BY <1>2
<1>8. \A j \in 0 .. n - 1 : g[j] = Place(f, t, j) /\ Place(f, t, j) \in 0 .. n - 1
  BY <1>2, <1>7, PlaceWorks
<1>9. \A l \in 0 .. n - 1 : \E j \in 0 .. n - 1 : g[j] = l
  <2>1. n \in Nat  BY <1>7
  <2>2. f \in 0 .. n - 1  BY <1>7
  <2>3. t \in 0 .. n - 1  BY <1>7
  <2> HIDE DEF n, g
  <2> SUFFICES ASSUME NEW l \in 0 .. n - 1 PROVE \E j \in 0 .. n - 1 : g[j] = l  OBVIOUS
  <2>4. Place(t, f, l) \in 0 .. n - 1 /\ Place(f, t, Place(t, f, l)) = l
    BY <2>1, <2>2, <2>3, SMT DEF Place, Up, Down
  <2> QED BY <1>8, <2>4
<1>10. Relocated(B, f, t) = Counted(g, B \ {})  BY <1>6, <1>8 DEF Relocated, Counted
<1> HIDE DEF next, c, new, new2, n, g, B
<1>11. DOMAIN new2 = 0 .. n - 1 /\ \A j \in 0 .. n - 1 : new2[j] = next[j + 1].id
  BY <1>3, <1>4, IdsOfRows DEF new2
<1>12. ASSUME NEW j \in 0 .. n - 1
       PROVE  new2[Place(f, t, j)] = new[j]
  <2>1. Place(f, t, j) \in 0 .. n - 1  BY <1>8
  <2>2. new2[Place(f, t, j)] = next[Place(f, t, j) + 1].id  BY <1>11, <2>1
  <2> QED BY <1>2, <1>5, <2>2
<1>13. Goes(c, m, n, old, new2, Relocated(B, f, t))
  <2>1. DOMAIN new2 = 0 .. n - 1  BY <1>11
  <2>2. n \in Nat \ {0} /\ Rows(new, n) /\ b \in Builder /\ Leads(b, m, n, old, new)
    BY <1>1, <1>2, <1>7
  <2>3. Goes(Moved(b, f, t), m, n, old, new2, Relocated(b.modifications, f, t))
    BY <1>7, <1>12, <2>1, <2>2, LeadsMoved, SMT
  <2> QED BY <2>3 DEF c, B
<1>14. Carried(rows, next, g, {}, {}, S)
  <2>1. ASSUME NEW j \in 0 .. n - 1
        PROVE  g[j] \in 0 .. n - 1 /\ next[g[j] + 1] = rows[j + 1]
    <3>1. g[j] = Place(f, t, j) /\ Place(f, t, j) \in 0 .. n - 1  BY <1>8
    <3> QED BY <1>5, <3>1
  <2> QED BY <1>4, <1>9, <2>1 DEF Carried, n
<1>15. Goes(c, m, Len(next), old, Ids(next), Counted(g, b.modifications \ {}))
  BY <1>4, <1>10, <1>13 DEF B, new2
<1>16. Follows(c, next, m, old, S)  BY <1>3, <1>14, <1>15, FollowsNext
<1>17. RowsOf(next) \subseteq RowsOf(rows) \cup {next[l + 1].id : l \in {}}
  BY <1>3, <1>14, <1>15, FollowsNext
<1> QED BY <1>16, <1>17 DEF next, c

\* link_list_clear
LEMMA ListCleared ==
    ASSUME NEW m \in Nat, NEW old, Rows(old, m), NEW rows, NEW b, NEW S, Follows(b, rows, m, old, S)
    PROVE  Follows(Cleared(b, Len(rows)), <<>>, m, old, S) /\ RowsOf(<<>>) = {}
<1> DEFINE n == Len(rows)
           c == Cleared(b, n)
           new == Ids(rows)
           next == Ids(<<>>)
<1>1. rows \in Seq(RowType) /\ Distinct(rows) /\ b \in Builder /\ Leads(b, m, n, old, new)
  BY DEF Follows
<1>2. n \in Nat /\ Rows(new, n)  BY <1>1, IdsOfRows
<1>3. <<>> \in Seq(RowType) /\ Len(<<>>) = 0 /\ Distinct(<<>>)  BY EmptySeq DEF Distinct
<1>4. Indexes0(<<>>) = {} /\ DOMAIN next = {}
  <2>1. Indexes0(<<>>) = {}  BY <1>3 DEF Indexes0
  <2> QED BY <2>1 DEF Ids
<1> HIDE DEF n, c, new, next
<1>5. Goes(c, m, 0, old, next, {})  BY <1>1, <1>2, <1>4, LeadsCleared, SMT DEF c
<1>6. ModsAre({}, <<>>, S)  BY <1>4 DEF ModsAre
<1> QED BY <1>3, <1>4, <1>5, <1>6 DEF Goes, Follows, RowsOf, next, c, n

\* link_list_set
LEMMA ListModified ==
    ASSUME NEW m \in Nat, NEW old, Rows(old, m), NEW rows, NEW b, NEW S, Follows(b, rows, m, old, S),
           NEW t \in 0 .. Len(rows) - 1
    PROVE  Follows(Modified(b, t), rows, m, old, S \cup {Row(rows, t)})
<1> DEFINE n == Len(rows)
           c == Modified(b, t)
<1>1. rows \in Seq(RowType) /\ Distinct(rows) /\ b \in Builder /\ Leads(b, m, n, old, Ids(rows))
      /\ ModsAre(b.modifications, rows, S)
  BY DEF Follows
<1>2. n \in Nat /\ Indexes0(rows) = 0 .. n - 1 /\ Rows(Ids(rows), n)
      /\ \A j \in 0 .. n - 1 : Ids(rows)[j] = Row(rows, j)
  BY <1>1, IdsOfRows
<1>3. /\ c \in Builder /\ c.modifications = b.modifications \cup {t}
      /\ c.deletions = b.deletions /\ c.insertions = b.insertions /\ c.moves = b.moves
  <2>1. b.modifications \cup {t} \in SUBSET Nat  BY <1>1, <1>2 DEF Builder
  <2> QED BY <1>1, <2>1 DEF Modified, Builder
<1> HIDE DEF c, n
<1>4. Leads(c, m, n, old, Ids(rows))  BY <1>1, <1>3 DEF Leads
<1>5. ModsAre(c.modifications, rows, S \cup {Row(rows, t)})
  <2>1. \A j \in 0 .. n - 1 : Row(rows, j) = Row(rows, t) => j = t  BY <1>2 DEF Rows, n
  <2> QED BY <1>1, <1>2, <1>3, <2>1 DEF ModsAre, n
<1> QED BY <1>1, <1>3, <1>4, <1>5 DEF Follows, c, n

\* A step that leaves what the callback was told, and acc, alone: the rows of S and T are
\* modified, and those now are some of those before and the new one.
ListStep(S, T) ==
    /\ kind' = kind /\ steps' = steps + 1
    /\ told' = told /\ start' = start /\ acc' = acc
    /\ now' \in Seq(RowType) /\ Distinct(now')
    /\ RowsOf(now') \subseteq RowsOf(now) \cup {NewRow.id}
    /\ modified' = [start |-> modified.start \cup S, told |-> modified.told \cup S \cup T]
    /\ touched' = touched \cup T
    /\ S \cup T \subseteq RowsOf(now)

\* The identities of rows, and that they have been given.
LEMMA RowsGiven ==
    ASSUME NEW rows \in Seq(RowType), NEW b
    PROVE  Given(rows, b) <=> \A r \in RowsOf(rows) : r <= b
<1> DEFINE n == Len(rows)
<1>1. n \in Nat /\ Indexes0(rows) = 0 .. n - 1 /\ \A j \in 0 .. n - 1 : Row(rows, j) = rows[j + 1].id
  BY IdsOfRows
<1>2. \A k \in 1 .. n : k - 1 \in 0 .. n - 1 /\ (k - 1) + 1 = k  BY <1>1
<1>3. \A j \in 0 .. n - 1 : j + 1 \in 1 .. n  BY <1>1
<1>4. RowsOf(rows) = {rows[k].id : k \in 1 .. n}
  <2>1. ASSUME NEW k \in 1 .. n PROVE rows[k].id \in RowsOf(rows)  BY <1>1, <1>2 DEF RowsOf
  <2>2. ASSUME NEW j \in 0 .. n - 1 PROVE Row(rows, j) \in {rows[k].id : k \in 1 .. n}
    BY <1>1, <1>3
  <2> QED BY <1>1, <2>1, <2>2 DEF RowsOf
<1> QED BY <1>4 DEF Given

\* Such a step keeps what ListInv says of the rows, of the marks and of what was not told.
LEMMA RowsFrame ==
    ASSUME steps \in Nat, ListRows, ListMarks, ListAcc, NEW S, NEW T, ListStep(S, T)
    PROVE  steps' \in Nat /\ ListRows' /\ ListMarks' /\ ListAcc'
<1>1. ListRows /\ ListMarks /\ ListAcc /\ steps \in Nat  OBVIOUS
<1>2. RowsAre(told) /\ RowsAre(start) /\ RowsAre(now)  BY <1>1 DEF ListRows
<1>3. /\ steps' = steps + 1 /\ told' = told /\ start' = start /\ acc' = acc
      /\ now' \in Seq(RowType) /\ Distinct(now')
      /\ RowsOf(now') \subseteq RowsOf(now) \cup {NewRow.id}
      /\ modified'.start = modified.start \cup S /\ modified'.told = modified.told \cup S \cup T
      /\ modified' = [start |-> modified'.start, told |-> modified'.told]
      /\ touched' = touched \cup T /\ S \cup T \subseteq RowsOf(now)
  BY DEF ListStep
<1> DEFINE M == MaxRows + steps
<1>4. M \in Nat /\ MaxRows + steps' = M + 1 /\ NewRow.id = M + 1  BY <1>1, <1>3, BoundsOK DEF NewRow
<1>5. \A r \in RowsOf(now) : r \in Int /\ r <= M  BY <1>2, RowsHaveIds DEF RowsOf
<1>6. \A r \in RowsOf(told) : r \in Int /\ r <= M  BY <1>2, RowsHaveIds DEF RowsOf
<1>7. \A r \in RowsOf(start) : r \in Int /\ r <= M  BY <1>2, RowsHaveIds DEF RowsOf
<1>8. Given(now', M + 1) /\ Given(told, M + 1) /\ Given(start, M + 1)
  <2>1. told \in Seq(RowType) /\ start \in Seq(RowType)  BY <1>2 DEF RowsAre
  <2>2. \A r \in RowsOf(now') : r <= M + 1  BY <1>3, <1>4, <1>5
  <2>3. \A r \in RowsOf(told) : r <= M + 1  BY <1>4, <1>6
  <2>4. \A r \in RowsOf(start) : r <= M + 1  BY <1>4, <1>7
  <2> QED BY <1>3, <2>1, <2>2, <2>3, <2>4, RowsGiven
<1>9. ListRows'
  <2>1. RowsAre(told)' /\ RowsAre(start)' /\ RowsAre(now)'  BY <1>2, <1>3, <1>4, <1>8 DEF RowsAre
  <2>2. ASSUME NEW i \in Indexes0(told), NEW l \in Indexes0(now'), Row(told, i) = Row(now', l)
        PROVE  \E j \in Indexes0(start) : Row(start, j) = Row(told, i)
    <3>1. Row(told, i) \in RowsOf(told) /\ Row(now', l) \in RowsOf(now')  BY DEF RowsOf
    <3>2. Row(told, i) \in RowsOf(now)  BY <1>3, <1>4, <1>6, <2>2, <3>1
    <3>3. PICK k \in Indexes0(now) : Row(now, k) = Row(told, i)  BY <3>2 DEF RowsOf
    <3> QED BY <1>1, <3>3 DEF ListRows
  <2> QED BY <1>3, <2>1, <2>2 DEF ListRows
<1>10. ListMarks'
  <2>1. modified.start \cup touched \subseteq modified.told
        /\ \A r \in modified.told : r \in Int /\ r <= M
    BY <1>1 DEF ListMarks
  <2>2. modified'.start \cup touched' \subseteq modified'.told  BY <1>3, <2>1
  <2>3. \A r \in modified'.told : r \in Int /\ r <= M + 1  BY <1>3, <1>4, <1>5, <2>1
  <2> QED BY <1>3, <1>4, <2>2, <2>3 DEF ListMarks
<1>11. ListAcc'
  <2>1. acc \in Builder /\ Leads(acc, Len(told), Len(start), Ids(told), Ids(start))
        /\ acc.modifications \subseteq Indexes0(start) /\ AccMods
    BY <1>1 DEF ListAcc
  <2>2. AccMods'  BY <1>3, <2>1 DEF AccMods
  <2> QED BY <1>3, <2>1, <2>2 DEF ListAcc
<1> QED BY <1>1, <1>3, <1>9, <1>10, <1>11

\* A list that is still led to keeps ListInv then.
LEMMA ListFrame ==
    ASSUME ListInv, kind = "list", NEW S, NEW T, ListStep(S, T), ListAttached'
    PROVE  ListInv'
<1>1. steps \in Nat /\ ListRows /\ ListMarks /\ ListAcc  BY DEF ListInv
<1>2. steps' \in Nat /\ ListRows' /\ ListMarks' /\ ListAcc'  BY <1>1, RowsFrame
<1> QED BY <1>2 DEF ListInv

\* The change set of a list that is there follows it.
LEMMA ListFollowed ==
    ASSUME ListInv, kind = "list", attached
    PROVE  /\ Follows(change, now, Len(start), Ids(start), modified.start)
           /\ Len(start) \in Nat /\ Rows(Ids(start), Len(start))
<1>1. ListRows /\ ListAttached  BY DEF ListInv
<1>2. RowsAre(now) /\ RowsAre(start)  BY <1>1 DEF ListRows
<1>3. Len(start) \in Nat /\ Rows(Ids(start), Len(start))  BY <1>2, RowsHaveIds
<1> QED BY <1>1, <1>2, <1>3 DEF ListAttached, RowsAre, Follows

\* An instruction for a list, that modifies the rows of S, keeps ListInv if the change set
\* follows it.
Instructed(S) ==
    /\ OnList /\ attached' = attached /\ touched' = touched
    /\ modified' = [start |-> modified.start \cup S, told |-> modified.told \cup S]
    /\ S \subseteq RowsOf(now)
    /\ Follows(change', now', Len(start), Ids(start), modified.start \cup S)
    /\ RowsOf(now') \subseteq RowsOf(now) \cup {NewRow.id}

\* Then ListInv is kept.
LEMMA OnListNext ==
    ASSUME ListInv, NEW S, Instructed(S)
    PROVE  ListInv'
<1>1. /\ kind = "list" /\ kind' = kind /\ steps' = steps + 1 /\ attached
      /\ told' = told /\ start' = start /\ acc' = acc
  BY DEF OnList, Step, Instructed
<1>2. now' \in Seq(RowType) /\ Distinct(now')  BY DEF Follows, Instructed
<1>3. ListStep(S, {})  BY <1>1, <1>2 DEF ListStep, Instructed
<1>4. ListAttached'  BY <1>1 DEF ListAttached, Follows, Instructed
<1> QED BY <1>1, <1>3, <1>4, ListFrame

\* Each instruction for a list keeps ListInv, and so does what is done to its target.
LEMMA InsertKeepsList ==
    ASSUME ListInv, link_list_insert
    PROVE  ListInv'
<1>1. OnList /\ kind = "list" /\ attached /\ modified' = modified /\ touched' = touched /\ attached' = attached
  BY DEF link_list_insert, OnList
<1>2. PICK t \in 0 .. Len(now) :
            now' = InsertAt(now, t + 1, NewRow) /\ change' = Inserted(change, t, TRUE)
  BY DEF link_list_insert
<1> DEFINE m == Len(start)
           old == Ids(start)
<1>3. Follows(change, now, m, old, modified.start) /\ m \in Nat /\ Rows(old, m)
  BY <1>1, ListFollowed
<1>4. ListRows /\ ListMarks /\ steps \in Nat  BY <1>1 DEF ListInv
<1>5. RowsAre(start) /\ RowsAre(now)  BY <1>4 DEF ListRows
<1>6. NewRow \in RowType /\ NewRow.id = MaxRows + steps + 1 /\ MaxRows + steps \in Nat
  BY <1>4, BoundsOK DEF NewRow, RowType
<1>7. \A i \in 0 .. m - 1 : old[i] # NewRow.id  BY <1>5, <1>6, RowsHaveIds
<1>8. NewRow.id \notin RowsOf(now)  BY <1>5, <1>6, RowsHaveIds DEF RowsOf
<1>9. NewRow.id \notin modified.start  BY <1>4, <1>6 DEF ListMarks
<1> HIDE DEF m, old
<1> DEFINE next == InsertAt(now, t + 1, NewRow)
<1>10. Grown(Inserted(change, t, TRUE), next, m, old, modified.start, now, NewRow.id)
  BY <1>3, <1>6, <1>7, <1>8, <1>9, ListInserted
<1>11. Follows(change', now', m, old, modified.start)  BY <1>2, <1>10 DEF Grown
<1>12. RowsOf(now') \subseteq RowsOf(now) \cup {NewRow.id}  BY <1>2, <1>10 DEF Grown
<1>13. modified' = [start |-> modified.start \cup {}, told |-> modified.told \cup {}]
  BY <1>1, <1>4 DEF ListMarks
<1>14. Follows(change', now', m, old, modified.start \cup {})  BY <1>11
<1>15. Instructed({})  BY <1>1, <1>12, <1>13, <1>14 DEF Instructed, m, old
<1> QED BY <1>15, OnListNext

\* A link is erased.
LEMMA EraseKeepsList ==
    ASSUME ListInv, link_list_erase
    PROVE  ListInv'
<1>1. OnList /\ kind = "list" /\ attached /\ modified' = modified /\ touched' = touched /\ attached' = attached
  BY DEF link_list_erase, OnList
<1>2. PICK t \in Indexes0(now) : now' = RemoveAt(now, t + 1) /\ change' = Erased(change, t)
  BY DEF link_list_erase
<1> DEFINE m == Len(start)
           old == Ids(start)
<1>3. Follows(change, now, m, old, modified.start) /\ m \in Nat /\ Rows(old, m)
  BY <1>1, ListFollowed
<1>4. ListMarks  BY <1>1 DEF ListInv
<1>5. t \in 0 .. Len(now) - 1  BY DEF Indexes0
<1> HIDE DEF m, old
<1>6. Follows(change', now', m, old, modified.start)  BY <1>2, <1>3, <1>5, ListErased
<1>7. RowsOf(now') \subseteq RowsOf(now)  BY <1>2, <1>3, <1>5, ListErased
<1>8. modified' = [start |-> modified.start \cup {}, told |-> modified.told \cup {}]
  BY <1>1, <1>4 DEF ListMarks
<1>9. Follows(change', now', m, old, modified.start \cup {})  BY <1>6
<1>10. Instructed({})  BY <1>1, <1>7, <1>8, <1>9 DEF Instructed, m, old
<1> QED BY <1>10, OnListNext

\* A link is moved.
LEMMA MoveKeepsList ==
    ASSUME ListInv, link_list_move
    PROVE  ListInv'
<1>1. OnList /\ kind = "list" /\ attached /\ modified' = modified /\ touched' = touched /\ attached' = attached
  BY DEF link_list_move, OnList
<1>2. PICK f \in Indexes0(now), t \in Indexes0(now) :
            /\ now' = InsertAt(RemoveAt(now, f + 1), t + 1, now[f + 1])
            /\ change' = Moved(change, f, t)
  BY DEF link_list_move
<1> DEFINE m == Len(start)
           old == Ids(start)
<1>3. Follows(change, now, m, old, modified.start) /\ m \in Nat /\ Rows(old, m)
  BY <1>1, ListFollowed
<1>4. ListMarks  BY <1>1 DEF ListInv
<1>5. f \in 0 .. Len(now) - 1 /\ t \in 0 .. Len(now) - 1  BY DEF Indexes0
<1> HIDE DEF m, old
<1>6. Follows(change', now', m, old, modified.start)  BY <1>2, <1>3, <1>5, ListMoved
<1>7. RowsOf(now') \subseteq RowsOf(now)  BY <1>2, <1>3, <1>5, ListMoved
<1>8. modified' = [start |-> modified.start \cup {}, told |-> modified.told \cup {}]
  BY <1>1, <1>4 DEF ListMarks
<1>9. Follows(change', now', m, old, modified.start \cup {})  BY <1>6
<1>10. Instructed({})  BY <1>1, <1>7, <1>8, <1>9 DEF Instructed, m, old
<1> QED BY <1>10, OnListNext

\* All links are erased.
LEMMA ClearKeepsList ==
    ASSUME ListInv, link_list_clear
    PROVE  ListInv'
<1>1. /\ OnList /\ kind = "list" /\ attached /\ modified' = modified /\ touched' = touched
      /\ attached' = attached /\ now' = <<>> /\ change' = Cleared(change, Len(now))
  BY DEF link_list_clear, OnList
<1> DEFINE m == Len(start)
           old == Ids(start)
<1>2. Follows(change, now, m, old, modified.start) /\ m \in Nat /\ Rows(old, m)
  BY <1>1, ListFollowed
<1>3. ListMarks  BY <1>1 DEF ListInv
<1> HIDE DEF m, old
<1>4. Follows(change', now', m, old, modified.start)  BY <1>1, <1>2, ListCleared
<1>5. RowsOf(now') \subseteq RowsOf(now)  BY <1>1, <1>2, ListCleared
<1>6. modified' = [start |-> modified.start \cup {}, told |-> modified.told \cup {}]
  BY <1>1, <1>3 DEF ListMarks
<1>7. Follows(change', now', m, old, modified.start \cup {})  BY <1>4
<1>8. Instructed({})  BY <1>1, <1>5, <1>6, <1>7 DEF Instructed, m, old
<1> QED BY <1>8, OnListNext

\* Links are set.
LEMMA SetKeepsList ==
    ASSUME ListInv, link_list_set
    PROVE  ListInv'
<1>1. OnList /\ kind = "list" /\ attached /\ now' = now /\ touched' = touched /\ attached' = attached
  BY DEF link_list_set, OnList
<1>2. PICK i \in Indexes0(now), j \in Indexes0(now) :
            /\ change' = Modified(Modified(change, i), j)
            /\ modified' = Marked({Row(now, i), Row(now, j)})
  BY DEF link_list_set
<1> DEFINE m == Len(start)
           old == Ids(start)
           S == {Row(now, i), Row(now, j)}
<1>3. Follows(change, now, m, old, modified.start) /\ m \in Nat /\ Rows(old, m)
  BY <1>1, ListFollowed
<1>4. i \in 0 .. Len(now) - 1 /\ j \in 0 .. Len(now) - 1  BY DEF Indexes0
<1>5. S \subseteq RowsOf(now)  BY DEF RowsOf
<1> HIDE DEF m, old
<1>6. Follows(Modified(change, i), now, m, old, modified.start \cup {Row(now, i)})
  BY <1>3, <1>4, ListModified
<1>7. Follows(Modified(Modified(change, i), j), now, m, old,
              (modified.start \cup {Row(now, i)}) \cup {Row(now, j)})
  BY <1>3, <1>4, <1>6, ListModified
<1>8. (modified.start \cup {Row(now, i)}) \cup {Row(now, j)} = modified.start \cup S  OBVIOUS
<1>9. modified' = [start |-> modified.start \cup S, told |-> modified.told \cup S]
  BY <1>2 DEF Marked
<1>10. Follows(change', now', m, old, modified.start \cup S)  BY <1>1, <1>2, <1>7, <1>8
<1> HIDE DEF S
<1>11. Instructed(S)  BY <1>1, <1>5, <1>9, <1>10 DEF Instructed, m, old
<1> QED BY <1>11, OnListNext

\* A row that a link leads to is modified.
LEMMA TouchKeepsList ==
    ASSUME ListInv, modify_target
    PROVE  ListInv'
<1>1. /\ OnList /\ kind = "list" /\ attached /\ now' = now /\ change' = change /\ attached' = attached
      /\ kind' = kind /\ steps' = steps + 1 /\ told' = told /\ start' = start /\ acc' = acc
  BY DEF modify_target, OnList, Step
<1>2. PICK i \in Indexes0(now) :
            /\ touched' = touched \cup {Row(now, i)}
            /\ modified' = [modified EXCEPT !.told = @ \cup {Row(now, i)}]
  BY DEF modify_target
<1>3. ListRows /\ ListMarks /\ ListAttached  BY <1>1 DEF ListInv
<1>4. now \in Seq(RowType) /\ Distinct(now)  BY <1>3 DEF ListRows, RowsAre
<1>5. modified' = [start |-> modified.start \cup {}, told |-> modified.told \cup {} \cup {Row(now, i)}]
  <2>1. modified = [start |-> modified.start, told |-> modified.told]  BY <1>3 DEF ListMarks
  <2> QED BY <1>2, <2>1
<1>6. ListStep({}, {Row(now, i)})  BY <1>1, <1>2, <1>4, <1>5 DEF ListStep, RowsOf
<1>7. ListAttached'
  <2>1. modified'.start = modified.start  BY <1>5
  <2> QED BY <1>1, <1>3, <2>1 DEF ListAttached
<1> QED BY <1>1, <1>6, <1>7, ListFrame

\* The list is only deleted before it is changed in the same transaction.
LEMMA EraseOriginKeepsList ==
    ASSUME ListInv, erase_origin, "deletedAfterChange" \notin Allowed
    PROVE  ListInv'
<1>1. /\ kind = "list" /\ change = NoChange /\ attached' = FALSE /\ now' = <<>>
      /\ change' = change /\ modified' = modified /\ touched' = touched
      /\ kind' = kind /\ steps' = steps + 1 /\ told' = told /\ start' = start /\ acc' = acc
  BY DEF erase_origin, OnList, Step
<1>2. ListMarks  BY <1>1 DEF ListInv
<1>3. <<>> \in Seq(RowType) /\ Distinct(<<>>) /\ RowsOf(<<>>) = {}
  BY EmptySeq DEF Distinct, RowsOf, Indexes0
<1>4. modified' = [start |-> modified.start \cup {}, told |-> modified.told \cup {} \cup {}]
  BY <1>1, <1>2 DEF ListMarks
<1>5. ListStep({}, {})  BY <1>1, <1>3, <1>4 DEF ListStep
<1>6. ListAttached'  BY <1>1 DEF ListAttached
<1> QED BY <1>1, <1>5, <1>6, ListFrame

\* The rows of any other list do not count.
LEMMA RowsLater ==
    ASSUME NEW rows, NEW M \in Nat, RowsAre(rows), M = MaxRows + steps, MaxRows + steps' = M + 1
    PROVE  rows \in Seq(RowType) /\ Distinct(rows) /\ Given(rows, M + 1)
<1>1. rows \in Seq(RowType) /\ Distinct(rows)  BY DEF RowsAre
<1>2. \A r \in RowsOf(rows) : r \in Int /\ r <= M  BY RowsHaveIds DEF RowsOf
<1>3. \A r \in RowsOf(rows) : r <= M + 1  BY <1>2
<1> QED BY <1>1, <1>3, RowsGiven

\* What was not told is kept, as r, and the next change set is begun.
HandedOver(r) ==
    /\ SinceTold(r) /\ acc' = r /\ change' = NoChange /\ start' = now /\ touched' = {}
    /\ modified' = [modified EXCEPT !.start = {}]
    /\ steps' = steps + 1 /\ told' = told /\ now' = now

\* The rows and the marks are those of the next change set then.
LEMMA HandedOverKeeps ==
    ASSUME steps \in Nat, ListRows, ListMarks, NEW r, HandedOver(r)
    PROVE  modified' = [start |-> {}, told |-> modified.told] /\ ListRows' /\ ListMarks' /\ ListAcc'
<1>1. /\ steps' = steps + 1 /\ told' = told /\ now' = now /\ acc' = r /\ start' = now /\ touched' = {}
  BY DEF HandedOver
<1>2. modified' = [start |-> {}, told |-> modified.told]
  <2>1. modified' = [modified EXCEPT !.start = {}]  BY DEF HandedOver
  <2>2. modified = [start |-> modified.start, told |-> modified.told]  BY DEF ListMarks
  <2> QED BY <2>1, <2>2
<1>3. RowsAre(told) /\ RowsAre(now)  BY DEF ListRows
<1> DEFINE M == MaxRows + steps
<1>4. M \in Nat /\ MaxRows + steps' = M + 1  BY <1>1, BoundsOK
<1>5. ListRows'
  <2>1. told \in Seq(RowType) /\ Distinct(told) /\ Given(told, M + 1)  BY <1>3, <1>4, RowsLater
  <2>2. now \in Seq(RowType) /\ Distinct(now) /\ Given(now, M + 1)  BY <1>3, <1>4, RowsLater
  <2>3. RowsAre(told)' /\ RowsAre(start)' /\ RowsAre(now)'  BY <1>1, <1>4, <2>1, <2>2 DEF RowsAre
  <2> QED BY <1>1, <2>3 DEF ListRows
<1>6. ListMarks'
  <2>1. \A x \in modified.told : x \in Int /\ x <= M  BY DEF ListMarks
  <2>2. \A x \in modified.told : x \in Int /\ x <= M + 1  BY <1>4, <2>1
  <2> QED BY <1>1, <1>2, <1>4, <2>2 DEF ListMarks
<1>7. ListAcc'
  <2>1. /\ r \in Builder /\ Leads(r, Len(told), Len(now), Ids(told), Ids(now))
        /\ r.modifications \subseteq Indexes0(now)
        /\ \A i \in Indexes0(told), j \in Indexes0(now) : Row(told, i) = Row(now, j) =>
              (j \in r.modifications <=> Row(now, j) \in modified.told)
    BY DEF HandedOver, SinceTold
  <2>2. AccMods'  BY <1>1, <1>2, <2>1 DEF AccMods
  <2> QED BY <1>1, <2>1, <2>2 DEF ListAcc
<1> QED BY <1>2, <1>5, <1>6, <1>7

\* add_changes hands over the changes of a list.
LEMMA AddKeepsList ==
    ASSUME ListInv, add_changes
    PROVE  ListInv'
<1>1. /\ kind = "list" /\ kind' = kind /\ steps' = steps + 1 /\ now' = now
      /\ attached' = attached /\ change' = NoChange /\ start' = now /\ touched' = {}
  BY DEF add_changes, Step
<1>2. ListRows /\ ListMarks /\ ListAttached /\ ListAcc /\ steps \in Nat  BY <1>1 DEF ListInv
<1>3. HandedOver(AllOfList)  BY <1>1, <1>2, AllOfListLeads DEF HandedOver, add_changes
<1>4. modified' = [start |-> {}, told |-> modified.told] /\ ListRows' /\ ListMarks' /\ ListAcc'
  BY <1>2, <1>3, HandedOverKeeps
<1>5. ListAttached'
  <2>1. CASE attached
    <3>1. Len(now) \in Nat /\ Rows(Ids(now), Len(now))  BY <1>2, RowsHaveIds DEF ListRows
    <3>2. NoChange \in Builder  BY <3>1, NoChangeLeads
    <3>3. Leads(NoChange, Len(now), Len(now), Ids(now), Ids(now))  BY <3>1, NoChangeLeads
    <3>4. ModsAre(NoChange.modifications, now, {})  BY DEF ModsAre, NoChange
    <3> QED BY <1>1, <1>4, <2>1, <3>2, <3>3, <3>4 DEF ListAttached
  <2>2. CASE ~attached  BY <1>1, <1>2, <2>2 DEF ListAttached
  <2> QED BY <2>1, <2>2
<1> QED BY <1>1, <1>2, <1>4, <1>5 DEF ListInv

\* The change set of a list goes on when the log is read up to the version of another notifier.
LEMMA AdvanceKeepsList ==
    ASSUME ListInv, advance_incremental, kind = "list"
    PROVE  ListInv'
<1>1. /\ kind' = kind /\ steps' = steps + 1 /\ told' = told /\ now' = now /\ touched' = touched
      /\ attached' = attached /\ attached /\ change' = CleanedUp(change) /\ acc' = acc /\ start' = start
      /\ modified' = modified
  BY DEF advance_incremental, Step
<1>2. ListRows /\ ListMarks /\ ListAttached  BY DEF ListInv
<1>3. RowsAre(start) /\ RowsAre(now)  BY <1>2 DEF ListRows
<1> DEFINE m == Len(start)
           n == Len(now)
           old == Ids(start)
           new == Ids(now)
<1>4. m \in Nat /\ Rows(old, m)  BY <1>3, RowsHaveIds
<1>5. n \in Nat /\ Rows(new, n)  BY <1>3, RowsHaveIds
<1>6. change \in Builder /\ Leads(change, m, n, old, new) /\ ModsAre(change.modifications, now, modified.start)
  BY <1>1, <1>2 DEF ListAttached
<1> HIDE DEF m, n, old, new
<1>7. CleanedUp(change) \in Builder /\ Leads(CleanedUp(change), m, n, old, new)
      /\ CleanedUp(change).modifications = change.modifications
  BY <1>4, <1>5, <1>6, CleanedGood
<1>8. ListAttached'  BY <1>1, <1>6, <1>7 DEF ListAttached, m, n, old, new
<1>9. ListStep({}, {})
  <2>1. modified' = [start |-> modified.start \cup {}, told |-> modified.told \cup {} \cup {}]
    BY <1>1, <1>2 DEF ListMarks
  <2> QED BY <1>1, <1>3, <2>1 DEF ListStep, RowsAre
<1> QED BY <1>8, <1>9, ListFrame

\* In the beginning nothing has changed.
LEMMA NothingChanged ==
    ASSUME Init
    PROVE  ListRows /\ ListMarks /\ ListAttached /\ ListAcc /\ Len(now) <= MaxRows
<1>1. /\ told = now /\ start = now /\ change = NoChange /\ acc = NoChange /\ steps = 0 /\ attached
      /\ modified = [start |-> {}, told |-> {}] /\ touched = {}
  BY DEF Init
<1>2. RowsAre(now) /\ Len(now) <= MaxRows  BY RowsBegun
<1>3. ListRows  BY <1>1, <1>2 DEF ListRows
<1>4. ListMarks  BY <1>1 DEF ListMarks
<1>5. Len(now) \in Nat /\ Rows(Ids(now), Len(now))  BY <1>2, RowsHaveIds
<1>6. NoChange \in Builder  BY <1>5, NoChangeLeads
<1>7. Leads(NoChange, Len(now), Len(now), Ids(now), Ids(now))  BY <1>5, NoChangeLeads
<1>8. NoChange.modifications = {}  BY DEF NoChange
<1>9. ListAttached  BY <1>1, <1>6, <1>7, <1>8 DEF ListAttached, ModsAre
<1>10. ListAcc  BY <1>1, <1>6, <1>7, <1>8 DEF ListAcc, AccMods
<1> QED BY <1>2, <1>3, <1>4, <1>9, <1>10

\* So ListInv holds.
LEMMA ListInit == Init => ListInv
BY NothingChanged DEF ListInv, Init

\* Every step keeps ListInv.
LEMMA ListNext ==
    ASSUME ListInv, [Next]_vars, "deletedAfterChange" \notin Allowed
    PROVE  ListInv'
<1>1. CASE UNCHANGED vars
  BY <1>1 DEF vars, ListInv, ListRows, RowsAre, ListMarks, ListAttached, ListAcc, AccMods
<1>2. CASE Next /\ kind # "list"
  <2>1. kind' = kind /\ steps' = steps + 1  BY <1>2, KindStays
  <2>2. steps' \in Nat  BY <2>1 DEF ListInv
  <2> QED BY <1>2, <2>1, <2>2 DEF ListInv
<1>3. CASE Next /\ kind = "list"
  <2>1. CASE link_list_insert  BY <2>1, InsertKeepsList
  <2>2. CASE link_list_erase  BY <2>2, EraseKeepsList
  <2>3. CASE link_list_move  BY <2>3, MoveKeepsList
  <2>4. CASE link_list_set  BY <2>4, SetKeepsList
  <2>5. CASE link_list_clear  BY <2>5, ClearKeepsList
  <2>6. CASE modify_target  BY <2>6, TouchKeepsList
  <2>7. CASE erase_origin  BY <2>7, EraseOriginKeepsList
  <2>8. CASE insert_empty_rows \/ modify \/ erase_rows \/ swap_rows \/ merge_rows \/ clear_table
    <3>1. OnTable
      BY <2>8, Zenon DEF insert_empty_rows, modify, erase_rows, swap_rows, merge_rows, clear_table
    <3> QED BY <1>3, <3>1 DEF OnTable, IsTable
  <2>9. CASE add_changes  BY <2>9, AddKeepsList
  <2>10. CASE advance_incremental  BY <1>3, <2>10, AdvanceKeepsList
  <2> QED BY <1>3, <2>1, <2>2, <2>3, <2>4, <2>5, <2>6, <2>7, <2>8, <2>9, <2>10, Zenon DEF Next
<1> QED BY <1>1, <1>2, <1>3

\* Whatever happens to a list of links in however many transactions, what its callback is told is
\* what happened: which rows went and which came, where those that moved were and are, and
\* which were modified, for one transaction and for all that were not told before
\* (collection_change_builder.cpp:35-196 and 255-424), but for a list that is deleted in the
\* transaction that has changed it.
THEOREM ListsAreToldFaithfully ==
    ASSUME "deletedAfterChange" \notin Allowed
    PROVE  Spec => []ListFaithful
<1>1. Init => ListInv  BY ListInit
<1>2. ListInv /\ [Next]_vars => ListInv'  BY ListNext
<1>3. ListInv => ListFaithful  BY ListInvGives
<1> QED BY <1>1, <1>2, <1>3, PTL DEF Spec

-----------------------------------------------------------------------------
(* Tables: rows stay where they are, but for those that are moved over      *)
(* others and those that are swapped, and the mapping knows these.          *)

TableBuilder == [deletions : SUBSET Nat, insertions : SUBSET Nat, modifications : SUBSET Nat,
                 moves : {<<>>}, mapping : UNION {[S -> Nat] : S \in SUBSET Nat}]

\* The row at j was at i.
CameFrom(b, i, j) == \/ j \notin b.insertions /\ i = j
                     \/ j \in DOMAIN b.mapping /\ b.mapping[j] = i

\* What is neither deleted nor inserted is the same indexes in the old table as in the new one.
\* The rows that the mapping knows are inserted, and their places in the old table are deleted,
\* or are about to be: those in X.
Shape(b, m, n, X) ==
    /\ b \in TableBuilder
    /\ IsFiniteSet(b.deletions) /\ b.insertions \subseteq 0 .. n - 1
    /\ DOMAIN b.mapping \subseteq b.insertions
    /\ \A i \in Nat : (i < m /\ i \notin b.deletions) <=> (i < n /\ i \notin b.insertions)
    /\ \A j \in DOMAIN b.mapping :
            b.mapping[j] \in 0 .. m - 1 /\ (b.mapping[j] \in b.deletions \/ b.mapping[j] \in X)

\* It knows of every row whether it is an old one, and which.
Fixed(b, m, n, old, new) ==
    /\ Shape(b, m, n, {})
    /\ \A i \in 0 .. m - 1, j \in 0 .. n - 1 : old[i] = new[j] <=> CameFrom(b, i, j)

\* An index that two sets agree up to is the same counted with either.
LEMMA SameCounted ==
    ASSUME NEW D \in SUBSET Nat, IsFiniteSet(D), NEW I, NEW i \in Nat, i \notin D,
           \A j \in Nat : j < i => (j \in D <=> j \in I), I \in SUBSET Nat
    PROVE  Shift(D, Unshift(I, i)) = i /\ AddShifted(D, Unshift(I, i)) = D \cup {i}
<1>1. Below(D, i) = Below(I, i)  BY DEF Below
<1>2. Unshift(I, i) = Unshift(D, i)  BY <1>1 DEF Unshift
<1>3. Shift(D, Unshift(D, i)) = i  BY ShiftUndoesUnshift
<1> QED BY <1>2, <1>3 DEF AddShifted

\* What Shape says of the rows that stay where they are.
LEMMA StaysThere ==
    ASSUME NEW m \in Nat, NEW n \in Nat, NEW b, NEW X, Shape(b, m, n, X), NEW j \in 0 .. n - 1,
           j \notin b.insertions
    PROVE  /\ j \in 0 .. m - 1 /\ j \notin b.deletions
           /\ Source(b, j) = j /\ Lost(b, j) = b.deletions \cup {j}
<1> DEFINE D == b.deletions
           I == b.insertions
<1>1. D \in SUBSET Nat /\ I \in SUBSET Nat /\ IsFiniteSet(D)  BY DEF Shape, TableBuilder
<1>2. \A i \in Nat : (i < m /\ i \notin D) <=> (i < n /\ i \notin I)  BY DEF Shape
<1>3. j \in Nat /\ j < n  OBVIOUS
<1>4. j < m /\ j \notin D  BY <1>2, <1>3
<1>5. \A i \in Nat : i < j => (i \in D <=> i \in I)
  <2>1. \A i \in Nat : i < j => i < m /\ i < n  BY <1>3, <1>4
  <2> QED BY <1>2, <2>1
<1> HIDE DEF D, I
<1>6. Shift(D, Unshift(I, j)) = j  BY <1>1, <1>3, <1>4, <1>5, SameCounted
<1>7. AddShifted(D, Unshift(I, j)) = D \cup {j}  BY <1>1, <1>3, <1>4, <1>5, SameCounted
<1> QED BY <1>3, <1>4, <1>6, <1>7 DEF Source, Lost, D, I

Maps == UNION {[S -> Nat] : S \in SUBSET Nat}

\* g is f without the entry of i, or with v for it.
MapWithout(g, f, i) ==
    /\ g \in Maps /\ DOMAIN g = DOMAIN f \ {i}
    /\ \A j \in DOMAIN f : j # i => g[j] = f[j]
MapWith(g, f, i, v) ==
    /\ g \in Maps /\ DOMAIN g = DOMAIN f \cup {i} /\ g[i] = v
    /\ \A j \in DOMAIN f : j # i => g[j] = f[j]

\* Entries of a mapping that go and come.
LEMMA MapsAre ==
    ASSUME NEW f \in Maps
    PROVE  DOMAIN f \in SUBSET Nat /\ \A j \in DOMAIN f : f[j] \in Nat
BY DEF Maps

\* An entry goes.
LEMMA WithoutGives ==
    ASSUME NEW f \in Maps, NEW i \in Nat
    PROVE  MapWithout(Without(f, i), f, i)
<1>1. PICK S \in SUBSET Nat : f \in [S -> Nat]  BY DEF Maps
<1>2. DOMAIN f = S /\ \A j \in S : f[j] \in Nat  BY <1>1
<1>3. Without(f, i) = [j \in {x \in S : x # i} |-> f[j]]
  BY <1>2 DEF Without, RestrictDomain, Restrict
<1>4. {x \in S : x # i} = S \ {i}  OBVIOUS
<1>5. /\ Without(f, i) \in [S \ {i} -> Nat] /\ DOMAIN Without(f, i) = S \ {i}
      /\ \A j \in S \ {i} : Without(f, i)[j] = f[j]
  BY <1>2, <1>3, <1>4
<1>6. Without(f, i) \in Maps
  <2>1. S \ {i} \in SUBSET Nat  OBVIOUS
  <2> QED BY <1>5, <2>1 DEF Maps
<1> QED BY <1>2, <1>5, <1>6 DEF MapWithout

\* An entry comes, or gets another value.
LEMMA ExtendedGives ==
    ASSUME NEW f \in Maps, NEW i \in Nat, NEW v \in Nat
    PROVE  MapWith(Extended(f, i, v), f, i, v)
<1>1. PICK S \in SUBSET Nat : f \in [S -> Nat]  BY DEF Maps
<1>2. DOMAIN f = S /\ \A j \in S : f[j] \in Nat  BY <1>1
<1>3. /\ Extended(f, i, v) \in [S \cup {i} -> Nat] /\ DOMAIN Extended(f, i, v) = S \cup {i}
      /\ Extended(f, i, v)[i] = v /\ \A j \in S \ {i} : Extended(f, i, v)[j] = f[j]
  BY <1>2 DEF Extended
<1>4. Extended(f, i, v) \in Maps
  <2>1. S \cup {i} \in SUBSET Nat  OBVIOUS
  <2> QED BY <1>3, <2>1 DEF Maps
<1> QED BY <1>2, <1>3, <1>4 DEF MapWith

\* Where the row at j was before the last one was moved over the one at i.
Over(n, i, j) == IF j = i THEN n - 1 ELSE j

\* What MovedOver does to a change set of this shape.
MovedOverParts(c, b, n, i) ==
    LET D == b.deletions I == b.insertions M == b.mapping l == n - 1 IN
    /\ c \in TableBuilder /\ IsFiniteSet(c.deletions)
    /\ c.deletions = D \cup ({i, l} \ I)
    /\ c.insertions = (I \ {l}) \cup ({i} \ {l})
    /\ c.modifications = IF i = l THEN b.modifications \ {i} ELSE Replaced(b.modifications, l, i)
    /\ \A j \in Nat : j \in DOMAIN c.mapping <=>
            \/ j \in DOMAIN M /\ j # i /\ j # l
            \/ j = i /\ i # l /\ (l \in DOMAIN M \/ l \notin I)
    /\ \A j \in DOMAIN M : j # i /\ j # l => c.mapping[j] = M[j]
    /\ i # l /\ l \in DOMAIN M => c.mapping[i] = M[l]
    /\ i # l /\ l \notin I => c.mapping[i] = l

\* MovedOver in two parts: where the rows that were moved came from, and all else.
OverMapping(b, i, l) ==
    IF l \in b.insertions /\ l \in DOMAIN b.mapping
    THEN Extended(Without(b.mapping, l), i, b.mapping[l])
    ELSE LET rest == IF i \in b.insertions THEN Without(b.mapping, i) ELSE b.mapping
         IN IF l \in b.insertions THEN rest ELSE Extended(rest, i, Source(b, l))
LastOver(a, b, l) == IF l \in b.insertions THEN [a EXCEPT !.insertions = @ \ {l}]
                     ELSE [a EXCEPT !.deletions = Lost(b, l)]
OneOver(c, b, i) == IF i \in b.insertions THEN c
                    ELSE [c EXCEPT !.deletions = Lost(c, i), !.insertions = @ \cup {i}]

\* move_over of another row than the last: what it does for the last row, what it does for the
\* row that is moved over, and the mapping.
LEMMA MovedOverIs ==
    ASSUME NEW b, NEW i, NEW l, i # l
    PROVE  LET a == [b EXCEPT !.modifications = Replaced(@, l, i)] IN
           MovedOver(b, i, l, TRUE) = [OneOver(LastOver(a, b, l), b, i) EXCEPT !.mapping = OverMapping(b, i, l)]
BY DEF MovedOver, OverMapping, LastOver, OneOver

\* move_over, whichever of the two rows the change set knows already.
LEMMA MovedOverGives ==
    ASSUME NEW m \in Nat, NEW n \in Nat \ {0}, NEW b, NEW i \in 0 .. n - 1, Shape(b, m, n, {i})
    PROVE  MovedOverParts(MovedOver(b, i, n - 1, TRUE), b, n, i)
<1> DEFINE D == b.deletions
           I == b.insertions
           M == b.mapping
           l == n - 1
           mods == IF i = l THEN b.modifications \ {i} ELSE Replaced(b.modifications, l, i)
           a == [b EXCEPT !.modifications = mods]
           c == MovedOver(b, i, l, TRUE)
<1>1. /\ b \in TableBuilder /\ D \in SUBSET Nat /\ I \in SUBSET Nat /\ M \in Maps
      /\ b.modifications \in SUBSET Nat /\ IsFiniteSet(D) /\ DOMAIN M \subseteq I
      /\ l \in Nat /\ i \in Nat /\ i <= l /\ l \in 0 .. n - 1 /\ I \subseteq 0 .. l
  BY DEF Shape, TableBuilder, Maps
<1>2. mods \in SUBSET Nat  BY <1>1 DEF Replaced
<1> HIDE DEF mods
<1>3. /\ a \in TableBuilder /\ a.deletions = D /\ a.insertions = I /\ a.modifications = mods /\ a.mapping = M
  BY <1>1, <1>2 DEF TableBuilder, Maps
<1>4. ASSUME NEW j \in 0 .. n - 1, j \notin I
      PROVE  j \notin D /\ Source(b, j) = j /\ AddShifted(D, Unshift(I, j)) = D \cup {j}
  BY <1>4, StaysThere DEF Lost
<1>5. CASE i = l
  <2> DEFINE E == IF i \in I THEN D ELSE D \cup {i}
  <2>1. EraseIndex(I, i) = I \ {i}
    <3>1. \A j \in I : j \in Int /\ j <= i  BY <1>1, <1>5
    <3>2. Below(I, i) = I \ {i} /\ I \ Below(I, i + 1) = {}  BY <1>1, <3>1 DEF Below
    <3> QED BY <3>2 DEF EraseIndex
  <2>2. i \notin I => AddShifted(D, Unshift(I, i)) = D \cup {i}  BY <1>4
  <2>3. c = [Deleted(a, i) EXCEPT !.mapping = Without(@, i)]
    <3>1. c = [Deleted([b EXCEPT !.modifications = mods], i) EXCEPT !.mapping = Without(@, i)]
      BY <1>5, Zenon DEF MovedOver, mods
    <3> QED BY <3>1
  <2>4. Deleted(a, i) = [a EXCEPT !.insertions = I \ {i}, !.deletions = E]
    BY <1>3, <2>1, <2>2 DEF Deleted
  <2>5. E \in SUBSET Nat /\ IsFiniteSet(E) /\ I \ {i} \in SUBSET Nat  BY <1>1, FS_AddElement
  <2>6. MapWithout(Without(M, i), M, i) /\ DOMAIN M \in SUBSET Nat  BY <1>1, WithoutGives, MapsAre
  <2> HIDE DEF c, a, E, D, I, M
  <2>7. /\ c \in TableBuilder /\ c.deletions = E /\ c.insertions = I \ {i} /\ c.mapping = Without(M, i)
        /\ c.modifications = mods
    <3>1. Without(M, i) \in Maps  BY <2>6 DEF MapWithout
    <3>2. a = [deletions |-> D, insertions |-> I, modifications |-> mods, moves |-> <<>>, mapping |-> M]
      BY <1>3 DEF TableBuilder
    <3>3. c = [deletions |-> E, insertions |-> I \ {i}, modifications |-> mods, moves |-> <<>>,
               mapping |-> Without(M, i)]
      BY <2>3, <2>4, <3>2
    <3>4. mods \in SUBSET Nat  BY <1>2
    <3> QED BY <2>5, <3>1, <3>3, <3>4 DEF TableBuilder, Maps
  <2>8. mods = b.modifications \ {i}  BY <1>5 DEF mods
  <2>9. E = D \cup ({i, l} \ I) /\ I \ {i} = (I \ {l}) \cup ({i} \ {l})  BY <1>5 DEF E
  <2> QED
    <3> DEFINE f == c.mapping
    <3>1. DOMAIN f = DOMAIN M \ {i} /\ \A j \in DOMAIN M : j # i => f[j] = M[j]
      BY <2>6, <2>7 DEF MapWithout
    <3>2. /\ \A j \in Nat : j \in DOMAIN f <=>
                \/ j \in DOMAIN M /\ j # i /\ j # l
                \/ j = i /\ i # l /\ (l \in DOMAIN M \/ l \notin I)
          /\ \A j \in DOMAIN M : j # i /\ j # l => f[j] = M[j]
      BY <1>5, <3>1
    <3> HIDE DEF f, l
    <3> QED BY <1>5, <2>5, <2>7, <2>8, <2>9, <3>2 DEF MovedOverParts, D, I, M, f, l, c
<1>6. CASE i # l
  <2> DEFINE D1 == IF l \in I THEN D ELSE D \cup {l}
             I1 == I \ {l}
             E == IF i \in I THEN D1 ELSE D1 \cup {i}
             J == I1 \cup {i}
             rest == IF i \in I THEN Without(M, i) ELSE M
             map == IF l \in I /\ l \in DOMAIN M THEN Extended(Without(M, l), i, M[l])
                    ELSE IF l \in I THEN rest ELSE Extended(rest, i, l)
             a1 == IF l \in I THEN [a EXCEPT !.insertions = @ \ {l}] ELSE [a EXCEPT !.deletions = Lost(b, l)]
             a2 == IF i \in I THEN a1
                   ELSE [a1 EXCEPT !.deletions = Lost(a1, i), !.insertions = @ \cup {i}]
  <2>1. i < l  BY <1>1, <1>6
  <2>2. l \notin I => Lost(b, l) = D \cup {l} /\ Source(b, l) = l  BY <1>1, <1>4 DEF Lost
  <2>3. c = [a2 EXCEPT !.mapping = map]
    <3>1. mods = Replaced(b.modifications, l, i)  BY <1>6 DEF mods
    <3>2. map = OverMapping(b, i, l)  BY <2>2 DEF OverMapping
    <3>3. a1 = LastOver(a, b, l)  BY DEF LastOver
    <3>4. a2 = OneOver(a1, b, i)  BY DEF OneOver
    <3>5. a = [b EXCEPT !.modifications = Replaced(@, l, i)]  BY <3>1
    <3> HIDE DEF a, a1, a2, map, l
    <3>6. MovedOver(b, i, l, TRUE) = [OneOver(LastOver(a, b, l), b, i) EXCEPT !.mapping = OverMapping(b, i, l)]
      BY <1>6, <3>5, MovedOverIs
    <3> QED BY <3>2, <3>3, <3>4, <3>6 DEF c
  <2>4. D1 \in SUBSET Nat /\ IsFiniteSet(D1) /\ I1 \in SUBSET Nat  BY <1>1, FS_AddElement
  <2>5. /\ a1 \in TableBuilder /\ a1.deletions = D1 /\ a1.insertions = I1 /\ a1.modifications = mods
        /\ a1.mapping = M
    <3> HIDE DEF a, D, I, M, l
    <3>1. CASE l \in I  BY <1>3, <2>4, <3>1 DEF TableBuilder
    <3>2. CASE l \notin I  BY <1>3, <2>2, <2>4, <3>2 DEF TableBuilder
    <3> QED BY <3>1, <3>2
  <2>6. ASSUME i \notin I PROVE Lost(a1, i) = D1 \cup {i}
    <3>1. i \notin D /\ \A j \in Nat : j < i => (j \in D <=> j \in I)
      <4>1. i < m /\ i \notin D  BY <1>1, <2>6, StaysThere
      <4>2. \A j \in Nat : (j < m /\ j \notin D) <=> (j < n /\ j \notin I)  BY DEF Shape
      <4>3. \A j \in Nat : j < i => j < m /\ j < n  BY <1>1, <4>1
      <4> QED BY <4>1, <4>2, <4>3
    <3>2. i \notin D1 /\ \A j \in Nat : j < i => (j \in D1 <=> j \in I1)  BY <2>1, <3>1
    <3> HIDE DEF D1, I1, a1
    <3> QED BY <1>1, <2>4, <2>5, <3>2, SameCounted DEF Lost
  <2>7. /\ E \in SUBSET Nat /\ IsFiniteSet(E) /\ J \in SUBSET Nat
    <3> HIDE DEF D1, I1
    <3> QED BY <1>1, <2>4, FS_AddElement
  <2>8. /\ a2 \in TableBuilder /\ a2.deletions = E /\ a2.insertions = J /\ a2.modifications = mods
        /\ a2.mapping = M
    <3>1. CASE i \in I
      <4>1. J = I1  BY <2>1, <3>1
      <4> HIDE DEF a1, D1, I1, J
      <4> QED BY <2>5, <3>1, <4>1
    <3>2. CASE i \notin I
      <4> HIDE DEF a1, D1, I1, I
      <4> QED BY <2>5, <2>6, <2>7, <3>2 DEF TableBuilder
    <3> QED BY <3>1, <3>2
  <2>9. /\ map \in Maps
        /\ \A j \in Nat : j \in DOMAIN map <=>
              \/ j \in DOMAIN M /\ j # i /\ j # l
              \/ j = i /\ i # l /\ (l \in DOMAIN M \/ l \notin I)
        /\ \A j \in DOMAIN M : j # i /\ j # l => map[j] = M[j]
        /\ l \in DOMAIN M => map[i] = M[l]
        /\ l \notin I => map[i] = l
    <3>1. l \in DOMAIN M => l \in I /\ M[l] \in Nat  BY <1>1, MapsAre
    <3>2. i \notin I => i \notin DOMAIN M  BY <1>1
    <3>3. DOMAIN M \in SUBSET Nat  BY <1>1, MapsAre
    <3>4. MapWithout(rest, M, i)
      <4>1. CASE i \in I  BY <1>1, <4>1, WithoutGives
      <4>2. CASE i \notin I
        <5>1. DOMAIN M \ {i} = DOMAIN M  BY <3>2, <4>2
        <5> HIDE DEF M
        <5> QED BY <1>1, <4>2, <5>1 DEF MapWithout
      <4> QED BY <4>1, <4>2
    <3>5. CASE l \in DOMAIN M
      <4> DEFINE w == Without(M, l)
      <4>1. MapWithout(w, M, l)  BY <1>1, WithoutGives
      <4>2. map = Extended(w, i, M[l])  BY <3>1, <3>5
      <4> HIDE DEF w, map, M
      <4>3. MapWith(map, w, i, M[l])
        <5>1. w \in Maps /\ M[l] \in Nat  BY <3>1, <3>5, <4>1 DEF MapWithout
        <5> QED BY <1>1, <4>2, <5>1, ExtendedGives
      <4> HIDE DEF l, I
      <4> QED BY <1>1, <1>6, <3>3, <3>1, <3>5, <4>1, <4>3 DEF MapWith, MapWithout
    <3>6. CASE l \notin DOMAIN M /\ l \in I
      <4>1. map = rest  BY <3>6
      <4> QED BY <1>6, <3>3, <3>4, <3>6, <4>1 DEF MapWithout
    <3>7. CASE l \notin I
      <4>1. map = Extended(rest, i, l)  BY <3>7
      <4>2. l \notin DOMAIN M  BY <3>1, <3>7
      <4> HIDE DEF rest, map, M
      <4>3. MapWith(map, rest, i, l)
        <5>1. rest \in Maps  BY <3>4 DEF MapWithout
        <5> QED BY <1>1, <4>1, <5>1, ExtendedGives
      <4> HIDE DEF l, I
      <4> QED BY <1>1, <1>6, <3>3, <3>4, <3>7, <4>2, <4>3 DEF MapWith, MapWithout
    <3> QED BY <3>1, <3>5, <3>6, <3>7
  <2> HIDE DEF c, a, a1, a2, map
  <2>10. /\ c \in TableBuilder /\ c.deletions = E /\ c.insertions = J /\ c.modifications = mods
         /\ c.mapping = map
    <3> HIDE DEF E, J
    <3> QED BY <2>3, <2>8, <2>9 DEF TableBuilder, Maps
  <2>11. mods = Replaced(b.modifications, l, i)  BY <1>6 DEF mods
  <2>12. E = D \cup ({i, l} \ I) /\ J = (I \ {l}) \cup ({i} \ {l})  BY <1>6
  <2> DEFINE f == c.mapping
  <2>13. f = map  BY <2>10
  <2> HIDE DEF E, J, D, I, M, l, f
  <2>14. /\ \A j \in Nat : j \in DOMAIN f <=>
                  \/ j \in DOMAIN M /\ j # i /\ j # l
                  \/ j = i /\ i # l /\ (l \in DOMAIN M \/ l \notin I)
         /\ \A j \in DOMAIN M : j # i /\ j # l => f[j] = M[j]
         /\ i # l /\ l \in DOMAIN M => f[i] = M[l]
         /\ i # l /\ l \notin I => f[i] = l
    BY <2>9, <2>13
  <2> QED BY <1>6, <2>7, <2>10, <2>11, <2>12, <2>14 DEF MovedOverParts, D, I, M, f, l, c
<1> QED BY <1>5, <1>6 DEF c

\* c is b after the row at each j has come from g[j].
Turned(b, c, m, n, g) ==
    /\ Shape(c, m, n, {})
    /\ b.deletions \subseteq c.deletions /\ c.deletions \subseteq b.deletions \cup 0 .. m - 1
    /\ \A i \in 0 .. m - 1, j \in 0 .. n - 1 : CameFrom(c, i, j) <=> CameFrom(b, i, g[j])

OverPlaces(n, i) == [j \in 0 .. n - 2 |-> Over(n, i, j)]

\* The rows that MovedOver leaves are those that were there, one of them elsewhere.
LEMMA ShapeMovedOver ==
    ASSUME NEW m \in Nat, NEW n \in Nat \ {0}, NEW b, NEW i \in 0 .. n - 1, Shape(b, m, n, {i}),
           NEW c, MovedOverParts(c, b, n, i)
    PROVE  Turned(b, c, m, n - 1, OverPlaces(n, i))
<1> DEFINE D == b.deletions
           I == b.insertions
           M == b.mapping
           l == n - 1
           E == c.deletions
           J == c.insertions
           f == c.mapping
<1>1. /\ l \in Nat /\ i \in Nat /\ i <= l /\ l \in 0 .. n - 1 /\ n - 2 = l - 1 /\ I \subseteq 0 .. l
      /\ DOMAIN M \subseteq I /\ I \subseteq Nat /\ D \subseteq Nat
  BY DEF Shape, TableBuilder
<1>2. \A k \in Nat : (k < m /\ k \notin D) <=> (k <= l /\ k \notin I)
  <2>1. \A k \in Nat : (k < m /\ k \notin D) <=> (k < n /\ k \notin I)  BY DEF Shape
  <2>2. \A k \in Nat : k < n <=> k <= l  OBVIOUS
  <2> QED BY <2>1, <2>2
<1>3. \A j \in DOMAIN M : M[j] \in 0 .. m - 1 /\ (M[j] \in D \/ M[j] = i)  BY DEF Shape
<1>4. /\ c \in TableBuilder /\ IsFiniteSet(E)
      /\ E = D \cup ({i, l} \ I) /\ J = (I \ {l}) \cup ({i} \ {l})
      /\ \A j \in Nat : j \in DOMAIN f <=>
            \/ j \in DOMAIN M /\ j # i /\ j # l
            \/ j = i /\ i # l /\ (l \in DOMAIN M \/ l \notin I)
      /\ \A j \in DOMAIN M : j # i /\ j # l => f[j] = M[j]
      /\ i # l /\ l \in DOMAIN M => f[i] = M[l]
      /\ i # l /\ l \notin I => f[i] = l
  BY Zenon DEF MovedOverParts
<1>5. DOMAIN f \subseteq Nat  BY <1>4 DEF TableBuilder
<1> HIDE DEF D, I, M, E, J, f, l
<1>6. l \notin I => l < m  BY <1>1, <1>2
<1>7. i \notin I => i < m  BY <1>1, <1>2
<1>8. J \subseteq 0 .. l - 1  BY <1>1, <1>4
<1>9. DOMAIN f \subseteq J  BY <1>1, <1>4, <1>5
<1>10. ASSUME NEW k \in Nat
       PROVE  (k < m /\ k \notin E) <=> (k < l /\ k \notin J)
  <2>1. (k < m /\ k \notin D) <=> (k <= l /\ k \notin I)  BY <1>2
  <2>2. k < l <=> k <= l /\ k # l  BY <1>1
  <2> QED BY <1>4, <2>1, <2>2
<1>11. \A j \in DOMAIN M : M[j] \in 0 .. m - 1 /\ M[j] \in E
  <2>1. ASSUME i < m PROVE i \in E  BY <1>1, <1>2, <1>4, <2>1
  <2>2. ASSUME NEW j \in DOMAIN M PROVE M[j] \in 0 .. m - 1 /\ M[j] \in E
    <3>1. CASE M[j] \in D  BY <1>3, <1>4, <3>1
    <3>2. CASE M[j] = i  BY <1>3, <2>1, <3>2
    <3> QED BY <1>3, <3>1, <3>2
  <2> QED BY <2>2
<1>12. ASSUME NEW j \in DOMAIN f PROVE f[j] \in 0 .. m - 1 /\ f[j] \in E
  <2>1. CASE j \in DOMAIN M /\ j # i /\ j # l  BY <1>4, <1>11, <2>1
  <2>2. CASE j = i /\ i # l /\ l \in DOMAIN M  BY <1>4, <1>11, <2>2
  <2>3. CASE j = i /\ i # l /\ l \notin I  BY <1>1, <1>4, <1>6, <2>3
  <2> QED BY <1>4, <1>5, <2>1, <2>2, <2>3
<1>13. Shape(c, m, l, {})  BY <1>4, <1>8, <1>9, <1>10, <1>12 DEF Shape, E, J, f
<1>14. D \subseteq E /\ E \subseteq D \cup 0 .. m - 1
  <2>1. {i, l} \ I \subseteq 0 .. m - 1  BY <1>1, <1>6, <1>7
  <2> QED BY <1>4, <2>1
<1>15. ASSUME NEW k \in 0 .. m - 1, NEW j \in 0 .. l - 1
       PROVE  CameFrom(c, k, j) <=> CameFrom(b, k, Over(n, i, j))
  <2>1. CASE j # i
    <3>1. Over(n, i, j) = j  BY <2>1 DEF Over
    <3>2. j \in Nat /\ j # l  BY <1>1
    <3>3. j \in J <=> j \in I  BY <1>4, <2>1, <3>2
    <3>4. j \in DOMAIN f <=> j \in DOMAIN M  BY <1>4, <2>1, <3>2
    <3>5. j \in DOMAIN M => f[j] = M[j]  BY <1>4, <2>1, <3>2
    <3> QED BY <3>1, <3>3, <3>4, <3>5 DEF CameFrom, I, J, M, f
  <2>2. CASE j = i
    <3>1. Over(n, i, j) = l /\ i # l  BY <1>1, <2>2 DEF Over, l
    <3>2. j \in J  BY <1>4, <2>2, <3>1
    <3>3. j \in DOMAIN f <=> (l \in DOMAIN M \/ l \notin I)  BY <1>1, <1>4, <2>2, <3>1
    <3>4. l \in DOMAIN M => f[j] = M[l]  BY <1>4, <2>2, <3>1
    <3>5. l \notin I => f[j] = l  BY <1>4, <2>2, <3>1
    <3> DEFINE o == Over(n, i, j)
    <3>6. o = l  BY <3>1
    <3> HIDE DEF o
    <3>7. CameFrom(c, k, j) <=> j \in DOMAIN f /\ f[j] = k  BY <3>2 DEF CameFrom, J, f
    <3>8. CameFrom(b, k, o) <=> \/ l \notin I /\ k = l
                                \/ l \in DOMAIN M /\ M[l] = k
      BY <3>6 DEF CameFrom, I, M
    <3>9. l \in DOMAIN M => l \in I  BY <1>1
    <3> QED BY <3>3, <3>4, <3>5, <3>7, <3>8, <3>9 DEF o
  <2> QED BY <2>1, <2>2
<1>16. \A j \in 0 .. l - 1 : OverPlaces(n, i)[j] = Over(n, i, j)  BY <1>1 DEF OverPlaces
<1> QED BY <1>13, <1>14, <1>15, <1>16 DEF Turned, D, E, l

\* What Subsumed does: the row at new is the one that was at old.
SubsumedParts(c, b, m, n, old, new) ==
    /\ Shape(c, m, n, {old}) /\ c.deletions = b.deletions /\ c.insertions = b.insertions
    /\ c.modifications = b.modifications \cup (IF old \in b.modifications THEN {new} ELSE {})
    /\ \A k \in 0 .. n - 1 : k # old =>
        \A i \in 0 .. m - 1 : CameFrom(c, i, k) <=> CameFrom(b, i, IF k = new THEN old ELSE k)

\* subsume gives the new row the place that the old one had in the old table.
LEMMA SubsumedGives ==
    ASSUME NEW m \in Nat, NEW n \in Nat, NEW b, Shape(b, m, n, {}),
           NEW old \in 0 .. n - 1, NEW new \in 0 .. n - 1, old # new,
           new \in b.insertions, new \notin DOMAIN b.mapping
    PROVE  SubsumedParts(Subsumed(b, old, new, TRUE), b, m, n, old, new)
<1> DEFINE D == b.deletions
           I == b.insertions
           M == b.mapping
           mods == b.modifications \cup (IF old \in b.modifications THEN {new} ELSE {})
           a == [b EXCEPT !.modifications = mods]
           c == Subsumed(b, old, new, TRUE)
           f == CASE old \in DOMAIN M -> Extended(Without(M, old), new, M[old])
                  [] old \notin DOMAIN M /\ old \notin I -> Extended(M, new, old)
                  [] OTHER -> M
<1>1. /\ b \in TableBuilder /\ D \in SUBSET Nat /\ I \in SUBSET Nat /\ M \in Maps
      /\ b.modifications \in SUBSET Nat /\ DOMAIN M \subseteq I /\ DOMAIN M \in SUBSET Nat
      /\ old \in Nat /\ new \in Nat
  BY DEF Shape, TableBuilder, Maps
<1>2. mods \in SUBSET Nat  BY <1>1
<1>3. old \notin I => old \in 0 .. m - 1 /\ Source(b, old) = old  BY StaysThere
<1>4. \A j \in DOMAIN M : M[j] \in 0 .. m - 1 /\ M[j] \in D  BY DEF Shape
<1>5. c = [a EXCEPT !.mapping = f]
  <2>1. a = [b EXCEPT !.modifications = @ \cup (IF old \in @ THEN {new} ELSE {})]  OBVIOUS
  <2>2. a.mapping = M /\ a = [a EXCEPT !.mapping = M]  BY <1>1 DEF TableBuilder
  <2> HIDE DEF a
  <2>3. CASE old \in DOMAIN M
    <3>1. c = [a EXCEPT !.mapping = Extended(Without(@, old), new, @[old])]
      BY <2>1, <2>3 DEF Subsumed
    <3> QED BY <2>2, <2>3, <3>1
  <2>4. CASE old \notin DOMAIN M /\ old \in I
    <3>1. c = a  BY <2>1, <2>4 DEF Subsumed
    <3>2. f = M  BY <2>4
    <3> QED BY <2>2, <3>1, <3>2
  <2>5. CASE old \notin DOMAIN M /\ old \notin I
    <3>1. c = [a EXCEPT !.mapping = Extended(@, new, Source(b, old))]  BY <2>1, <2>5 DEF Subsumed
    <3> QED BY <1>3, <2>2, <2>5, <3>1
  <2> QED BY <2>3, <2>4, <2>5
<1>6. /\ f \in Maps
      /\ \A j \in Nat : j \in DOMAIN f <=>
            \/ j \in DOMAIN M /\ j # old
            \/ j = new /\ (old \in DOMAIN M \/ old \notin I)
      /\ \A j \in DOMAIN M : j # old => f[j] = M[j]
      /\ old \in DOMAIN M => f[new] = M[old]
      /\ old \notin I => f[new] = old
  <2>1. CASE old \in DOMAIN M
    <3> DEFINE w == Without(M, old)
    <3>1. MapWithout(w, M, old)  BY <1>1, WithoutGives
    <3>2. f = Extended(w, new, M[old])  BY <2>1
    <3> HIDE DEF w, f, M
    <3>3. w \in Maps /\ M[old] \in Nat  BY <1>1, <2>1, <3>1, MapsAre DEF MapWithout
    <3>4. MapWith(f, w, new, M[old])  BY <1>1, <3>2, <3>3, ExtendedGives
    <3> HIDE DEF I
    <3> QED BY <1>1, <2>1, <3>1, <3>4 DEF MapWith, MapWithout, M
  <2>2. CASE old \notin DOMAIN M /\ old \in I
    <3>1. f = M  BY <2>2
    <3> QED BY <1>1, <2>2, <3>1
  <2>3. CASE old \notin DOMAIN M /\ old \notin I
    <3>1. f = Extended(M, new, old)  BY <2>3
    <3> HIDE DEF f, M
    <3>2. MapWith(f, M, new, old)  BY <1>1, <3>1, ExtendedGives
    <3> HIDE DEF I
    <3> QED BY <1>1, <2>3, <3>2 DEF MapWith, M
  <2> QED BY <2>1, <2>2, <2>3
<1> HIDE DEF f, c, mods
<1>7. /\ c \in TableBuilder /\ c.deletions = D /\ c.insertions = I /\ c.modifications = mods /\ c.mapping = f
  <2>1. a \in TableBuilder /\ a.deletions = D /\ a.insertions = I /\ a.modifications = mods
    BY <1>1, <1>2 DEF TableBuilder
  <2> HIDE DEF a
  <2> QED BY <1>5, <1>6, <2>1 DEF TableBuilder, Maps
<1> DEFINE g == c.mapping
<1>8. g = f  BY <1>7
<1> HIDE DEF g
<1>9. DOMAIN f \subseteq Nat  BY <1>6, MapsAre
<1>10. Shape(c, m, n, {old})
  <2>1. IsFiniteSet(D) /\ I \subseteq 0 .. n - 1
        /\ \A i \in Nat : (i < m /\ i \notin D) <=> (i < n /\ i \notin I)
    BY DEF Shape
  <2> HIDE DEF D, I, M
  <2>2. DOMAIN g \subseteq I  BY <1>1, <1>6, <1>8, <1>9 DEF I, M
  <2>3. ASSUME NEW j \in DOMAIN g PROVE g[j] \in 0 .. m - 1 /\ (g[j] \in D \/ g[j] \in {old})
    BY <1>3, <1>4, <1>6, <1>8, <1>9 DEF I
  <2> QED BY <1>7, <2>1, <2>2, <2>3 DEF Shape, g
<1>11. ASSUME NEW k \in 0 .. n - 1, k # old, NEW i \in 0 .. m - 1
       PROVE  CameFrom(c, i, k) <=> CameFrom(b, i, IF k = new THEN old ELSE k)
  <2> HIDE DEF D, I, M
  <2>1. k \in Nat  OBVIOUS
  <2>2. CameFrom(c, i, k) <=> \/ k \notin I /\ i = k
                              \/ k \in DOMAIN f /\ f[k] = i
    BY <1>7 DEF CameFrom
  <2>3. CASE k = new
    <3>1. CameFrom(b, i, old) <=> \/ old \notin I /\ i = old
                                  \/ old \in DOMAIN M /\ M[old] = i
      BY DEF CameFrom, I, M
    <3>2. new \in I /\ new \notin DOMAIN M  BY DEF I, M
    <3> QED BY <1>1, <1>6, <2>2, <2>3, <3>1, <3>2
  <2>4. CASE k # new
    <3>1. CameFrom(b, i, k) <=> \/ k \notin I /\ i = k
                                \/ k \in DOMAIN M /\ M[k] = i
      BY DEF CameFrom, I, M
    <3>2. k \in DOMAIN f <=> k \in DOMAIN M  BY <1>6, <1>11, <2>1, <2>4
    <3>3. k \in DOMAIN M => f[k] = M[k]  BY <1>6, <1>11
    <3> QED BY <2>2, <2>4, <3>1, <3>2, <3>3
  <2> QED BY <2>3, <2>4
<1> QED BY <1>7, <1>10, <1>11 DEF SubsumedParts, mods, c

\* Where the row at j was before one row took the place of another, and the last one its place.
MergePlaces(n, old, new) ==
    [j \in 0 .. n - 2 |-> IF Over(n, old, j) = new THEN old ELSE Over(n, old, j)]

\* After subsume and move_over the rows are where merge_rows leaves them.
LEMMA ShapeMerged ==
    ASSUME NEW m \in Nat, NEW n \in Nat \ {0}, NEW b, Shape(b, m, n, {}),
           NEW old \in 0 .. n - 1, NEW new \in 0 .. n - 1, old # new,
           new \in b.insertions, new \notin DOMAIN b.mapping
    PROVE  Turned(b, MovedOver(Subsumed(b, old, new, TRUE), old, n - 1, TRUE), m, n - 1,
                  MergePlaces(n, old, new))
<1> DEFINE s == Subsumed(b, old, new, TRUE)
           c == MovedOver(s, old, n - 1, TRUE)
<1>1. SubsumedParts(s, b, m, n, old, new)  BY SubsumedGives
<1>2. Shape(s, m, n, {old}) /\ s.deletions = b.deletions  BY <1>1 DEF SubsumedParts
<1> HIDE DEF s
<1>3. MovedOverParts(c, s, n, old)  BY <1>2, MovedOverGives
<1> HIDE DEF c
<1>4. Turned(s, c, m, n - 1, OverPlaces(n, old))  BY <1>2, <1>3, ShapeMovedOver
<1>5. ASSUME NEW i \in 0 .. m - 1, NEW j \in 0 .. (n - 1) - 1
      PROVE  CameFrom(c, i, j) <=> CameFrom(b, i, MergePlaces(n, old, new)[j])
  <2> DEFINE k == Over(n, old, j)
  <2>1. j \in 0 .. n - 2  OBVIOUS
  <2>2. OverPlaces(n, old)[j] = k /\ MergePlaces(n, old, new)[j] = IF k = new THEN old ELSE k
    BY <2>1 DEF OverPlaces, MergePlaces
  <2>3. k \in 0 .. n - 1 /\ k # old  BY DEF Over
  <2> HIDE DEF k
  <2>4. CameFrom(c, i, j) <=> CameFrom(s, i, k)  BY <1>4, <2>2 DEF Turned
  <2>5. CameFrom(s, i, k) <=> CameFrom(b, i, IF k = new THEN old ELSE k)
    BY <1>1, <2>3 DEF SubsumedParts
  <2> QED BY <2>2, <2>4, <2>5
<1> QED BY <1>2, <1>4, <1>5 DEF Turned, c, s

\* SwappedOne does nothing for a row that the mapping knows or that is new.
OneParts(c, a, i, j) ==
    /\ c \in TableBuilder /\ IsFiniteSet(c.deletions) /\ c.modifications = a.modifications
    /\ c.deletions = a.deletions \cup ({i} \ a.insertions) /\ c.insertions = a.insertions \cup {i}
    /\ i \in a.insertions => c.mapping = a.mapping
    /\ i \notin a.insertions => MapWith(c.mapping, a.mapping, j, i)

\* Half of swap, for a row that is new and for one that is not.
LEMMA SwappedOneGives ==
    ASSUME NEW a \in TableBuilder, IsFiniteSet(a.deletions), NEW i \in Nat, NEW j \in Nat,
           i \notin a.insertions =>
                i \notin a.deletions /\ \A k \in Nat : k < i => (k \in a.deletions <=> k \in a.insertions)
    PROVE  OneParts(SwappedOne(a, i, j), a, i, j)
<1> DEFINE D == a.deletions
           I == a.insertions
           M == a.mapping
           c == SwappedOne(a, i, j)
<1>1. D \in SUBSET Nat /\ I \in SUBSET Nat /\ M \in Maps  BY DEF TableBuilder, Maps
<1>2. CASE i \in I
  <2>1. c = a /\ {i} \ I = {} /\ I \cup {i} = I  BY <1>2 DEF SwappedOne
  <2> QED BY <1>2, <2>1 DEF OneParts
<1>3. CASE i \notin I
  <2> DEFINE f == Extended(M, j, i)
  <2>1. Source(a, i) = i /\ Lost(a, i) = D \cup {i}
    <3> HIDE DEF D, I
    <3>1. Shift(D, Unshift(I, i)) = i /\ AddShifted(D, Unshift(I, i)) = D \cup {i}
      BY <1>1, <1>3, SameCounted DEF D, I
    <3> QED BY <3>1 DEF Source, Lost, D, I
  <2>2. c = [a EXCEPT !.mapping = Extended(@, j, Source(a, i)), !.deletions = Lost(a, i),
                      !.insertions = @ \cup {i}]
    BY <1>3 DEF SwappedOne
  <2>3. MapWith(f, M, j, i)  BY <1>1, ExtendedGives
  <2>4. f \in Maps  BY <2>3 DEF MapWith
  <2>5. D \cup {i} \in SUBSET Nat /\ I \cup {i} \in SUBSET Nat /\ IsFiniteSet(D \cup {i}) /\ {i} \ I = {i}
    BY <1>1, <1>3, FS_AddElement
  <2>6. /\ c \in TableBuilder /\ c.deletions = D \cup {i} /\ c.insertions = I \cup {i}
        /\ c.mapping = f /\ c.modifications = a.modifications
    <3>1. c = [a EXCEPT !.mapping = f, !.deletions = D \cup {i}, !.insertions = I \cup {i}]
      BY <2>1, <2>2
    <3> DEFINE E == D \cup {i}
               J == I \cup {i}
    <3>2. E \in SUBSET Nat /\ J \in SUBSET Nat  BY <2>5
    <3> HIDE DEF c, f, E, J
    <3>3. /\ c \in TableBuilder /\ c.deletions = E /\ c.insertions = J
          /\ c.mapping = f /\ c.modifications = a.modifications
      BY <2>4, <3>1, <3>2 DEF TableBuilder, Maps, E, J
    <3> QED BY <3>3 DEF E, J
  <2> HIDE DEF c, f
  <2> QED BY <1>3, <2>3, <2>5, <2>6 DEF OneParts, c
<1> QED BY <1>2, <1>3

Exchange(lo, hi, k) == IF k = lo THEN hi ELSE IF k = hi THEN lo ELSE k
Exchanged(S, lo, hi) == {Exchange(lo, hi, k) : k \in S}

\* Each of the two rows is where the other one was.
SwappedMap(f, M, I, lo, hi) ==
    /\ \A j \in Nat : j \in DOMAIN f <=>
            \/ j \in DOMAIN M /\ j # lo /\ j # hi
            \/ j = lo /\ (hi \in DOMAIN M \/ hi \notin I)
            \/ j = hi /\ (lo \in DOMAIN M \/ lo \notin I)
    /\ \A j \in DOMAIN M : j # lo /\ j # hi => f[j] = M[j]
    /\ hi \in DOMAIN M => f[lo] = M[hi]
    /\ hi \notin I => f[lo] = hi
    /\ lo \in DOMAIN M => f[hi] = M[lo]
    /\ lo \notin I => f[hi] = lo
SwappedParts(c, b, lo, hi) ==
    /\ c \in TableBuilder /\ IsFiniteSet(c.deletions)
    /\ c.deletions = b.deletions \cup ({lo, hi} \ b.insertions)
    /\ c.insertions = b.insertions \cup {lo, hi}
    /\ c.modifications = Exchanged(b.modifications, lo, hi)
    /\ SwappedMap(c.mapping, b.mapping, b.insertions, lo, hi)

\* The four cases of Swapped.
Updated(a, k, l) == SwappedOne([a EXCEPT !.mapping = Extended(Without(@, k), l, @[k])], l, k)

\* swap, for rows that have been moved before and rows that have not.
LEMMA SwappedIs ==
    ASSUME NEW b \in TableBuilder, NEW lo \in Nat, NEW hi \in Nat, lo < hi
    PROVE  LET a == [b EXCEPT !.modifications = Exchanged(@, lo, hi)]
               M == DOMAIN b.mapping
               c == Swapped(b, lo, hi, TRUE)
           IN /\ lo \in M /\ hi \in M =>
                    c = [a EXCEPT !.mapping = [@ EXCEPT ![lo] = b.mapping[hi], ![hi] = b.mapping[lo]]]
              /\ lo \in M /\ hi \notin M => c = Updated(a, lo, hi)
              /\ lo \notin M /\ hi \in M => c = Updated(a, hi, lo)
              /\ lo \notin M /\ hi \notin M => c = SwappedOne(SwappedOne(a, hi, lo), lo, hi)
<1>1. Min({lo, hi}) = lo  BY DEF Min
<1>2. Max({lo, hi}) = hi  BY DEF Max
<1> QED BY <1>1, <1>2 DEF Swapped, Updated, Exchanged, Exchange

\* What Shape says of the rows that stay, as SwappedOneGives asks for it.
LEMMA SameBelow ==
    ASSUME NEW m \in Nat, NEW n \in Nat, NEW b, NEW X, Shape(b, m, n, X), NEW i \in 0 .. n - 1,
           i \notin b.insertions
    PROVE  i \notin b.deletions /\ \A k \in Nat : k < i => (k \in b.deletions <=> k \in b.insertions)
<1>1. i < m /\ i \notin b.deletions  BY StaysThere
<1>2. \A k \in Nat : (k < m /\ k \notin b.deletions) <=> (k < n /\ k \notin b.insertions)
  BY DEF Shape
<1>3. \A k \in Nat : k < i => k < m /\ k < n  BY <1>1
<1> QED BY <1>1, <1>2, <1>3

\* One of the two rows has been moved before.
LEMMA UpdatedGives ==
    ASSUME NEW a \in TableBuilder, IsFiniteSet(a.deletions), NEW k \in Nat, NEW l \in Nat, k # l,
           DOMAIN a.mapping \subseteq a.insertions, k \in DOMAIN a.mapping, l \notin DOMAIN a.mapping,
           l \notin a.insertions =>
                l \notin a.deletions /\ \A j \in Nat : j < l => (j \in a.deletions <=> j \in a.insertions)
    PROVE  LET c == Updated(a, k, l) IN
           /\ c \in TableBuilder /\ IsFiniteSet(c.deletions) /\ c.modifications = a.modifications
           /\ c.deletions = a.deletions \cup ({l} \ a.insertions) /\ c.insertions = a.insertions \cup {l}
           /\ SwappedMap(c.mapping, a.mapping, a.insertions, k, l)
<1> DEFINE D == a.deletions
           I == a.insertions
           M == a.mapping
           w == Without(M, k)
           f1 == Extended(w, l, M[k])
           a1 == [a EXCEPT !.mapping = f1]
           c == SwappedOne(a1, l, k)
           f == c.mapping
<1>1. c = Updated(a, k, l)  BY DEF Updated
<1>2. D \in SUBSET Nat /\ I \in SUBSET Nat /\ M \in Maps /\ DOMAIN M \in SUBSET Nat /\ M[k] \in Nat
  BY MapsAre DEF TableBuilder, Maps
<1>3. MapWithout(w, M, k)  BY <1>2, WithoutGives
<1> HIDE DEF w
<1>4. MapWith(f1, w, l, M[k])  BY <1>2, <1>3, ExtendedGives DEF MapWithout
<1>5. f1 \in Maps  BY <1>4 DEF MapWith
<1> HIDE DEF f1
<1>6. /\ a1 \in TableBuilder /\ a1.deletions = D /\ a1.insertions = I /\ a1.modifications = a.modifications
      /\ a1.mapping = f1
  BY <1>5 DEF TableBuilder, Maps
<1> HIDE DEF a1
<1>7. OneParts(c, a1, l, k)  BY <1>6, SwappedOneGives
<1> HIDE DEF c, f
<1>8. /\ c \in TableBuilder /\ IsFiniteSet(c.deletions) /\ c.modifications = a.modifications
      /\ c.deletions = D \cup ({l} \ I) /\ c.insertions = I \cup {l}
      /\ l \in I => f = f1
      /\ l \notin I => MapWith(f, f1, k, l)
  BY <1>6, <1>7 DEF OneParts, f
<1>9. k \in I  OBVIOUS
<1> HIDE DEF I, M
<1>10. /\ DOMAIN f1 = (DOMAIN M \ {k}) \cup {l} /\ f1[l] = M[k]
       /\ \A j \in DOMAIN M : j # k /\ j # l => f1[j] = M[j]
  BY <1>3, <1>4 DEF MapWith, MapWithout
<1>11. /\ DOMAIN f = IF l \in I THEN DOMAIN f1 ELSE DOMAIN f1 \cup {k}
       /\ \A j \in DOMAIN f1 : j # k => f[j] = f1[j]
       /\ l \notin I => f[k] = l
  BY <1>8 DEF MapWith
<1>12. k \in DOMAIN M /\ l \notin DOMAIN M  BY DEF M
<1>13. SwappedMap(f, M, I, k, l)  BY <1>2, <1>9, <1>10, <1>11, <1>12 DEF SwappedMap
<1> QED BY <1>1, <1>8, <1>13 DEF I, M, f

\* What Swapped does to a change set.
LEMMA SwappedGives ==
    ASSUME NEW m \in Nat, NEW n \in Nat, NEW b, Shape(b, m, n, {}),
           NEW lo \in 0 .. n - 1, NEW hi \in 0 .. n - 1, lo < hi
    PROVE  SwappedParts(Swapped(b, lo, hi, TRUE), b, lo, hi)
<1> DEFINE D == b.deletions
           I == b.insertions
           M == b.mapping
           mods == Exchanged(b.modifications, lo, hi)
           a == [b EXCEPT !.modifications = mods]
           c == Swapped(b, lo, hi, TRUE)
<1>1. /\ b \in TableBuilder /\ D \in SUBSET Nat /\ I \in SUBSET Nat /\ M \in Maps /\ DOMAIN M \in SUBSET Nat
      /\ b.modifications \in SUBSET Nat /\ IsFiniteSet(D) /\ DOMAIN M \subseteq I
      /\ lo \in Nat /\ hi \in Nat
  BY DEF Shape, TableBuilder, Maps
<1>2. mods \in SUBSET Nat  BY <1>1 DEF Exchanged, Exchange
<1>3. /\ lo \in DOMAIN M /\ hi \in DOMAIN M =>
            c = [a EXCEPT !.mapping = [@ EXCEPT ![lo] = M[hi], ![hi] = M[lo]]]
      /\ lo \in DOMAIN M /\ hi \notin DOMAIN M => c = Updated(a, lo, hi)
      /\ lo \notin DOMAIN M /\ hi \in DOMAIN M => c = Updated(a, hi, lo)
      /\ lo \notin DOMAIN M /\ hi \notin DOMAIN M => c = SwappedOne(SwappedOne(a, hi, lo), lo, hi)
  BY <1>1, SwappedIs
<1> HIDE DEF mods
<1>4. /\ a \in TableBuilder /\ a.deletions = D /\ a.insertions = I /\ a.modifications = mods /\ a.mapping = M
  BY <1>1, <1>2 DEF TableBuilder, Maps
<1>5. lo \notin I => lo \notin D /\ \A k \in Nat : k < lo => (k \in D <=> k \in I)  BY SameBelow
<1>6. hi \notin I => hi \notin D /\ \A k \in Nat : k < hi => (k \in D <=> k \in I)  BY SameBelow
<1> HIDE DEF a, c
<1> DEFINE Parts(f) ==
                /\ c \in TableBuilder /\ IsFiniteSet(c.deletions)
                /\ c.deletions = D \cup ({lo, hi} \ I) /\ c.insertions = I \cup {lo, hi}
                /\ c.modifications = mods /\ f = c.mapping
                /\ SwappedMap(f, M, I, lo, hi)
<1>7. CASE lo \in DOMAIN M /\ hi \in DOMAIN M
  <2> DEFINE f == [M EXCEPT ![lo] = M[hi], ![hi] = M[lo]]
  <2>1. M[lo] \in Nat /\ M[hi] \in Nat  BY <1>1, <1>7, MapsAre
  <2>2. PICK S \in SUBSET Nat : M \in [S -> Nat]  BY <1>1 DEF Maps
  <2>3. /\ f \in [S -> Nat] /\ DOMAIN f = DOMAIN M /\ f[lo] = M[hi] /\ f[hi] = M[lo]
        /\ \A j \in DOMAIN M : j # lo /\ j # hi => f[j] = M[j]
    <3> HIDE DEF M
    <3> QED BY <1>7, <2>1, <2>2
  <2>4. f \in Maps  BY <2>3 DEF Maps
  <2>5. c = [a EXCEPT !.mapping = f]  BY <1>3, <1>4, <1>7
  <2> HIDE DEF f
  <2>6. /\ c \in TableBuilder /\ c.deletions = D /\ c.insertions = I /\ c.modifications = mods /\ c.mapping = f
    BY <1>4, <2>4, <2>5 DEF TableBuilder, Maps
  <2>7. {lo, hi} \ I = {} /\ I \cup {lo, hi} = I  BY <1>1, <1>7
  <2>8. SwappedMap(f, M, I, lo, hi)
    <3> HIDE DEF M, I
    <3> QED BY <1>1, <1>7, <2>3 DEF SwappedMap
  <2>9. Parts(c.mapping)  BY <1>1, <2>6, <2>7, <2>8
  <2> QED BY <2>9 DEF SwappedParts, c, mods
<1>8. CASE lo \in DOMAIN M /\ hi \notin DOMAIN M
  <2>1. c = Updated(a, lo, hi)  BY <1>3, <1>8
  <2>2. /\ c \in TableBuilder /\ IsFiniteSet(c.deletions) /\ c.modifications = mods
        /\ c.deletions = D \cup ({hi} \ I) /\ c.insertions = I \cup {hi}
        /\ SwappedMap(c.mapping, M, I, lo, hi)
    BY <1>1, <1>4, <1>6, <1>8, <2>1, UpdatedGives
  <2>3. {hi} \ I = {lo, hi} \ I /\ I \cup {hi} = I \cup {lo, hi}  BY <1>1, <1>8
  <2> QED BY <2>2, <2>3 DEF SwappedParts, c, mods
<1>9. CASE lo \notin DOMAIN M /\ hi \in DOMAIN M
  <2>1. c = Updated(a, hi, lo)  BY <1>3, <1>9
  <2>2. /\ c \in TableBuilder /\ IsFiniteSet(c.deletions) /\ c.modifications = mods
        /\ c.deletions = D \cup ({lo} \ I) /\ c.insertions = I \cup {lo}
        /\ SwappedMap(c.mapping, M, I, hi, lo)
    BY <1>1, <1>4, <1>5, <1>9, <2>1, UpdatedGives
  <2>3. {lo} \ I = {lo, hi} \ I /\ I \cup {lo} = I \cup {lo, hi}  BY <1>1, <1>9
  <2>4. SwappedMap(c.mapping, M, I, lo, hi)  BY <2>2, Zenon DEF SwappedMap
  <2> QED BY <2>2, <2>3, <2>4 DEF SwappedParts, c, mods
<1>10. CASE lo \notin DOMAIN M /\ hi \notin DOMAIN M
  <2> DEFINE x == SwappedOne(a, hi, lo)
  <2>1. c = SwappedOne(x, lo, hi)  BY <1>3, <1>10
  <2>2. OneParts(x, a, hi, lo)  BY <1>1, <1>4, <1>6, SwappedOneGives
  <2> HIDE DEF x
  <2>3. /\ x \in TableBuilder /\ IsFiniteSet(x.deletions) /\ x.modifications = mods
        /\ x.deletions = D \cup ({hi} \ I) /\ x.insertions = I \cup {hi}
        /\ hi \in I => x.mapping = M
        /\ hi \notin I => MapWith(x.mapping, M, lo, hi)
    BY <1>4, <2>2 DEF OneParts
  <2> HIDE DEF D, I, M
  <2>4. lo \in I <=> lo \in x.insertions  BY <1>1, <2>3
  <2>5. lo \notin x.insertions =>
          lo \notin x.deletions /\ \A k \in Nat : k < lo => (k \in x.deletions <=> k \in x.insertions)
    <3>1. \A k \in Nat : k < lo => k # hi  BY <1>1
    <3> QED BY <1>1, <1>5, <2>3, <2>4, <3>1 DEF D, I
  <2>6. OneParts(c, x, lo, hi)  BY <1>1, <2>1, <2>3, <2>5, SwappedOneGives
  <2>7. /\ c \in TableBuilder /\ IsFiniteSet(c.deletions) /\ c.modifications = mods
        /\ c.deletions = D \cup ({hi} \ I) \cup ({lo} \ x.insertions) /\ c.insertions = I \cup {hi} \cup {lo}
        /\ lo \in I => c.mapping = x.mapping
        /\ lo \notin I => MapWith(c.mapping, x.mapping, hi, lo)
    BY <2>3, <2>4, <2>6 DEF OneParts
  <2>8. c.deletions = D \cup ({lo, hi} \ I) /\ c.insertions = I \cup {lo, hi}
    BY <1>1, <2>3, <2>4, <2>7
  <2> DEFINE g == x.mapping
             f == c.mapping
  <2> HIDE DEF g, f
  <2>9. /\ DOMAIN g = IF hi \in I THEN DOMAIN M ELSE DOMAIN M \cup {lo}
        /\ \A j \in DOMAIN M : j # lo => g[j] = M[j]
        /\ hi \notin I => g[lo] = hi
    BY <2>3 DEF MapWith, g
  <2>10. /\ DOMAIN f = IF lo \in I THEN DOMAIN g ELSE DOMAIN g \cup {hi}
         /\ \A j \in DOMAIN g : j # hi => f[j] = g[j]
         /\ lo \notin I => f[hi] = lo
    BY <2>7 DEF MapWith, g, f
  <2>11. SwappedMap(f, M, I, lo, hi)  BY <1>1, <1>10, <2>9, <2>10 DEF SwappedMap
  <2> QED BY <2>7, <2>8, <2>11 DEF SwappedParts, f, c, mods, D, I, M
<1> QED BY <1>7, <1>8, <1>9, <1>10

SwapPlaces(n, lo, hi) == [j \in 0 .. n - 1 |-> Exchange(lo, hi, j)]

\* The rows that Swapped leaves are those that were there, two of them in each other's place.
LEMMA ShapeSwapped ==
    ASSUME NEW m \in Nat, NEW n \in Nat, NEW b, Shape(b, m, n, {}),
           NEW lo \in 0 .. n - 1, NEW hi \in 0 .. n - 1, lo < hi, NEW c, SwappedParts(c, b, lo, hi)
    PROVE  Turned(b, c, m, n, SwapPlaces(n, lo, hi))
<1> DEFINE D == b.deletions
           I == b.insertions
           M == b.mapping
           E == c.deletions
           J == c.insertions
           f == c.mapping
<1>1. /\ lo \in Nat /\ hi \in Nat /\ lo # hi /\ lo < n /\ hi < n /\ I \subseteq 0 .. n - 1
      /\ DOMAIN M \subseteq I /\ I \subseteq Nat /\ D \subseteq Nat
  BY DEF Shape, TableBuilder
<1>2. \A k \in Nat : (k < m /\ k \notin D) <=> (k < n /\ k \notin I)  BY DEF Shape
<1>3. \A j \in DOMAIN M : M[j] \in 0 .. m - 1 /\ M[j] \in D  BY DEF Shape
<1>4. /\ c \in TableBuilder /\ IsFiniteSet(E) /\ E = D \cup ({lo, hi} \ I) /\ J = I \cup {lo, hi}
      /\ SwappedMap(f, M, I, lo, hi)
  BY Zenon DEF SwappedParts
<1>5. DOMAIN f \subseteq Nat  BY <1>4 DEF TableBuilder
<1> HIDE DEF D, I, M, E, J, f
<1>6. (lo \notin I => lo < m) /\ (hi \notin I => hi < m)  BY <1>1, <1>2
<1>7. J \subseteq 0 .. n - 1  BY <1>1, <1>4
<1>8. /\ \A j \in Nat : j \in DOMAIN f <=>
            \/ j \in DOMAIN M /\ j # lo /\ j # hi
            \/ j = lo /\ (hi \in DOMAIN M \/ hi \notin I)
            \/ j = hi /\ (lo \in DOMAIN M \/ lo \notin I)
      /\ \A j \in DOMAIN M : j # lo /\ j # hi => f[j] = M[j]
      /\ hi \in DOMAIN M => f[lo] = M[hi]
      /\ hi \notin I => f[lo] = hi
      /\ lo \in DOMAIN M => f[hi] = M[lo]
      /\ lo \notin I => f[hi] = lo
  BY <1>4, Zenon DEF SwappedMap
<1>9. DOMAIN f \subseteq J  BY <1>1, <1>4, <1>5, <1>8
<1>10. ASSUME NEW k \in Nat
       PROVE  (k < m /\ k \notin E) <=> (k < n /\ k \notin J)
  <2>1. (k < m /\ k \notin D) <=> (k < n /\ k \notin I)  BY <1>2
  <2> QED BY <1>1, <1>4, <2>1
<1>11. ASSUME NEW j \in DOMAIN f PROVE f[j] \in 0 .. m - 1 /\ f[j] \in E
  <2>1. CASE j \in DOMAIN M /\ j # lo /\ j # hi  BY <1>3, <1>4, <1>8, <2>1
  <2>2. CASE j = lo  BY <1>1, <1>3, <1>4, <1>6, <1>8, <2>2
  <2>3. CASE j = hi  BY <1>1, <1>3, <1>4, <1>6, <1>8, <2>3
  <2> QED BY <1>5, <1>8, <2>1, <2>2, <2>3
<1>12. Shape(c, m, n, {})  BY <1>4, <1>7, <1>9, <1>10, <1>11 DEF Shape, E, J, f
<1>13. D \subseteq E /\ E \subseteq D \cup 0 .. m - 1
  <2>1. {lo, hi} \ I \subseteq 0 .. m - 1  BY <1>1, <1>6
  <2> QED BY <1>4, <2>1
<1>14. ASSUME NEW k \in 0 .. m - 1, NEW j \in 0 .. n - 1
       PROVE  CameFrom(c, k, j) <=> CameFrom(b, k, Exchange(lo, hi, j))
  <2> DEFINE o == Exchange(lo, hi, j)
  <2>1. o = IF j = lo THEN hi ELSE IF j = hi THEN lo ELSE j  BY DEF Exchange
  <2> HIDE DEF o
  <2>2. CameFrom(c, k, j) <=> \/ j \notin J /\ k = j
                              \/ j \in DOMAIN f /\ f[j] = k
    BY DEF CameFrom, J, f
  <2>3. CameFrom(b, k, o) <=> \/ o \notin I /\ k = o
                              \/ o \in DOMAIN M /\ M[o] = k
    BY DEF CameFrom, I, M
  <2>4. j \in Nat  OBVIOUS
  <2>5. CameFrom(c, k, j) <=> CameFrom(b, k, o)
    <3>1. CASE j # lo /\ j # hi  BY <1>4, <1>8, <2>1, <2>2, <2>3, <2>4, <3>1
    <3>2. CASE j = lo
      <4>1. j \in J /\ o = hi  BY <1>4, <2>1, <3>2
      <4>2. j \in DOMAIN f <=> (hi \in DOMAIN M \/ hi \notin I)  BY <1>1, <1>8, <3>2
      <4> QED BY <1>1, <1>8, <2>2, <2>3, <3>2, <4>1, <4>2
    <3>3. CASE j = hi
      <4>1. j \in J /\ o = lo  BY <1>1, <1>4, <2>1, <3>3
      <4>2. j \in DOMAIN f <=> (lo \in DOMAIN M \/ lo \notin I)  BY <1>1, <1>8, <3>3
      <4> QED BY <1>1, <1>8, <2>2, <2>3, <3>3, <4>1, <4>2
    <3> QED BY <3>1, <3>2, <3>3
  <2> QED BY <2>5 DEF o
<1>15. \A j \in 0 .. n - 1 : SwapPlaces(n, lo, hi)[j] = Exchange(lo, hi, j)  BY DEF SwapPlaces
<1> QED BY <1>12, <1>13, <1>14, <1>15 DEF Turned, D, E

\* A row that is inserted behind the others is new.
Enlarged(c, b, m, n) ==
    /\ Shape(c, m, n + 1, {}) /\ c.deletions = b.deletions /\ c.modifications = b.modifications
    /\ \A i \in 0 .. m - 1 : /\ \A j \in 0 .. n - 1 : CameFrom(c, i, j) <=> CameFrom(b, i, j)
                             /\ ~CameFrom(c, i, n)
\* A row that is inserted at the end of the table is an insertion.
LEMMA ShapeInserted ==
    ASSUME NEW m \in Nat, NEW n \in Nat, NEW b, Shape(b, m, n, {}), b.modifications \subseteq 0 .. n - 1,
           NEW c, c = Inserted(b, n, TRUE)
    PROVE  Enlarged(c, b, m, n)
<1> DEFINE I == b.insertions
           M == b.mapping
           up(j) == IF j >= n THEN j + 1 ELSE j
           f == [j \in {up(k) : k \in DOMAIN M} |-> M[CHOOSE k \in DOMAIN M : up(k) = j]]
<1>1. /\ b \in TableBuilder /\ I \subseteq 0 .. n - 1 /\ M \in Maps /\ DOMAIN M \subseteq I
      /\ b.deletions \in SUBSET Nat /\ b.modifications \in SUBSET Nat /\ b.moves = <<>>
  BY DEF Shape, TableBuilder, Maps
<1>2. \A S \in SUBSET (0 .. n - 1) : MakeRoom(S, n, 1) = S
  <2>1. ASSUME NEW S \in SUBSET (0 .. n - 1) PROVE Below(S, n) = S
    <3>1. \A j \in S : j < n  OBVIOUS
    <3> QED BY <3>1 DEF Below
  <2> QED BY <2>1 DEF MakeRoom
<1>3. InsertIndex(I, n, 1) = I \cup {n}
  <2>1. n .. n + 1 - 1 = {n}  OBVIOUS
  <2> QED BY <1>1, <1>2, <2>1 DEF InsertIndex
<1>4. f = M
  <2>1. \A k \in DOMAIN M : up(k) = k  BY <1>1
  <2>2. {up(k) : k \in DOMAIN M} = DOMAIN M  BY <2>1
  <2>3. ASSUME NEW j \in DOMAIN M PROVE (CHOOSE k \in DOMAIN M : up(k) = j) = j  BY <2>1
  <2> HIDE DEF up
  <2>4. PICK S \in SUBSET Nat : M \in [S -> Nat]  BY <1>1 DEF Maps
  <2>5. M = [j \in DOMAIN M |-> M[j]]  BY <2>4
  <2> HIDE DEF M
  <2> QED BY <2>2, <2>3, <2>5
<1>5. Each(<<>>, LAMBDA v : [v EXCEPT !.to = up(@)]) = <<>>  BY DEF Each
<1>6. c = [b EXCEPT !.modifications = MakeRoom(@, n, 1), !.insertions = InsertIndex(@, n, 1),
                    !.moves = Each(@, LAMBDA v : [v EXCEPT !.to = up(@)]), !.mapping = f]
  BY DEF Inserted
<1> HIDE DEF f
<1>7. c = [b EXCEPT !.modifications = b.modifications, !.insertions = I \cup {n}, !.moves = <<>>, !.mapping = M]
  BY <1>1, <1>2, <1>3, <1>4, <1>5, <1>6
<1>8. I \cup {n} \in SUBSET Nat  BY <1>1
<1> DEFINE J == I \cup {n}
<1> HIDE DEF J
<1>9. /\ c \in TableBuilder /\ c.deletions = b.deletions /\ c.insertions = J
      /\ c.modifications = b.modifications /\ c.mapping = M
  BY <1>1, <1>7, <1>8 DEF TableBuilder, J
<1>10. J \subseteq 0 .. n /\ n = (n + 1) - 1 /\ I \subseteq J  BY <1>1 DEF J
<1>11. \A i \in Nat : (i < m /\ i \notin b.deletions) <=> (i < n + 1 /\ i \notin J)
  <2>1. \A i \in Nat : (i < m /\ i \notin b.deletions) <=> (i < n /\ i \notin I)  BY DEF Shape
  <2>2. \A i \in Nat : i < n + 1 <=> (i < n \/ i = n)  OBVIOUS
  <2> QED BY <2>1, <2>2 DEF J
<1>12. Shape(c, m, n + 1, {})
  <2>1. IsFiniteSet(b.deletions) /\ \A j \in DOMAIN M : M[j] \in 0 .. m - 1 /\ M[j] \in b.deletions
    BY DEF Shape
  <2> HIDE DEF I, M
  <2>2. DOMAIN M \subseteq J  BY <1>1, <1>10
  <2> QED BY <1>9, <1>10, <1>11, <2>1, <2>2 DEF Shape
<1>13. ASSUME NEW i \in 0 .. m - 1, NEW j \in 0 .. n - 1
       PROVE  CameFrom(c, i, j) <=> CameFrom(b, i, j)
  <2>1. j \in J <=> j \in I  BY DEF J
  <2> QED BY <1>9, <2>1 DEF CameFrom
<1>14. ASSUME NEW i \in 0 .. m - 1 PROVE ~CameFrom(c, i, n)
  <2>1. n \in J /\ n \notin DOMAIN M  BY <1>1 DEF J
  <2> QED BY <1>9, <2>1 DEF CameFrom
<1> QED BY <1>9, <1>12, <1>13, <1>14 DEF Enlarged

\* A table that is cleared has no rows, and of the old ones none is left.
LEMMA ShapeCleared ==
    ASSUME NEW m \in Nat, NEW limit \in Nat, m <= limit
    PROVE  /\ Shape(TableCleared(limit), m, 0, {}) /\ TableCleared(limit).deletions = 0 .. limit - 1
           /\ TableCleared(limit).modifications = {}
<1> DEFINE c == TableCleared(limit)
<1>1. c = [deletions |-> 0 .. limit - 1, insertions |-> {}, modifications |-> {}, moves |-> <<>>,
           mapping |-> NoMapping]
  <2> DEFINE E == 0 .. limit - 1
  <2>1. NoChange = [deletions |-> {}, insertions |-> {}, modifications |-> {}, moves |-> <<>>,
                    mapping |-> NoMapping]
    BY DEF NoChange
  <2>2. c = [NoChange EXCEPT !.deletions = E]  BY DEF TableCleared
  <2> HIDE DEF c, E
  <2>3. c = [deletions |-> E, insertions |-> {}, modifications |-> {}, moves |-> <<>>, mapping |-> NoMapping]
    BY <2>1, <2>2
  <2> QED BY <2>3 DEF E
<1>2. DOMAIN NoMapping = {} /\ NoMapping \in [{} -> Nat]  BY DEF NoMapping
<1>3. 0 .. limit - 1 \in SUBSET Nat /\ IsFiniteSet(0 .. limit - 1)  BY FS_Interval
<1> DEFINE D == 0 .. limit - 1
<1>4. \A i \in Nat : (i < m /\ i \notin D) <=> (i < 0 /\ i \notin {})  OBVIOUS
<1> HIDE DEF c, D
<1>5. /\ c.deletions = D /\ c.insertions = {} /\ c.modifications = {} /\ c.mapping = NoMapping /\ c.moves = <<>>
  BY <1>1 DEF D
<1>6. c \in TableBuilder  BY <1>1, <1>2, <1>3 DEF TableBuilder
<1> QED BY <1>2, <1>3, <1>4, <1>5, <1>6 DEF Shape, c, D

\* Nothing has changed.
LEMMA ShapeNothing ==
    ASSUME NEW m \in Nat
    PROVE  /\ Shape(NoChange, m, m, {}) /\ \A i, j : CameFrom(NoChange, i, j) <=> i = j
           /\ NoChange \in TableBuilder
<1>1. NoChange = [deletions |-> {}, insertions |-> {}, modifications |-> {}, moves |-> <<>>,
                  mapping |-> NoMapping]
  BY DEF NoChange
<1>2. DOMAIN NoMapping = {} /\ NoMapping \in [{} -> Nat]  BY DEF NoMapping
<1>3. NoChange \in TableBuilder  BY <1>1, <1>2 DEF TableBuilder
<1>4. /\ NoChange.deletions = {} /\ NoChange.insertions = {} /\ NoChange.mapping = NoMapping
  BY <1>1
<1>5. IsFiniteSet({})  BY FS_EmptySet
<1> QED BY <1>2, <1>3, <1>4, <1>5 DEF Shape, CameFrom

\* What a row is modified to is no matter.
OnlyModified(c, b, mods) ==
    /\ c \in TableBuilder /\ c.modifications = mods /\ c.deletions = b.deletions
    /\ \A m, n, X : Shape(b, m, n, X) => Shape(c, m, n, X)
    /\ \A i, j : CameFrom(c, i, j) <=> CameFrom(b, i, j)
\* Marks do not move rows.
LEMMA ShapeModified ==
    ASSUME NEW b \in TableBuilder, NEW mods \in SUBSET Nat, NEW c, c = [b EXCEPT !.modifications = mods]
    PROVE  OnlyModified(c, b, mods)
<1>1. /\ c \in TableBuilder /\ c.modifications = mods /\ c.deletions = b.deletions
      /\ c.insertions = b.insertions /\ c.mapping = b.mapping
  BY DEF TableBuilder
<1> QED BY <1>1 DEF OnlyModified, Shape, CameFrom

\* The row at each j was at g[j].
Pulled(rows, next, g) ==
    /\ rows \in Seq(RowType) /\ Distinct(rows) /\ next \in Seq(RowType)
    /\ \A j \in 0 .. Len(next) - 1 : g[j] \in 0 .. Len(rows) - 1 /\ next[j + 1].id = rows[g[j] + 1].id
    /\ \A j, k \in 0 .. Len(next) - 1 : g[j] = g[k] => j = k

\* Then the rows are still distinct, and none has come.
LEMMA RowsPulled ==
    ASSUME NEW rows, NEW next, NEW g, Pulled(rows, next, g)
    PROVE  Distinct(next) /\ RowsOf(next) \subseteq RowsOf(rows)
<1>1. rows \in Seq(RowType) /\ next \in Seq(RowType)  BY DEF Pulled
<1>2. /\ Len(rows) \in Nat /\ Indexes0(rows) = 0 .. Len(rows) - 1
      /\ \A j \in 0 .. Len(rows) - 1 : Row(rows, j) = rows[j + 1].id
  BY <1>1, IdsOfRows
<1>3. /\ Len(next) \in Nat /\ Indexes0(next) = 0 .. Len(next) - 1
      /\ \A j \in 0 .. Len(next) - 1 : Row(next, j) = next[j + 1].id
  BY <1>1, IdsOfRows
<1>4. Distinct(next)
  <2> SUFFICES ASSUME NEW k \in 1 .. Len(next), NEW l \in 1 .. Len(next), next[k].id = next[l].id
               PROVE  k = l
    BY DEF Distinct
  <2>1. k - 1 \in 0 .. Len(next) - 1 /\ l - 1 \in 0 .. Len(next) - 1 /\ (k - 1) + 1 = k /\ (l - 1) + 1 = l
    BY <1>3
  <2>2. /\ g[k - 1] \in 0 .. Len(rows) - 1 /\ next[k].id = rows[g[k - 1] + 1].id
        /\ g[l - 1] \in 0 .. Len(rows) - 1 /\ next[l].id = rows[g[l - 1] + 1].id
    BY <2>1 DEF Pulled
  <2> DEFINE x == g[k - 1]
             y == g[l - 1]
  <2>3. x + 1 = y + 1
    <3>1. \A p, q \in 1 .. Len(rows) : rows[p].id = rows[q].id => p = q  BY DEF Pulled, Distinct
    <3>2. x + 1 \in 1 .. Len(rows) /\ y + 1 \in 1 .. Len(rows)
      <4>1. x \in 0 .. Len(rows) - 1 /\ y \in 0 .. Len(rows) - 1  BY <2>2
      <4> HIDE DEF x, y
      <4> QED BY <1>2, <4>1
    <3> QED BY <2>2, <3>1, <3>2
  <2>4. x = y  BY <2>2, <2>3
  <2>5. k - 1 = l - 1  BY <2>1, <2>4 DEF Pulled
  <2> QED BY <2>1, <2>5
<1>5. ASSUME NEW j \in 0 .. Len(next) - 1 PROVE Row(next, j) \in RowsOf(rows)
  <2>1. g[j] \in 0 .. Len(rows) - 1 /\ next[j + 1].id = rows[g[j] + 1].id  BY DEF Pulled
  <2>2. Row(next, j) = Row(rows, g[j])  BY <1>2, <1>3, <2>1
  <2> QED BY <1>2, <2>1, <2>2 DEF RowsOf
<1> QED BY <1>3, <1>4, <1>5 DEF RowsOf

\* The change set still knows of every row which one it was.
LEMMA FixedPulled ==
    ASSUME NEW rows, NEW next, NEW g, Pulled(rows, next, g), NEW m \in Nat, NEW old, NEW b, NEW c,
           Fixed(b, m, Len(rows), old, Ids(rows)), Turned(b, c, m, Len(next), g)
    PROVE  Fixed(c, m, Len(next), old, Ids(next))
<1>1. rows \in Seq(RowType) /\ next \in Seq(RowType)  BY DEF Pulled
<1>2. \A j \in 0 .. Len(rows) - 1 : Ids(rows)[j] = rows[j + 1].id  BY <1>1, IdsOfRows
<1>3. \A j \in 0 .. Len(next) - 1 : Ids(next)[j] = next[j + 1].id  BY <1>1, IdsOfRows
<1>4. ASSUME NEW i \in 0 .. m - 1, NEW j \in 0 .. Len(next) - 1
      PROVE  old[i] = Ids(next)[j] <=> CameFrom(c, i, j)
  <2>1. g[j] \in 0 .. Len(rows) - 1 /\ next[j + 1].id = rows[g[j] + 1].id  BY DEF Pulled
  <2>2. Ids(next)[j] = Ids(rows)[g[j]]  BY <1>2, <1>3, <2>1
  <2>3. old[i] = Ids(rows)[g[j]] <=> CameFrom(b, i, g[j])  BY <2>1 DEF Fixed
  <2>4. CameFrom(c, i, j) <=> CameFrom(b, i, g[j])  BY DEF Turned
  <2> QED BY <2>2, <2>3, <2>4
<1> QED BY <1>4 DEF Fixed, Turned

\* The modifications go with the rows.
LEMMA ModsPulled ==
    ASSUME NEW rows, NEW next, NEW g, Pulled(rows, next, g), NEW S, NEW B, NEW C, ModsAre(B, rows, S),
           C \subseteq 0 .. Len(next) - 1, \A j \in 0 .. Len(next) - 1 : j \in C <=> g[j] \in B
    PROVE  ModsAre(C, next, S)
<1>1. rows \in Seq(RowType) /\ next \in Seq(RowType)  BY DEF Pulled
<1>2. /\ Indexes0(rows) = 0 .. Len(rows) - 1
      /\ \A j \in 0 .. Len(rows) - 1 : Row(rows, j) = rows[j + 1].id
  BY <1>1, IdsOfRows
<1>3. /\ Indexes0(next) = 0 .. Len(next) - 1
      /\ \A j \in 0 .. Len(next) - 1 : Row(next, j) = next[j + 1].id
  BY <1>1, IdsOfRows
<1>4. ASSUME NEW j \in 0 .. Len(next) - 1 PROVE j \in C <=> Row(next, j) \in S
  <2>1. g[j] \in 0 .. Len(rows) - 1 /\ next[j + 1].id = rows[g[j] + 1].id  BY DEF Pulled
  <2>2. Row(next, j) = Row(rows, g[j])  BY <1>2, <1>3, <2>1
  <2>3. g[j] \in B <=> Row(rows, g[j]) \in S  BY <1>2, <2>1 DEF ModsAre
  <2> QED BY <2>2, <2>3
<1> QED BY <1>3, <1>4 DEF ModsAre

Watched == kind \in {"table", "sorted", "untracked"}

\* The change set knows of every row which one it was, and deletes only what was there, or all.
TableFixed ==
    /\ Fixed(change, Len(start), Len(now), Ids(start), Ids(now))
    /\ change.deletions \subseteq Indexes0(start) \/ (acc = NoChange /\ IsCleared(change))
TableChange ==
    /\ Len(now) <= MaxRows /\ Len(start) <= MaxRows /\ touched = {}
    /\ change \in TableBuilder /\ ModsAre(change.modifications, now, modified.start)
    /\ IF Tracked THEN TableFixed ELSE acc = NoChange
TableInv == steps \in Nat /\ (Watched => ListRows /\ ListMarks /\ ListAcc /\ TableChange)

\* A step of a table's log that marks the rows S.
TableInstructed(S) ==
    /\ OnTable /\ S \subseteq RowsOf(now)
    /\ modified' = [start |-> modified.start \cup S, told |-> modified.told \cup S]
    /\ now' \in Seq(RowType) /\ Distinct(now') /\ Len(now') <= MaxRows
    /\ RowsOf(now') \subseteq RowsOf(now) \cup {NewRow.id}
    /\ change' \in TableBuilder /\ ModsAre(change'.modifications, now', modified.start \cup S)
    /\ Tracked =>
        /\ Fixed(change', Len(start), Len(now'), Ids(start), Ids(now'))
        /\ \/ change.deletions \subseteq change'.deletions
              /\ change'.deletions \subseteq change.deletions \cup Indexes0(start)
           \/ acc = NoChange /\ IsCleared(change')

\* It keeps TableInv.
LEMMA TableFrame ==
    ASSUME TableInv, Watched, NEW S, TableInstructed(S)
    PROVE  TableInv'
<1>1. steps \in Nat /\ ListRows /\ ListMarks /\ ListAcc /\ TableChange  BY DEF TableInv
<1>2. /\ kind' = kind /\ steps' = steps + 1 /\ told' = told /\ start' = start /\ acc' = acc
      /\ touched' = touched
  BY DEF TableInstructed, OnTable, Step
<1>3. touched = {} /\ Len(start) <= MaxRows /\ (Tracked => TableFixed) /\ (~Tracked => acc = NoChange)
  BY <1>1 DEF TableChange
<1>4. ListStep(S, {})  BY <1>2, <1>3 DEF ListStep, TableInstructed
<1>5. steps' \in Nat /\ ListRows' /\ ListMarks' /\ ListAcc'  BY <1>1, <1>4, RowsFrame
<1>6. Tracked' <=> Tracked  BY <1>2 DEF Tracked
<1>7. ASSUME Tracked PROVE TableFixed'
  <2>1. Fixed(change', Len(start), Len(now'), Ids(start), Ids(now'))  BY <1>7 DEF TableInstructed
  <2>2. change'.deletions \subseteq Indexes0(start) \/ (acc = NoChange /\ IsCleared(change'))
    <3>1. change.deletions \subseteq Indexes0(start) \/ (acc = NoChange /\ Endless - 1 \in change.deletions)
      BY <1>3, <1>7 DEF TableFixed, IsCleared
    <3>2. \/ change.deletions \subseteq change'.deletions
             /\ change'.deletions \subseteq change.deletions \cup Indexes0(start)
          \/ acc = NoChange /\ IsCleared(change')
      BY <1>7 DEF TableInstructed
    <3> QED BY <3>1, <3>2 DEF IsCleared
  <2> QED BY <1>2, <2>1, <2>2 DEF TableFixed, IsCleared, Endless
<1>8. modified'.start = modified.start \cup S  BY DEF TableInstructed
<1>9. TableChange'  BY <1>2, <1>3, <1>6, <1>7, <1>8 DEF TableChange, TableInstructed
<1> QED BY <1>5, <1>9 DEF TableInv

\* What TableInv says of the rows.
LEMMA TableRows ==
    ASSUME TableInv, Watched
    PROVE  /\ now \in Seq(RowType) /\ Distinct(now) /\ Len(now) \in Nat /\ Len(now) <= MaxRows
           /\ start \in Seq(RowType) /\ Len(start) \in Nat /\ Len(start) <= MaxRows
           /\ Indexes0(now) = 0 .. Len(now) - 1 /\ Indexes0(start) = 0 .. Len(start) - 1
           /\ \A j \in 0 .. Len(now) - 1 : Row(now, j) = now[j + 1].id
           /\ change \in TableBuilder /\ ModsAre(change.modifications, now, modified.start)
           /\ Tracked => Fixed(change, Len(start), Len(now), Ids(start), Ids(now))
           /\ modified = [start |-> modified.start, told |-> modified.told]
<1>1. ListRows /\ ListMarks /\ TableChange  BY DEF TableInv
<1>2. RowsAre(now) /\ RowsAre(start)  BY <1>1 DEF ListRows
<1>3. now \in Seq(RowType) /\ start \in Seq(RowType) /\ Distinct(now)  BY <1>2 DEF RowsAre
<1>4. /\ Len(now) \in Nat /\ Indexes0(now) = 0 .. Len(now) - 1
      /\ \A j \in 0 .. Len(now) - 1 : Row(now, j) = now[j + 1].id
  BY <1>3, IdsOfRows
<1>5. Len(start) \in Nat /\ Indexes0(start) = 0 .. Len(start) - 1  BY <1>3, IdsOfRows
<1>6. /\ Len(now) <= MaxRows /\ Len(start) <= MaxRows /\ change \in TableBuilder
      /\ ModsAre(change.modifications, now, modified.start)
      /\ Tracked => TableFixed
  BY <1>1 DEF TableChange
<1>7. modified = [start |-> modified.start, told |-> modified.told]  BY <1>1 DEF ListMarks
<1> QED BY <1>3, <1>4, <1>5, <1>6, <1>7 DEF TableFixed

\* A step that leaves rows where they are or moves them.
TablePulled(S, g) ==
    /\ OnTable /\ S \subseteq RowsOf(now)
    /\ modified' = [start |-> modified.start \cup S, told |-> modified.told \cup S]
    /\ Pulled(now, now', g) /\ Len(now') <= Len(now)
    /\ change' \in TableBuilder /\ ModsAre(change'.modifications, now', modified.start \cup S)
    /\ Tracked => Turned(change, change', Len(start), Len(now'), g)

\* It keeps TableInv if the change set follows the rows.
LEMMA PulledKeepsTable ==
    ASSUME TableInv, Watched, NEW S, NEW g, TablePulled(S, g)
    PROVE  TableInv'
<1>1. /\ Pulled(now, now', g) /\ Len(now') <= Len(now) /\ change' \in TableBuilder
      /\ Tracked => Turned(change, change', Len(start), Len(now'), g)
  BY DEF TablePulled
<1>2. /\ Len(now) <= MaxRows /\ Len(now) \in Nat /\ Len(start) \in Nat
      /\ Indexes0(start) = 0 .. Len(start) - 1
      /\ Tracked => Fixed(change, Len(start), Len(now), Ids(start), Ids(now))
  BY TableRows
<1>3. now' \in Seq(RowType) /\ Len(now') \in Nat  BY <1>1, LenProperties DEF Pulled
<1>4. Distinct(now') /\ RowsOf(now') \subseteq RowsOf(now)  BY <1>1, RowsPulled
<1>5. Len(now') <= MaxRows  BY <1>1, <1>2, <1>3, BoundsOK
<1>6. ASSUME Tracked
      PROVE  /\ Fixed(change', Len(start), Len(now'), Ids(start), Ids(now'))
             /\ change.deletions \subseteq change'.deletions
             /\ change'.deletions \subseteq change.deletions \cup Indexes0(start)
  <2>1. Turned(change, change', Len(start), Len(now'), g)  BY <1>1, <1>6
  <2>2. Fixed(change, Len(start), Len(now), Ids(start), Ids(now))  BY <1>2, <1>6
  <2>3. Fixed(change', Len(start), Len(now'), Ids(start), Ids(now'))
    BY <1>1, <1>2, <2>1, <2>2, FixedPulled
  <2> QED BY <1>2, <2>1, <2>3 DEF Turned
<1>7. TableInstructed(S)  BY <1>3, <1>4, <1>5, <1>6 DEF TableInstructed, TablePulled
<1> QED BY <1>7, TableFrame

\* A row is marked.
LEMMA ModsMarked ==
    ASSUME NEW rows \in Seq(RowType), Distinct(rows), NEW S, NEW B, ModsAre(B, rows, S),
           NEW t \in 0 .. Len(rows) - 1
    PROVE  ModsAre(B \cup {t}, rows, S \cup {Row(rows, t)})
<1>1. /\ Len(rows) \in Nat /\ Indexes0(rows) = 0 .. Len(rows) - 1 /\ Rows(Ids(rows), Len(rows))
      /\ \A j \in 0 .. Len(rows) - 1 : Ids(rows)[j] = rows[j + 1].id /\ Row(rows, j) = rows[j + 1].id
  BY IdsOfRows
<1>2. \A j \in 0 .. Len(rows) - 1 : Row(rows, j) = Row(rows, t) => j = t  BY <1>1 DEF Rows
<1>3. \A j \in 0 .. Len(rows) - 1 : j \in B <=> Row(rows, j) \in S  BY <1>1 DEF ModsAre
<1>4. B \subseteq 0 .. Len(rows) - 1  BY <1>1 DEF ModsAre
<1> QED BY <1>1, <1>2, <1>3, <1>4 DEF ModsAre

\* The rows after erase_rows, and after the exchange of swap_rows.
LEMMA PulledOver ==
    ASSUME NEW rows \in Seq(RowType), Distinct(rows), NEW i \in 0 .. Len(rows) - 1
    PROVE  /\ Pulled(rows, MoveLastOver(rows, i), OverPlaces(Len(rows), i))
           /\ Len(MoveLastOver(rows, i)) = Len(rows) - 1
<1> DEFINE next == MoveLastOver(rows, i)
           n == Len(rows)
           g == OverPlaces(n, i)
<1>1. n \in Nat \ {0}  BY LenProperties
<1>2. /\ next \in Seq(RowType) /\ Len(next) = n - 1
      /\ \A r \in 0 .. n - 2 : next[r + 1] = IF r = i THEN rows[n] ELSE rows[r + 1]
  BY RowsMovedOver
<1>3. \A j \in 0 .. n - 2 : g[j] = IF j = i THEN n - 1 ELSE j  BY DEF OverPlaces, Over
<1> HIDE DEF next, g
<1>4. Len(next) - 1 = n - 2  BY <1>1, <1>2
<1>5. ASSUME NEW j \in 0 .. n - 2 PROVE g[j] \in 0 .. n - 1 /\ next[j + 1].id = rows[g[j] + 1].id
  <2>1. CASE j = i
    <3>1. g[j] = n - 1 /\ (n - 1) + 1 = n  BY <1>1, <1>3, <2>1
    <3> QED BY <1>1, <1>2, <2>1, <3>1
  <2>2. CASE j # i  BY <1>1, <1>2, <1>3, <2>2
  <2> QED BY <2>1, <2>2
<1>6. \A j, k \in 0 .. n - 2 : g[j] = g[k] => j = k  BY <1>1, <1>3
<1> QED BY <1>1, <1>2, <1>4, <1>5, <1>6 DEF Pulled, next, g

\* Two rows that are swapped are each where the other was.
LEMMA PulledSwap ==
    ASSUME NEW rows \in Seq(RowType), Distinct(rows), NEW i \in 0 .. Len(rows) - 1,
           NEW j \in 0 .. Len(rows) - 1, i < j
    PROVE  /\ Pulled(rows, SwappedRows(rows, i, j), SwapPlaces(Len(rows), i, j))
           /\ Len(SwappedRows(rows, i, j)) = Len(rows)
<1> DEFINE next == SwappedRows(rows, i, j)
           n == Len(rows)
           g == SwapPlaces(n, i, j)
<1>1. n \in Nat /\ i + 1 \in 1 .. n /\ j + 1 \in 1 .. n /\ rows \in [1 .. n -> RowType]
  BY LenProperties
<1>2. next = [rows EXCEPT ![i + 1] = rows[j + 1], ![j + 1] = rows[i + 1]]  BY DEF SwappedRows
<1> HIDE DEF next
<1>3. /\ next \in [1 .. n -> RowType]
      /\ \A k \in 1 .. n : next[k] = IF k = j + 1 THEN rows[i + 1] ELSE IF k = i + 1 THEN rows[j + 1] ELSE rows[k]
  <2>1. rows[i + 1] \in RowType /\ rows[j + 1] \in RowType  BY <1>1
  <2> HIDE DEF n
  <2> QED BY <1>1, <1>2, <2>1
<1>4. next \in Seq(RowType) /\ Len(next) = n  BY <1>1, <1>3, FunIsSeq
<1>5. \A k \in 0 .. n - 1 : g[k] = IF k = i THEN j ELSE IF k = j THEN i ELSE k
  BY DEF SwapPlaces, Exchange
<1> HIDE DEF g, n
<1>6. ASSUME NEW k \in 0 .. n - 1 PROVE g[k] \in 0 .. n - 1 /\ next[k + 1].id = rows[g[k] + 1].id
  <2>1. k + 1 \in 1 .. n  BY <1>1
  <2>2. i \in 0 .. n - 1 /\ j \in 0 .. n - 1  BY DEF n
  <2>3. (k + 1 = j + 1 <=> k = j) /\ (k + 1 = i + 1 <=> k = i)  BY <2>2
  <2>4. next[k + 1] = rows[g[k] + 1]  BY <1>3, <1>5, <2>1, <2>2, <2>3
  <2> QED BY <1>5, <2>2, <2>4
<1>7. \A k, l \in 0 .. n - 1 : g[k] = g[l] => k = l
  <2>1. i \in 0 .. n - 1 /\ j \in 0 .. n - 1  BY DEF n
  <2> QED BY <1>5, <2>1
<1> QED BY <1>4, <1>6, <1>7 DEF Pulled, next, g, n

\* The rows after merge_rows.
LEMMA PulledMerge ==
    ASSUME NEW rows \in Seq(RowType), Distinct(rows), NEW old \in 0 .. Len(rows) - 1,
           NEW new \in 0 .. Len(rows) - 1, old # new
    PROVE  /\ Pulled(rows, MoveLastOver(Taken(rows, old, new), old), MergePlaces(Len(rows), old, new))
           /\ Len(MoveLastOver(Taken(rows, old, new), old)) = Len(rows) - 1
<1> DEFINE taken == Taken(rows, old, new)
           next == MoveLastOver(taken, old)
           n == Len(rows)
           g == MergePlaces(n, old, new)
<1>1. n \in Nat \ {0} /\ old \in 0 .. n - 1 /\ new \in 0 .. n - 1 /\ rows \in [1 .. n -> RowType]
  BY LenProperties
<1>2. taken \in [1 .. n -> RowType] /\ \A k \in 1 .. n : taken[k].id = IF k = new + 1 THEN rows[old + 1].id ELSE rows[k].id
  <2>1. taken = [rows EXCEPT ![new + 1].id = rows[old + 1].id]  BY DEF Taken
  <2>2. new + 1 \in 1 .. n /\ old + 1 \in 1 .. n  BY <1>1
  <2> HIDE DEF n, taken
  <2>3. rows[old + 1] \in RowType /\ rows[new + 1] \in RowType  BY <1>1, <2>2
  <2> QED BY <1>1, <2>1, <2>2, <2>3 DEF RowType
<1>3. taken \in Seq(RowType) /\ Len(taken) = n  BY <1>1, <1>2, FunIsSeq
<1> HIDE DEF taken
<1>4. /\ next \in Seq(RowType) /\ Len(next) = n - 1
      /\ \A r \in 0 .. n - 2 : next[r + 1] = IF r = old THEN taken[n] ELSE taken[r + 1]
  <2>1. old \in 0 .. Len(taken) - 1  BY <1>1, <1>3
  <2>2. /\ next \in Seq(RowType) /\ Len(next) = Len(taken) - 1
        /\ \A r \in 0 .. Len(taken) - 2 : next[r + 1] = IF r = old THEN taken[Len(taken)] ELSE taken[r + 1]
    BY <1>3, <2>1, RowsMovedOver
  <2> QED BY <1>3, <2>2
<1> HIDE DEF next
<1>5. \A j \in 0 .. n - 2 : Over(n, old, j) = IF j = old THEN n - 1 ELSE j  BY DEF Over
<1>6. \A j \in 0 .. n - 2 : g[j] = IF Over(n, old, j) = new THEN old ELSE Over(n, old, j)
  BY DEF MergePlaces
<1> HIDE DEF g, n
<1>7. ASSUME NEW j \in 0 .. n - 2 PROVE g[j] \in 0 .. n - 1 /\ next[j + 1].id = rows[g[j] + 1].id
  <2> DEFINE k == Over(n, old, j)
  <2>1. k \in 0 .. n - 1 /\ k # old  BY <1>1, <1>5
  <2>2. next[j + 1] = taken[k + 1]
    <3>1. (n - 1) + 1 = n  BY <1>1
    <3> QED BY <1>4, <1>5, <3>1
  <2> HIDE DEF k
  <2>3. k + 1 \in 1 .. n /\ (k + 1 = new + 1 <=> k = new)  BY <1>1, <2>1
  <2>4. g[j] = IF k = new THEN old ELSE k  BY <1>6 DEF k
  <2>5. taken[k + 1].id = rows[g[j] + 1].id  BY <1>2, <2>3, <2>4
  <2> QED BY <1>1, <2>1, <2>2, <2>4, <2>5
<1>8. ASSUME NEW j \in 0 .. n - 2, NEW k \in 0 .. n - 2, g[j] = g[k] PROVE j = k
  <2> DEFINE x == Over(n, old, j)
             y == Over(n, old, k)
  <2>1. x = (IF j = old THEN n - 1 ELSE j) /\ y = IF k = old THEN n - 1 ELSE k  BY <1>5
  <2>2. g[j] = (IF x = new THEN old ELSE x) /\ g[k] = IF y = new THEN old ELSE y  BY <1>6
  <2> HIDE DEF x, y
  <2>3. x # old /\ y # old  BY <1>1, <2>1
  <2>4. x = y  BY <1>8, <2>2, <2>3
  <2> QED BY <1>1, <2>1, <2>4
<1>9. Len(next) - 1 = n - 2  BY <1>1, <1>4
<1> QED BY <1>4, <1>7, <1>8, <1>9 DEF Pulled, n, g, next, taken

\* A value of a row is set.
LEMMA ModifyKeepsTable ==
    ASSUME TableInv, Watched, modify
    PROVE  TableInv'
<1>1. PICK i \in Indexes0(now), v \in Int :
            /\ now' = [now EXCEPT ![i + 1].value = v]
            /\ modified' = Marked({Row(now, i)})
            /\ change' = Modified(change, i)
  <2>1. PICK i \in Indexes0(now), v \in IF Tracked THEN Value ELSE {1} :
          /\ now' = [now EXCEPT ![i + 1].value = v]
          /\ modified' = Marked({Row(now, i)})
          /\ Changed(Modified(change, i))
    BY DEF modify
  <2>2. v \in Int  BY <2>1 DEF Value
  <2>3. change' = Modified(change, i)  BY <2>1 DEF Changed, Watched
  <2> QED BY <2>1, <2>2, <2>3
<1> DEFINE n == Len(now)
           m == Len(start)
           S == {Row(now, i)}
           C == change.modifications \cup {i}
           g == [j \in 0 .. n - 1 |-> j]
<1>2. /\ now \in Seq(RowType) /\ Distinct(now) /\ n \in Nat /\ i \in 0 .. n - 1 /\ Indexes0(now) = 0 .. n - 1
      /\ change \in TableBuilder /\ ModsAre(change.modifications, now, modified.start)
      /\ Tracked => Fixed(change, m, n, Ids(start), Ids(now))
  BY TableRows
<1>3. C \in SUBSET Nat  BY <1>2 DEF TableBuilder
<1>4. change' = [change EXCEPT !.modifications = C]  BY <1>1 DEF Modified
<1>5. ModsAre(C, now, modified.start \cup S)  BY <1>2, ModsMarked
<1> HIDE DEF C
<1>6. /\ change' \in TableBuilder /\ change'.modifications = C /\ change'.deletions = change.deletions
      /\ Shape(change, m, n, {}) => Shape(change', m, n, {})
      /\ \A k, j : CameFrom(change', k, j) <=> CameFrom(change, k, j)
  <2> DEFINE c == change'
  <2>1. c = [change EXCEPT !.modifications = C]  BY <1>4
  <2> HIDE DEF c, m, n
  <2>2. OnlyModified(c, change, C)  BY <1>2, <1>3, <2>1, ShapeModified
  <2> QED BY <2>2 DEF OnlyModified, c
<1>7. now' \in Seq(RowType) /\ Len(now') = n /\ \A k \in 1 .. n : now'[k].id = now[k].id
  <2>1. now \in [1 .. n -> RowType] /\ i + 1 \in 1 .. n  BY <1>2, LenProperties
  <2>2. now[i + 1] \in RowType  BY <2>1
  <2> HIDE DEF n
  <2>3. now' \in [1 .. n -> RowType] /\ \A k \in 1 .. n : now'[k].id = now[k].id
    BY <1>1, <2>1, <2>2 DEF RowType
  <2> QED BY <1>2, <2>3, FunIsSeq
<1>8. Pulled(now, now', g)
  <2>1. \A j \in 0 .. n - 1 : g[j] = j /\ j + 1 \in 1 .. n  BY <1>2
  <2> HIDE DEF g, n
  <2>2. Len(now') - 1 = n - 1  BY <1>7
  <2> QED BY <1>2, <1>7, <2>1, <2>2 DEF Pulled, n
<1>9. ModsAre(C, now', modified.start \cup S)
  <2>1. \A j \in 0 .. n - 1 : g[j] = j  OBVIOUS
  <2>2. C \subseteq 0 .. n - 1  BY <1>2, <1>5 DEF ModsAre
  <2> HIDE DEF g, S, n
  <2>3. C \subseteq 0 .. Len(now') - 1 /\ \A j \in 0 .. Len(now') - 1 : j \in C <=> g[j] \in C
    BY <1>7, <2>1, <2>2
  <2> QED BY <1>5, <1>8, <2>3, ModsPulled
<1>10. Tracked => Turned(change, change', m, n, g)
  <2>1. \A j \in 0 .. n - 1 : g[j] = j  OBVIOUS
  <2> HIDE DEF g, m, n
  <2> QED BY <1>2, <1>6, <2>1 DEF Turned, Fixed
<1>11. S \subseteq RowsOf(now)  BY DEF RowsOf
<1>12. TablePulled(S, g)
  <2>1. OnTable /\ modified' = [start |-> modified.start \cup S, told |-> modified.told \cup S]
    BY <1>1 DEF modify, Marked
  <2>2. Len(now') <= Len(now)  BY <1>2, <1>7
  <2> HIDE DEF g, S
  <2> QED BY <1>6, <1>7, <1>8, <1>9, <1>10, <1>11, <2>1, <2>2 DEF TablePulled
<1> QED BY <1>12, PulledKeepsTable

\* What MovedOver does to the modifications, whether or not the rows are tracked.
OverMods(B, i, l) == IF i = l THEN B \ {i} ELSE Replaced(B, l, i)

\* The mark of the last row goes with it over the row that is erased.
LEMMA OverModsWork ==
    ASSUME NEW n \in Nat \ {0}, NEW i \in 0 .. n - 1, NEW B \in SUBSET (0 .. n - 1)
    PROVE  /\ OverMods(B, i, n - 1) \subseteq 0 .. n - 2
           /\ \A j \in 0 .. n - 2 : j \in OverMods(B, i, n - 1) <=> Over(n, i, j) \in B
<1>1. CASE i = n - 1  BY <1>1 DEF OverMods, Over
<1>2. CASE i # n - 1
  <2> DEFINE C == OverMods(B, i, n - 1)
  <2>1. C = (B \ {n - 1, i}) \cup (IF n - 1 \in B THEN {i} ELSE {})  BY <1>2 DEF OverMods, Replaced
  <2> HIDE DEF C
  <2>2. C \subseteq 0 .. n - 2  BY <1>2, <2>1
  <2>3. ASSUME NEW j \in 0 .. n - 2 PROVE j \in C <=> Over(n, i, j) \in B
    <3>1. j # n - 1  OBVIOUS
    <3>2. Over(n, i, j) = IF j = i THEN n - 1 ELSE j  BY DEF Over
    <3> QED BY <1>2, <2>1, <3>1, <3>2
  <2> QED BY <2>2, <2>3 DEF C
<1> QED BY <1>1, <1>2

\* Without track move_over only does that.
LEMMA MovedOverUntracked ==
    ASSUME NEW b \in TableBuilder, NEW i \in Nat, NEW l \in Nat
    PROVE  LET c == MovedOver(b, i, l, FALSE) IN
           c \in TableBuilder /\ c.modifications = OverMods(b.modifications, i, l)
<1> DEFINE B == OverMods(b.modifications, i, l)
           c == MovedOver(b, i, l, FALSE)
<1>1. B \in SUBSET Nat  BY DEF TableBuilder, OverMods, Replaced
<1>2. c = [b EXCEPT !.modifications = B]  BY DEF MovedOver, OverMods
<1> HIDE DEF B, c
<1>3. c \in TableBuilder /\ c.modifications = B  BY <1>1, <1>2, ShapeModified DEF OnlyModified
<1> QED BY <1>3 DEF B, c

\* A row is erased: the last one is moved over it.
LEMMA EraseKeepsTable ==
    ASSUME TableInv, Watched, erase_rows
    PROVE  TableInv'
<1>1. PICK i \in Indexes0(now) :
            /\ now' = MoveLastOver(now, i)
            /\ change' = MovedOver(change, i, Len(now) - 1, Tracked)
  <2>1. PICK i \in Indexes0(now) :
          /\ now' = MoveLastOver(now, i)
          /\ Changed(MovedOver(change, i, Len(now) - 1, Tracked))
    BY DEF erase_rows
  <2> QED BY <2>1 DEF Changed, Watched
<1> DEFINE n == Len(now)
           m == Len(start)
           B == change.modifications
           C == OverMods(B, i, n - 1)
           g == OverPlaces(n, i)
<1>2. /\ now \in Seq(RowType) /\ Distinct(now) /\ n \in Nat /\ m \in Nat /\ Indexes0(now) = 0 .. n - 1
      /\ change \in TableBuilder /\ ModsAre(B, now, modified.start)
      /\ modified = [start |-> modified.start, told |-> modified.told]
      /\ Tracked => Fixed(change, m, n, Ids(start), Ids(now))
  BY TableRows
<1>3. n \in Nat \ {0} /\ i \in 0 .. n - 1 /\ i \in Nat /\ n - 1 \in Nat  BY <1>2
<1>4. Pulled(now, now', g) /\ Len(now') = n - 1  BY <1>1, <1>2, <1>3, PulledOver
<1>5. B \in SUBSET (0 .. n - 1)  BY <1>2 DEF ModsAre
<1>6. C \subseteq 0 .. n - 2 /\ \A j \in 0 .. n - 2 : j \in C <=> Over(n, i, j) \in B
  BY <1>3, <1>5, OverModsWork
<1>7. /\ change' \in TableBuilder /\ change'.modifications = C
      /\ Tracked => Turned(change, change', m, n - 1, g)
  <2>1. CASE Tracked
    <3>1. Shape(change, m, n, {i})  BY <1>2, <2>1 DEF Fixed, Shape
    <3>2. change' = MovedOver(change, i, n - 1, TRUE)  BY <1>1, <2>1
    <3>3. MovedOverParts(change', change, n, i)  BY <1>2, <1>3, <3>1, <3>2, MovedOverGives
    <3>4. change' \in TableBuilder /\ change'.modifications = C
      BY <3>3 DEF MovedOverParts, OverMods
    <3>5. Turned(change, change', m, n - 1, g)
      <4> DEFINE c == change'
      <4> HIDE DEF c, n, m
      <4> QED BY <1>2, <1>3, <3>1, <3>3, ShapeMovedOver DEF c
    <3> QED BY <3>4, <3>5
  <2>2. CASE ~Tracked
    <3>1. change' = MovedOver(change, i, n - 1, FALSE)
      <4>1. Tracked = FALSE  BY <2>2 DEF Tracked
      <4> QED BY <1>1, <4>1
    <3> QED BY <1>2, <1>3, <2>2, <3>1, MovedOverUntracked
  <2> QED BY <2>1, <2>2
<1>8. ModsAre(C, now', modified.start)
  <2>1. \A j \in 0 .. n - 2 : g[j] = Over(n, i, j)  BY DEF OverPlaces
  <2>2. Len(now') - 1 = n - 2  BY <1>3, <1>4
  <2> HIDE DEF g, C, n, B
  <2> QED BY <1>2, <1>4, <1>6, <2>1, <2>2, ModsPulled
<1>9. TablePulled({}, g)
  <2>1. OnTable /\ modified' = modified  BY DEF erase_rows
  <2>2. modified' = [start |-> modified.start \cup {}, told |-> modified.told \cup {}]
    BY <1>2, <2>1
  <2>3. Len(now') <= Len(now)  BY <1>2, <1>4
  <2> HIDE DEF g, C
  <2> QED BY <1>4, <1>7, <1>8, <2>1, <2>2, <2>3 DEF TablePulled
<1> QED BY <1>9, PulledKeepsTable

\* The marks of two rows are exchanged.
LEMMA ExchangedWorks ==
    ASSUME NEW n \in Nat, NEW lo \in 0 .. n - 1, NEW hi \in 0 .. n - 1, lo < hi, NEW B \in SUBSET (0 .. n - 1)
    PROVE  /\ Exchanged(B, lo, hi) \subseteq 0 .. n - 1
           /\ \A j \in 0 .. n - 1 : j \in Exchanged(B, lo, hi) <=> Exchange(lo, hi, j) \in B
<1>1. \A k : Exchange(lo, hi, Exchange(lo, hi, k)) = k  BY DEF Exchange
<1>2. \A k \in 0 .. n - 1 : Exchange(lo, hi, k) \in 0 .. n - 1  BY DEF Exchange
<1>3. ASSUME NEW j \in 0 .. n - 1 PROVE j \in Exchanged(B, lo, hi) <=> Exchange(lo, hi, j) \in B
  BY <1>1 DEF Exchanged
<1> QED BY <1>2, <1>3 DEF Exchanged

\* Without track swap only does that.
LEMMA SwappedUntracked ==
    ASSUME NEW b \in TableBuilder, NEW lo \in Nat, NEW hi \in Nat, lo < hi
    PROVE  LET c == Swapped(b, lo, hi, FALSE) IN
           c \in TableBuilder /\ c.modifications = Exchanged(b.modifications, lo, hi)
<1> DEFINE B == Exchanged(b.modifications, lo, hi)
           c == Swapped(b, lo, hi, FALSE)
<1>1. Min({lo, hi}) = lo /\ Max({lo, hi}) = hi  BY DEF Min, Max
<1>2. B \in SUBSET Nat  BY DEF TableBuilder, Exchanged, Exchange
<1>3. c = [b EXCEPT !.modifications = B]  BY <1>1 DEF Swapped, Exchanged, Exchange
<1> HIDE DEF B, c
<1>4. c \in TableBuilder /\ c.modifications = B  BY <1>2, <1>3, ShapeModified DEF OnlyModified
<1> QED BY <1>4 DEF B, c

\* Two rows are swapped.
LEMMA SwapKeepsTable ==
    ASSUME TableInv, Watched, swap_rows
    PROVE  TableInv'
<1>1. PICK i \in Indexes0(now), j \in Indexes0(now) :
            /\ i < j /\ now' = SwappedRows(now, i, j)
            /\ change' = Swapped(change, i, j, Tracked)
  <2>1. PICK i \in Indexes0(now), j \in Indexes0(now) :
          /\ i < j /\ now' = [now EXCEPT ![i + 1] = now[j + 1], ![j + 1] = now[i + 1]]
          /\ Changed(Swapped(change, i, j, Tracked))
    BY DEF swap_rows
  <2> QED BY <2>1 DEF Changed, Watched, SwappedRows
<1> DEFINE n == Len(now)
           m == Len(start)
           B == change.modifications
           C == Exchanged(B, i, j)
           g == SwapPlaces(n, i, j)
<1>2. /\ now \in Seq(RowType) /\ Distinct(now) /\ n \in Nat /\ m \in Nat /\ Indexes0(now) = 0 .. n - 1
      /\ change \in TableBuilder /\ ModsAre(B, now, modified.start)
      /\ modified = [start |-> modified.start, told |-> modified.told]
      /\ Tracked => Fixed(change, m, n, Ids(start), Ids(now))
  BY TableRows
<1>3. i \in 0 .. n - 1 /\ j \in 0 .. n - 1 /\ i \in Nat /\ j \in Nat /\ i < j  BY <1>1, <1>2
<1>4. Pulled(now, now', g) /\ Len(now') = n  BY <1>1, <1>2, <1>3, PulledSwap
<1>5. B \in SUBSET (0 .. n - 1)  BY <1>2 DEF ModsAre
<1>6. C \subseteq 0 .. n - 1 /\ \A k \in 0 .. n - 1 : k \in C <=> Exchange(i, j, k) \in B
  BY <1>2, <1>3, <1>5, ExchangedWorks
<1>7. /\ change' \in TableBuilder /\ change'.modifications = C
      /\ Tracked => Turned(change, change', m, n, g)
  <2>1. CASE Tracked
    <3>1. Shape(change, m, n, {})  BY <1>2, <2>1 DEF Fixed
    <3>2. change' = Swapped(change, i, j, TRUE)  BY <1>1, <2>1
    <3> DEFINE c == change'
    <3>3. SwappedParts(c, change, i, j)  BY <1>2, <1>3, <3>1, <3>2, SwappedGives
    <3>4. c \in TableBuilder /\ c.modifications = C  BY <3>3 DEF SwappedParts
    <3>5. Turned(change, c, m, n, g)
      <4> HIDE DEF c, n, m
      <4> QED BY <1>2, <1>3, <3>1, <3>3, ShapeSwapped
    <3> QED BY <3>4, <3>5
  <2>2. CASE ~Tracked
    <3>1. Tracked = FALSE  BY <2>2 DEF Tracked
    <3>2. change' = Swapped(change, i, j, FALSE)  BY <1>1, <3>1
    <3> QED BY <1>2, <1>3, <2>2, <3>2, SwappedUntracked
  <2> QED BY <2>1, <2>2
<1>8. ModsAre(C, now', modified.start)
  <2>1. \A k \in 0 .. n - 1 : g[k] = Exchange(i, j, k)  BY DEF SwapPlaces
  <2> HIDE DEF g, C, n, B
  <2> QED BY <1>2, <1>4, <1>6, <2>1, ModsPulled
<1>9. TablePulled({}, g)
  <2>1. OnTable /\ modified' = modified  BY DEF swap_rows
  <2>2. modified' = [start |-> modified.start \cup {}, told |-> modified.told \cup {}]
    BY <1>2, <2>1
  <2>3. Len(now') <= Len(now)  BY <1>2, <1>4
  <2> HIDE DEF g, C
  <2> QED BY <1>4, <1>7, <1>8, <2>1, <2>2, <2>3 DEF TablePulled
<1> QED BY <1>9, PulledKeepsTable

\* All rows go.
LEMMA ClearKeepsTable ==
    ASSUME TableInv, Watched, clear_table, "clearMerged" \notin Allowed
    PROVE  TableInv'
<1>1. OnTable /\ now' = <<>> /\ change' = TableCleared(Endless) /\ acc = NoChange /\ modified' = modified
  BY DEF clear_table, Changed, Watched
<1>2. Len(start) \in Nat /\ Len(start) <= MaxRows /\ modified = [start |-> modified.start, told |-> modified.told]
  BY TableRows
<1>3. Endless \in Nat /\ MaxRows <= Endless /\ Endless # 0 /\ MaxRows \in Nat
  BY BoundsOK DEF Endless
<1> DEFINE c == TableCleared(Endless)
           m == Len(start)
<1>4. Shape(c, m, 0, {}) /\ c.deletions = 0 .. Endless - 1 /\ c.modifications = {}
  BY <1>2, <1>3, ShapeCleared
<1> HIDE DEF c, m
<1>5. <<>> \in Seq(RowType) /\ Len(<<>>) = 0 /\ Distinct(<<>>) /\ Indexes0(<<>>) = {}
  BY EmptySeq DEF Distinct, Indexes0
<1>6. Fixed(c, m, 0, Ids(start), Ids(<<>>))  BY <1>4 DEF Fixed
<1>7. IsCleared(c)  BY <1>3, <1>4 DEF IsCleared
<1>8. ModsAre({}, <<>>, modified.start)  BY <1>5 DEF ModsAre
<1>9. TableInstructed({})
  <2>1. modified' = [start |-> modified.start \cup {}, told |-> modified.told \cup {}]
    BY <1>1, <1>2
  <2>2. c \in TableBuilder  BY <1>4 DEF Shape
  <2>3. RowsOf(<<>>) = {}  BY <1>5 DEF RowsOf
  <2> QED BY <1>1, <1>3, <1>4, <1>5, <1>6, <1>7, <1>8, <2>1, <2>2, <2>3 DEF TableInstructed, c, m
<1> QED BY <1>9, TableFrame

\* insert_empty_rows keeps TableInv.
LEMMA InsertKeepsTable ==
    ASSUME TableInv, Watched, insert_empty_rows
    PROVE  TableInv'
<1>1. /\ OnTable /\ Len(now) < MaxRows /\ now' = Append(now, NewRow) /\ modified' = modified
      /\ change' = Inserted(change, Len(now), Tracked)
  BY DEF insert_empty_rows, Changed, Watched
<1>2. steps \in Nat /\ ListRows /\ ListMarks  BY DEF TableInv
<1> DEFINE n == Len(now)
           m == Len(start)
           B == change.modifications
           M == MaxRows + steps
<1>3. /\ now \in Seq(RowType) /\ Distinct(now) /\ n \in Nat /\ m \in Nat /\ Indexes0(now) = 0 .. n - 1
      /\ \A j \in 0 .. n - 1 : Row(now, j) = now[j + 1].id
      /\ Indexes0(start) = 0 .. m - 1
      /\ change \in TableBuilder /\ ModsAre(B, now, modified.start)
      /\ modified = [start |-> modified.start, told |-> modified.told]
      /\ Tracked => Fixed(change, m, n, Ids(start), Ids(now))
  BY TableRows
<1>4. M \in Nat /\ NewRow \in RowType /\ NewRow.id = M + 1  BY <1>2, BoundsOK DEF NewRow, RowType
<1>5. RowsAre(start) /\ RowsAre(now)  BY <1>2 DEF ListRows
<1>6. \A j \in 0 .. n - 1 : now[j + 1].id \in Int /\ now[j + 1].id <= M  BY <1>5, RowsHaveIds
<1>7. \A i \in 0 .. m - 1 : Ids(start)[i] \in Int /\ Ids(start)[i] <= M  BY <1>5, RowsHaveIds
<1>8. M + 1 \notin modified.start
  <2>1. \A r \in modified.told : r \in Int /\ r <= M  BY <1>2 DEF ListMarks
  <2>2. modified.start \subseteq modified.told  BY <1>2 DEF ListMarks
  <2> HIDE DEF M
  <2> QED BY <1>4, <2>1, <2>2
<1> HIDE DEF M
<1>9. /\ now' \in Seq(RowType) /\ Len(now') = n + 1 /\ now'[n + 1] = NewRow
      /\ \A k \in 1 .. n : now'[k] = now[k]
      /\ Distinct(now')
  BY <1>1, <1>3, <1>4, <1>5, RowAppended DEF RowsAre, M
<1>10. /\ Indexes0(now') = 0 .. n
       /\ \A j \in 0 .. n : Ids(now')[j] = now'[j + 1].id /\ Row(now', j) = now'[j + 1].id
  <2> DEFINE next == now'
  <2> HIDE DEF next, n
  <2>1. next \in Seq(RowType) /\ Len(next) - 1 = n  BY <1>3, <1>9 DEF next
  <2>2. /\ Indexes0(next) = 0 .. Len(next) - 1
        /\ \A j \in 0 .. Len(next) - 1 : Ids(next)[j] = next[j + 1].id /\ Row(next, j) = next[j + 1].id
    BY <2>1, IdsOfRows
  <2> QED BY <2>1, <2>2 DEF next
<1>11. \A j \in 0 .. n - 1 : now'[j + 1] = now[j + 1]  BY <1>3, <1>9
<1>12. RowsOf(now') \subseteq RowsOf(now) \cup {NewRow.id}
  <2>1. ASSUME NEW j \in 0 .. n PROVE Row(now', j) \in RowsOf(now) \cup {NewRow.id}
    <3>1. CASE j = n  BY <1>3, <1>9, <1>10, <3>1
    <3>2. CASE j # n
      <4>1. j \in 0 .. n - 1  BY <1>3, <3>2
      <4> QED BY <1>3, <1>10, <1>11, <4>1 DEF RowsOf
    <3> QED BY <3>1, <3>2
  <2> QED BY <1>10, <2>1 DEF RowsOf
<1>13. B \subseteq 0 .. n - 1 /\ \A j \in 0 .. n - 1 : j \in B <=> Row(now, j) \in modified.start
  BY <1>3 DEF ModsAre
<1>14. ModsAre(B, now', modified.start)
  <2>1. ASSUME NEW j \in 0 .. n PROVE j \in B <=> Row(now', j) \in modified.start
    <3>1. CASE j = n
      <4>1. j \notin B  BY <1>3, <1>13, <3>1
      <4>2. Row(now', j) = M + 1  BY <1>3, <1>4, <1>9, <1>10, <3>1
      <4> QED BY <1>8, <4>1, <4>2
    <3>2. CASE j # n
      <4>1. j \in 0 .. n - 1  BY <1>3, <3>2
      <4> QED BY <1>3, <1>10, <1>11, <1>13, <4>1
    <3> QED BY <3>1, <3>2
  <2>2. B \subseteq 0 .. n  BY <1>3, <1>13
  <2> QED BY <1>10, <2>1, <2>2 DEF ModsAre
<1>15. /\ change' \in TableBuilder /\ change'.modifications = B
       /\ Tracked => Fixed(change', m, n + 1, Ids(start), Ids(now')) /\ change'.deletions = change.deletions
  <2> DEFINE c == change'
  <2>1. CASE Tracked
    <3>1. c = Inserted(change, n, TRUE)  BY <1>1, <2>1
    <3>2. Shape(change, m, n, {})  BY <1>3, <2>1 DEF Fixed
    <3> HIDE DEF c
    <3>3. /\ Shape(c, m, n + 1, {}) /\ c.deletions = change.deletions /\ c.modifications = B
          /\ \A i \in 0 .. m - 1 : /\ \A j \in 0 .. n - 1 : CameFrom(c, i, j) <=> CameFrom(change, i, j)
                                   /\ ~CameFrom(c, i, n)
      <4>1. Enlarged(c, change, m, n)
        <5> HIDE DEF n, m
        <5> QED BY <1>3, <1>13, <3>1, <3>2, ShapeInserted
      <4> QED BY <4>1 DEF Enlarged
    <3>4. ASSUME NEW i \in 0 .. m - 1, NEW j \in 0 .. n
          PROVE  Ids(start)[i] = Ids(now')[j] <=> CameFrom(c, i, j)
      <4>1. CASE j = n
        <5>1. Ids(now')[j] = M + 1  BY <1>3, <1>4, <1>9, <1>10, <4>1
        <5>2. Ids(start)[i] # M + 1  BY <1>4, <1>7
        <5> QED BY <3>3, <4>1, <5>1, <5>2
      <4>2. CASE j # n
        <5>1. j \in 0 .. n - 1  BY <1>3, <4>2
        <5>2. Ids(now)[j] = now[j + 1].id  BY <1>3, <5>1, IdsOfRows
        <5>3. Ids(now')[j] = Ids(now)[j]  BY <1>10, <1>11, <5>1, <5>2
        <5>4. Ids(start)[i] = Ids(now)[j] <=> CameFrom(change, i, j)  BY <1>3, <2>1, <5>1 DEF Fixed
        <5> QED BY <3>3, <5>1, <5>3, <5>4
      <4> QED BY <4>1, <4>2
    <3>5. (n + 1) - 1 = n  BY <1>3
    <3>6. Fixed(c, m, n + 1, Ids(start), Ids(now'))  BY <3>3, <3>4, <3>5 DEF Fixed
    <3> QED BY <3>3, <3>6 DEF c, Shape
  <2>2. CASE ~Tracked
    <3>1. Tracked = FALSE  BY <2>2 DEF Tracked
    <3>2. c = [change EXCEPT !.modifications = MakeRoom(@, n, 1)]  BY <1>1, <3>1 DEF Inserted
    <3>3. MakeRoom(B, n, 1) = B
      <4>1. \A j \in B : j < n  BY <1>3, <1>13
      <4>2. Below(B, n) = B  BY <4>1 DEF Below
      <4> QED BY <4>2 DEF MakeRoom
    <3>4. c = change  BY <1>3, <3>2, <3>3 DEF TableBuilder
    <3> QED BY <1>3, <2>2, <3>4
  <2> QED BY <2>1, <2>2
<1>16. TableInstructed({})
  <2>1. modified' = [start |-> modified.start \cup {}, told |-> modified.told \cup {}]
    BY <1>1, <1>3
  <2>2. Len(now') <= MaxRows  BY <1>1, <1>3, <1>9, BoundsOK
  <2>3. modified.start \cup {} = modified.start  OBVIOUS
  <2> QED BY <1>1, <1>9, <1>12, <1>14, <1>15, <2>1, <2>2, <2>3 DEF TableInstructed
<1> QED BY <1>16, TableFrame

\* A row that was not there when the change set was begun is inserted, and was not moved.
LEMMA NewIsInserted ==
    ASSUME NEW m \in Nat, NEW n \in Nat, NEW b, NEW old, NEW new, Fixed(b, m, n, old, new),
           NEW j \in 0 .. n - 1, \A i \in 0 .. m - 1 : old[i] # new[j]
    PROVE  j \in b.insertions /\ j \notin DOMAIN b.mapping
<1>1. Shape(b, m, n, {})  BY DEF Fixed
<1>2. \A i \in 0 .. m - 1 : ~CameFrom(b, i, j)  BY DEF Fixed
<1>3. ASSUME j \notin b.insertions PROVE FALSE
  <2>1. j \in 0 .. m - 1  BY <1>1, <1>3, StaysThere
  <2> QED BY <1>2, <1>3, <2>1 DEF CameFrom
<1>4. ASSUME j \in DOMAIN b.mapping PROVE FALSE
  <2>1. b.mapping[j] \in 0 .. m - 1  BY <1>1, <1>4 DEF Shape
  <2> QED BY <1>2, <1>4, <2>1 DEF CameFrom
<1> QED BY <1>3, <1>4

\* Without track subsume only marks the new row where the old one was marked.
LEMMA SubsumedUntracked ==
    ASSUME NEW b \in TableBuilder, NEW old \in Nat, NEW new \in Nat
    PROVE  LET c == Subsumed(b, old, new, FALSE) IN
           /\ c \in TableBuilder
           /\ c.modifications = b.modifications \cup (IF old \in b.modifications THEN {new} ELSE {})
<1> DEFINE B == b.modifications \cup (IF old \in b.modifications THEN {new} ELSE {})
           c == Subsumed(b, old, new, FALSE)
<1>1. B \in SUBSET Nat  BY DEF TableBuilder
<1>2. c = [b EXCEPT !.modifications = B]  BY DEF Subsumed
<1> HIDE DEF B, c
<1>3. c \in TableBuilder /\ c.modifications = B  BY <1>1, <1>2, ShapeModified DEF OnlyModified
<1> QED BY <1>3 DEF B, c

\* The row at new takes the place of the one at old, which goes; S and T, B and C are the marks.
MergedMarks(rows, next, n, old, new, S, T, B, C) ==
    /\ rows \in Seq(RowType) /\ Distinct(rows) /\ n = Len(rows)
    /\ old \in 0 .. n - 1 /\ new \in 0 .. n - 1 /\ old # new
    /\ Len(next) = n - 1 /\ Pulled(rows, next, MergePlaces(n, old, new))
    /\ ModsAre(B, rows, S) /\ T = (IF Row(rows, new) \in S THEN {Row(rows, old)} ELSE {})
    /\ C = OverMods(B \cup (IF old \in B THEN {new} ELSE {}), old, n - 1)

\* The rows that are marked when one row takes the place of another.
LEMMA ModsMerged ==
    ASSUME NEW rows, NEW next, NEW n, NEW old, NEW new, NEW S, NEW T, NEW B, NEW C,
           MergedMarks(rows, next, n, old, new, S, T, B, C)
    PROVE  ModsAre(C, next, S \cup T)
<1> USE DEF MergedMarks
<1> DEFINE B2 == B \cup (IF old \in B THEN {new} ELSE {})
           g == MergePlaces(n, old, new)
<1>1. /\ n \in Nat \ {0} /\ Indexes0(rows) = 0 .. n - 1
      /\ \A j \in 0 .. n - 1 : Row(rows, j) = rows[j + 1].id
      /\ \A j, k \in 0 .. n - 1 : Row(rows, j) = Row(rows, k) => j = k
  <2>1. /\ n \in Nat /\ Indexes0(rows) = 0 .. n - 1 /\ Rows(Ids(rows), n)
        /\ \A j \in 0 .. n - 1 : Ids(rows)[j] = rows[j + 1].id /\ Row(rows, j) = rows[j + 1].id
    BY IdsOfRows
  <2>2. ASSUME NEW j \in 0 .. n - 1, NEW k \in 0 .. n - 1, Row(rows, j) = Row(rows, k) PROVE j = k
    <3>1. Ids(rows)[j] = Ids(rows)[k]  BY <2>1, <2>2
    <3> QED BY <2>1, <3>1 DEF Rows
  <2>3. n # 0  BY <2>1
  <2> QED BY <2>1, <2>2, <2>3
<1>2. B \subseteq 0 .. n - 1 /\ \A j \in 0 .. n - 1 : j \in B <=> Row(rows, j) \in S
  BY <1>1 DEF ModsAre
<1>3. B2 \in SUBSET (0 .. n - 1)  BY <1>2
<1> HIDE DEF B2
<1>4. C \subseteq 0 .. n - 2 /\ \A j \in 0 .. n - 2 : j \in C <=> Over(n, old, j) \in B2
  BY <1>1, <1>3, OverModsWork DEF B2
<1>5. /\ next \in Seq(RowType)
      /\ \A j \in 0 .. Len(next) - 1 : g[j] \in 0 .. n - 1 /\ next[j + 1].id = rows[g[j] + 1].id
  BY DEF Pulled
<1>6. Len(next) - 1 = n - 2  BY <1>1
<1>7. Indexes0(next) = 0 .. n - 2 /\ \A j \in 0 .. n - 2 : Row(next, j) = next[j + 1].id
  BY <1>5, <1>6, IdsOfRows
<1>8. ASSUME NEW j \in 0 .. n - 2 PROVE j \in C <=> Row(next, j) \in S \cup T
  <2> DEFINE k == Over(n, old, j)
  <2>1. k \in 0 .. n - 1 /\ k # old  BY <1>1 DEF Over
  <2>2. g[j] = IF k = new THEN old ELSE k  BY DEF MergePlaces
  <2> HIDE DEF k, g
  <2>3. Row(next, j) = Row(rows, g[j])
    <3>1. g[j] \in 0 .. n - 1 /\ next[j + 1].id = rows[g[j] + 1].id  BY <1>5, <1>6
    <3>2. Row(rows, g[j]) = rows[g[j] + 1].id  BY <1>1, <3>1
    <3>3. Row(next, j) = next[j + 1].id  BY <1>7
    <3> QED BY <3>1, <3>2, <3>3
  <2>4. j \in C <=> k \in B2  BY <1>4 DEF k
  <2>5. CASE k = new
    <3>1. k \in B2 <=> new \in B \/ old \in B  BY <2>5 DEF B2
    <3>2. Row(next, j) = Row(rows, old)  BY <2>2, <2>3, <2>5
    <3>3. Row(rows, old) \in S \cup T <=> old \in B \/ new \in B  BY <1>2
    <3> QED BY <2>4, <3>1, <3>2, <3>3
  <2>6. CASE k # new
    <3>1. k \in B2 <=> k \in B  BY <2>6 DEF B2
    <3>2. Row(next, j) = Row(rows, k)  BY <2>2, <2>3, <2>6
    <3>3. Row(rows, k) \in S \cup T <=> k \in B  BY <1>1, <1>2, <2>1
    <3> QED BY <2>4, <3>1, <3>2, <3>3
  <2> QED BY <2>5, <2>6
<1> QED BY <1>4, <1>7, <1>8 DEF ModsAre

\* A new row takes the place of an old one, which is erased.
LEMMA MergeKeepsTable ==
    ASSUME TableInv, Watched, merge_rows
    PROVE  TableInv'
<1>1. PICK old \in Indexes0(now), new \in Indexes0(now) :
            /\ old # new /\ Row(now, new) \notin Range(Ids(start))
            /\ now' = MoveLastOver(Taken(now, old, new), old)
            /\ modified' = IF Row(now, new) \in modified.start THEN Marked({Row(now, old)}) ELSE modified
            /\ change' = MovedOver(Subsumed(change, old, new, Tracked), old, Len(now) - 1, Tracked)
  <2>1. PICK old \in Indexes0(now), new \in Indexes0(now) :
          /\ old # new /\ Row(now, new) \notin Range(Ids(start))
          /\ now' = MoveLastOver([now EXCEPT ![new + 1].id = now[old + 1].id], old)
          /\ modified' = IF Row(now, new) \in modified.start THEN Marked({Row(now, old)}) ELSE modified
          /\ Changed(MovedOver(Subsumed(change, old, new, Tracked), old, Len(now) - 1, Tracked))
    BY DEF merge_rows
  <2> QED BY <2>1 DEF Changed, Watched, Taken
<1> DEFINE n == Len(now)
           m == Len(start)
           B == change.modifications
           C == OverMods(B \cup (IF old \in B THEN {new} ELSE {}), old, n - 1)
           g == MergePlaces(n, old, new)
           S == IF Row(now, new) \in modified.start THEN {Row(now, old)} ELSE {}
<1>2. /\ now \in Seq(RowType) /\ Distinct(now) /\ n \in Nat /\ m \in Nat /\ Indexes0(now) = 0 .. n - 1
      /\ Indexes0(start) = 0 .. m - 1 /\ \A j \in 0 .. n - 1 : Row(now, j) = now[j + 1].id
      /\ change \in TableBuilder /\ ModsAre(B, now, modified.start)
      /\ modified = [start |-> modified.start, told |-> modified.told]
      /\ Tracked => Fixed(change, m, n, Ids(start), Ids(now))
  BY TableRows
<1>3. n \in Nat \ {0} /\ old \in 0 .. n - 1 /\ new \in 0 .. n - 1 /\ old \in Nat /\ new \in Nat /\ n - 1 \in Nat
  BY <1>2
<1>4. Pulled(now, now', g) /\ Len(now') = n - 1  BY <1>1, <1>2, <1>3, PulledMerge
<1>5. /\ change' \in TableBuilder /\ change'.modifications = C
      /\ Tracked => Turned(change, change', m, n - 1, g)
  <2>1. CASE Tracked
    <3>1. Fixed(change, m, n, Ids(start), Ids(now))  BY <1>2, <2>1
    <3>2. \A i \in 0 .. m - 1 : Ids(start)[i] # Ids(now)[new]
      <4>1. Ids(now)[new] = Row(now, new)  BY <1>2, <1>3 DEF Ids
      <4>2. \A i \in 0 .. m - 1 : Ids(start)[i] \in Range(Ids(start))  BY <1>2 DEF Ids, Range
      <4> QED BY <1>1, <4>1, <4>2
    <3>3. new \in change.insertions /\ new \notin DOMAIN change.mapping
      <4> DEFINE x == Ids(start)
                 y == Ids(now)
      <4>1. Fixed(change, m, n, x, y) /\ \A i \in 0 .. m - 1 : x[i] # y[new]  BY <3>1, <3>2
      <4> HIDE DEF x, y, m, n
      <4> QED BY <1>2, <1>3, <4>1, NewIsInserted
    <3>4. Shape(change, m, n, {})  BY <3>1 DEF Fixed
    <3> DEFINE s == Subsumed(change, old, new, TRUE)
               c == change'
    <3>5. c = MovedOver(s, old, n - 1, TRUE)  BY <1>1, <2>1
    <3>6. SubsumedParts(s, change, m, n, old, new)  BY <1>1, <1>2, <1>3, <3>3, <3>4, SubsumedGives
    <3>7. Turned(change, c, m, n - 1, g)
      <4> HIDE DEF m, n, c
      <4>1. c = MovedOver(Subsumed(change, old, new, TRUE), old, n - 1, TRUE)  BY <3>5
      <4> QED BY <1>1, <1>2, <1>3, <3>3, <3>4, <4>1, ShapeMerged
    <3> HIDE DEF s, c
    <3>8. Shape(s, m, n, {old}) /\ s.modifications = B \cup (IF old \in B THEN {new} ELSE {})
      BY <3>6 DEF SubsumedParts
    <3>9. MovedOverParts(c, s, n, old)  BY <1>2, <1>3, <3>5, <3>8, MovedOverGives
    <3>10. c \in TableBuilder /\ c.modifications = C  BY <3>8, <3>9 DEF MovedOverParts, OverMods
    <3> QED BY <3>7, <3>10 DEF c
  <2>2. CASE ~Tracked
    <3> DEFINE s == Subsumed(change, old, new, FALSE)
    <3>1. Tracked = FALSE  BY <2>2 DEF Tracked
    <3>2. change' = MovedOver(s, old, n - 1, FALSE)  BY <1>1, <3>1
    <3>3. s \in TableBuilder /\ s.modifications = B \cup (IF old \in B THEN {new} ELSE {})
      BY <1>2, <1>3, SubsumedUntracked
    <3> HIDE DEF s
    <3> QED BY <1>3, <2>2, <3>2, <3>3, MovedOverUntracked
  <2> QED BY <2>1, <2>2
<1>6. ModsAre(C, now', modified.start \cup S)
  <2> DEFINE next == now'
             marked == modified.start
  <2>1. Pulled(now, next, g) /\ Len(next) = n - 1 /\ ModsAre(B, now, marked)  BY <1>2, <1>4
  <2>2. S = IF Row(now, new) \in marked THEN {Row(now, old)} ELSE {}  OBVIOUS
  <2>3. C = OverMods(B \cup (IF old \in B THEN {new} ELSE {}), old, n - 1)  OBVIOUS
  <2>4. /\ now \in Seq(RowType) /\ Distinct(now) /\ n = Len(now) /\ old \in 0 .. n - 1 /\ new \in 0 .. n - 1
        /\ old # new /\ Len(next) = n - 1 /\ Pulled(now, next, MergePlaces(n, old, new))
    BY <1>1, <1>2, <1>3, <2>1
  <2> HIDE DEF next, marked, S, C, B, n, m, g
  <2>5. MergedMarks(now, next, n, old, new, marked, S, B, C)
    BY <2>1, <2>2, <2>3, <2>4 DEF MergedMarks
  <2>6. ModsAre(C, next, marked \cup S)  BY <2>5, ModsMerged
  <2> QED BY <2>6 DEF next, marked
<1>7. S \subseteq RowsOf(now)  BY <1>2, <1>3 DEF RowsOf
<1>8. TablePulled(S, g)
  <2>1. OnTable  BY DEF merge_rows
  <2>2. modified' = [start |-> modified.start \cup S, told |-> modified.told \cup S]
    <3>1. CASE Row(now, new) \in modified.start  BY <1>1, <3>1 DEF Marked
    <3>2. CASE Row(now, new) \notin modified.start  BY <1>1, <1>2, <3>2
    <3> QED BY <3>1, <3>2
  <2>3. Len(now') <= Len(now)  BY <1>2, <1>4
  <2> HIDE DEF g, C, S
  <2> QED BY <1>4, <1>5, <1>6, <1>7, <2>1, <2>2, <2>3 DEF TablePulled
<1> QED BY <1>8, PulledKeepsTable

Still(b) == {i \in DOMAIN b.mapping : b.mapping[i] = i}

\* The moves are in the order of their sources.
InOrder(moves) == \A k, l \in 1 .. Len(moves) : k < l => moves[k].from < moves[l].from

\* What parse_complete makes of the mapping.
CompletedParts(c, b) ==
    /\ c \in Builder /\ c.modifications = b.modifications
    /\ c.deletions = b.deletions \ Still(b) /\ c.insertions = b.insertions \ Still(b)
    /\ \A k \in 1 .. Len(c.moves) :
            /\ c.moves[k].to \in DOMAIN b.mapping /\ b.mapping[c.moves[k].to] = c.moves[k].from
            /\ c.moves[k].from # c.moves[k].to
    /\ \A j \in DOMAIN b.mapping : b.mapping[j] # j =>
            \E k \in 1 .. Len(c.moves) : c.moves[k].from = b.mapping[j] /\ c.moves[k].to = j
    /\ InOrder(c.moves)

\* The mapping becomes moves, one for each row that is elsewhere now.
LEMMA CompletedGives ==
    ASSUME NEW m \in Nat, NEW b \in TableBuilder, \A j \in DOMAIN b.mapping : b.mapping[j] \in 0 .. m - 1,
           \A j, l \in DOMAIN b.mapping : b.mapping[j] = b.mapping[l] => j = l
    PROVE  CompletedParts(Completed(b), b)
<1> DEFINE f == b.mapping
           M == DOMAIN f
           still == {i \in M : f[i] = i}
           from == {f[i] : i \in M \ still}
           to(x) == CHOOSE i \in M : f[i] = x
           N == Cardinality(from)
           s == [n \in 1 .. N |-> [from |-> Nth(from, n), to |-> to(Nth(from, n))]]
           c == Completed(b)
<1>1. f \in Maps /\ M \in SUBSET Nat /\ \A j \in M : f[j] \in 0 .. m - 1
  BY MapsAre DEF TableBuilder, Maps
<1>2. from \in SUBSET (0 .. m - 1) /\ from \in SUBSET Nat /\ IsFiniteSet(from)
  <2>1. from \in SUBSET (0 .. m - 1)  BY <1>1
  <2> HIDE DEF from
  <2> QED BY <2>1, WithinFinite
<1>3. ASSUME NEW x \in from PROVE to(x) \in M /\ f[to(x)] = x /\ to(x) # x
  <2>1. PICK j \in M \ still : f[j] = x  OBVIOUS
  <2>2. to(x) \in M /\ f[to(x)] = x  BY <2>1
  <2>3. to(x) = j  BY <2>1, <2>2
  <2> QED BY <2>1, <2>2, <2>3
<1>4. /\ N \in Nat /\ \A n \in 1 .. N : Nth(from, n) \in from
      /\ \A i \in from : \E n \in 1 .. N : Nth(from, n) = i
      /\ \A k, n \in 1 .. N : k < n => Nth(from, k) < Nth(from, n)
  <2> HIDE DEF from
  <2> QED BY <1>2, NthWorks
<1>5. s \in Seq(MoveType) /\ Len(s) = N
  <2> HIDE DEF to, from, N
  <2>1. \A n \in 1 .. N : Nth(from, n) \in Nat /\ to(Nth(from, n)) \in Nat
    BY <1>1, <1>2, <1>3, <1>4
  <2>2. s \in [1 .. N -> MoveType]  BY <2>1 DEF MoveType
  <2> HIDE DEF s
  <2> QED BY <1>4, <2>2, FunIsSeq
<1>6. b.moves = <<>>  BY DEF TableBuilder
<1>7. <<>> \o s = s
  <2> HIDE DEF s
  <2> QED BY <1>5, ConcatEmptySeq
<1>8. c = [b EXCEPT !.deletions = @ \ still, !.insertions = @ \ still, !.mapping = NoMapping,
                    !.moves = s]
  BY <1>6, <1>7 DEF Completed
<1> HIDE DEF s, c, still
<1>9. /\ c.deletions = b.deletions \ still /\ c.insertions = b.insertions \ still /\ c.moves = s
      /\ c.modifications = b.modifications /\ c \in Builder
  BY <1>5, <1>8 DEF TableBuilder, Builder
<1>10. still = Still(b)  BY DEF still, Still
<1>11. \A k \in 1 .. N : s[k].from = Nth(from, k) /\ s[k].to = to(Nth(from, k))  BY DEF s
<1> HIDE DEF to, from, N
<1>12. \A k \in 1 .. N : s[k].to \in M /\ f[s[k].to] = s[k].from /\ s[k].from # s[k].to
  BY <1>3, <1>4, <1>11
<1>13. ASSUME NEW j \in M, f[j] # j PROVE \E k \in 1 .. N : s[k].from = f[j] /\ s[k].to = j
  <2>1. f[j] \in from  BY <1>13 DEF from, still
  <2>2. PICK k \in 1 .. N : Nth(from, k) = f[j]  BY <1>4, <2>1
  <2>3. s[k].from = f[j] /\ s[k].to \in M /\ f[s[k].to] = f[j]  BY <1>11, <1>12, <2>2
  <2> QED BY <2>3
<1>14. InOrder(s)  BY <1>4, <1>5, <1>11 DEF InOrder
<1> QED BY <1>5, <1>9, <1>10, <1>12, <1>13, <1>14 DEF CompletedParts, c

\* The marks are left alone.
LEMMA CompletedMods ==
    ASSUME NEW b \in TableBuilder
    PROVE  Completed(b).modifications = b.modifications
BY DEF Completed, TableBuilder

\* A search by bisection: the n entries from first on are yet to be looked at.  Those before
\* are from before i, those behind are not.
SearchState == [first : Nat, n : Nat]
Divides(moves, i, s) ==
    /\ \A q \in 1 .. Len(moves) : q <= s.first => moves[q].from < i
    /\ \A q \in 1 .. Len(moves) : q > s.first + s.n => ~(moves[q].from < i)

HalvedParts(t, moves, i, s) ==
    /\ t \in SearchState /\ (s.n = 0 => t.n = 0) /\ (s.n # 0 => t.n < s.n)
    /\ s.first + s.n <= Len(moves) => /\ t.first + t.n <= Len(moves)
                                      /\ InOrder(moves) /\ Divides(moves, i, s) => Divides(moves, i, t)

\* One step of the search.
LEMMA HalvedGives ==
    ASSUME NEW moves \in Seq(MoveType), NEW i \in Nat, NEW s \in SearchState
    PROVE  HalvedParts(Halved(moves, i, s), moves, i, s)
<1> DEFINE L == Len(moves)
           h == s.n \div 2
           t == Halved(moves, i, s)
           mid == s.first + h
<1>1. L \in Nat /\ \A q \in 1 .. L : moves[q].from \in Nat
  <2>1. L \in Nat /\ \A q \in 1 .. L : moves[q] \in MoveType  BY LenProperties, ElementOfSeq
  <2> QED BY <2>1 DEF MoveType
<1>2. s.first \in Nat /\ s.n \in Nat /\ s = [first |-> s.first, n |-> s.n]  BY DEF SearchState
<1>3. h \in Nat /\ 2 * h <= s.n /\ s.n <= 2 * h + 1  BY <1>2
<1> HIDE DEF h, L
<1>4. CASE s.n = 0
  <2>1. t = s  BY <1>4 DEF Halved
  <2> QED BY <1>4, <2>1 DEF HalvedParts, L
<1>5. CASE s.n # 0 /\ moves[mid + 1].from < i
  <2>1. t = [first |-> mid + 1, n |-> s.n - h - 1]  BY <1>5 DEF Halved, h
  <2>2. t.first = mid + 1 /\ t.n = s.n - h - 1 /\ t \in SearchState /\ t.n < s.n
    BY <1>2, <1>3, <1>5, <2>1 DEF SearchState
  <2> HIDE DEF t
  <2>3. ASSUME s.first + s.n <= L, InOrder(moves), Divides(moves, i, s) PROVE Divides(moves, i, t)
    <3>1. mid + 1 \in 1 .. L  BY <1>1, <1>2, <1>3, <1>5, <2>3
    <3>2. ASSUME NEW q \in 1 .. L, q <= mid + 1 PROVE moves[q].from < i
      <4>1. q = mid + 1 \/ q < mid + 1  BY <1>2, <1>3, <3>2
      <4>2. q < mid + 1 => moves[q].from < moves[mid + 1].from  BY <2>3, <3>1 DEF InOrder, L
      <4>3. moves[q].from \in Nat /\ moves[mid + 1].from \in Nat  BY <1>1, <3>1
      <4> QED BY <1>5, <4>1, <4>2, <4>3
    <3>3. t.first + t.n = s.first + s.n  BY <1>2, <1>3, <2>2
    <3> QED BY <2>2, <2>3, <3>2, <3>3 DEF Divides, L
  <2>4. t.first + t.n = s.first + s.n  BY <1>2, <1>3, <2>2
  <2> QED BY <1>5, <2>2, <2>3, <2>4 DEF HalvedParts, t, L
<1>6. CASE s.n # 0 /\ ~(moves[mid + 1].from < i)
  <2>1. t = [first |-> s.first, n |-> h]  BY <1>2, <1>6 DEF Halved, h
  <2>2. t.first = s.first /\ t.n = h /\ t \in SearchState /\ t.n < s.n
    BY <1>2, <1>3, <1>6, <2>1 DEF SearchState
  <2> HIDE DEF t
  <2>3. ASSUME s.first + s.n <= L, InOrder(moves), Divides(moves, i, s) PROVE Divides(moves, i, t)
    <3>1. mid + 1 \in 1 .. L  BY <1>1, <1>2, <1>3, <1>6, <2>3
    <3>2. ASSUME NEW q \in 1 .. L, q > mid PROVE ~(moves[q].from < i)
      <4>1. q = mid + 1 \/ q > mid + 1  BY <1>2, <1>3, <3>2
      <4>2. q > mid + 1 => moves[mid + 1].from < moves[q].from  BY <2>3, <3>1 DEF InOrder, L
      <4>3. moves[q].from \in Nat /\ moves[mid + 1].from \in Nat  BY <1>1, <3>1
      <4> QED BY <1>6, <4>1, <4>2, <4>3
    <3> QED BY <2>2, <2>3, <3>2 DEF Divides, L
  <2>4. s.first + s.n <= L => t.first + t.n <= L  BY <1>1, <1>2, <1>3, <2>2
  <2> QED BY <1>6, <2>2, <2>3, <2>4 DEF HalvedParts, t, L
<1> QED BY <1>4, <1>5, <1>6

\* lower_bound finds the first of the moves that is not from before i, if they are in order.
LEMMA LowerBoundGives ==
    ASSUME NEW moves \in Seq(MoveType), NEW i \in Nat
    PROVE  /\ LowerBound(moves, i) \in 0 .. Len(moves)
           /\ InOrder(moves) => \A q \in 1 .. Len(moves) : q <= LowerBound(moves, i) <=> moves[q].from < i
<1> DEFINE L == Len(moves)
           base == [first |-> 0, n |-> L]
           H(x) == Halved(moves, i, x)
           F == [k \in 1 .. L |-> [x \in SearchState |-> H(x)]]
           Fold(a) == a = [k \in 0 .. L |-> IF k = 0 THEN base ELSE H(a[k - 1])]
           a == CHOOSE a : Fold(a)
<1>1. L \in Nat  BY LenProperties
<1>2. base \in SearchState  BY <1>1 DEF SearchState
<1>3. \A x \in SearchState : H(x) \in SearchState  BY HalvedGives DEF HalvedParts
<1>4. LowerBound(moves, i) = a[L].first  BY DEF LowerBound
<1>5. F \in [1 .. L -> [SearchState -> SearchState]]
  <2> HIDE DEF L, H
  <2> QED BY <1>3
<1>6. \E f : Fold(f)
  <2>1. \A k \in 1 .. L, x \in SearchState : F[k][x] = H(x)  OBVIOUS
  <2> HIDE DEF F, base, L, H
  <2>2. PICK f \in [0 .. L -> SearchState] : f[0] = base /\ \A k \in 1 .. L : f[k] = F[k][f[k - 1]]
    BY <1>1, <1>2, <1>5, StepsExist, SMTT(30)
  <2>3. ASSUME NEW k \in 0 .. L
        PROVE  f[k] = IF k = 0 THEN base ELSE H(f[k - 1])
    <3>1. CASE k = 0  BY <2>2, <3>1
    <3>2. CASE k # 0
      <4>1. k \in 1 .. L /\ k - 1 \in 0 .. L  BY <1>1, <3>2
      <4> QED BY <2>1, <2>2, <3>2, <4>1
    <3> QED BY <3>1, <3>2
  <2>4. f = [k \in 0 .. L |-> IF k = 0 THEN base ELSE H(f[k - 1])]  BY <2>2, <2>3
  <2> QED BY <2>4
<1>7. Fold(a)  BY <1>6
<1> HIDE DEF a
<1>8. a[0] = base /\ \A k \in 1 .. L : a[k] = H(a[k - 1])
  <2> HIDE DEF base, H
  <2>1. 0 \in 0 .. L /\ \A k \in 1 .. L : k \in 0 .. L /\ k # 0  BY <1>1
  <2> HIDE DEF L
  <2> QED BY <1>7, <2>1
<1> DEFINE Good(k) == /\ a[k] \in SearchState /\ a[k].first + a[k].n <= L /\ a[k].n <= L - k
                      /\ InOrder(moves) => Divides(moves, i, a[k])
           S == {k \in 0 .. L : Good(k)}
<1>9. 0 \in S
  <2>1. a[0].first = 0 /\ a[0].n = L /\ a[0] \in SearchState  BY <1>2, <1>8
  <2>2. Divides(moves, i, a[0])  BY <1>1, <2>1 DEF Divides
  <2> QED BY <1>1, <2>1, <2>2
<1>10. ASSUME NEW k \in 1 .. L, k - 1 \in S PROVE k \in S
  <2> DEFINE s == a[k - 1]
             t == a[k]
  <2>1. /\ s \in SearchState /\ s.first + s.n <= L /\ s.n <= L - (k - 1)
        /\ InOrder(moves) => Divides(moves, i, s)
    BY <1>10
  <2>2. t = Halved(moves, i, s) /\ k \in 0 .. L  BY <1>8
  <2> HIDE DEF s, t
  <2>3. /\ t \in SearchState /\ (s.n = 0 => t.n = 0) /\ (s.n # 0 => t.n < s.n) /\ t.first + t.n <= L
        /\ InOrder(moves) /\ Divides(moves, i, s) => Divides(moves, i, t)
    BY <2>1, <2>2, HalvedGives DEF HalvedParts
  <2>4. t.n <= L - k  BY <1>1, <2>1, <2>3 DEF SearchState
  <2> QED BY <2>1, <2>2, <2>3, <2>4 DEF t
<1> HIDE DEF S
<1>11. \A k \in 0 .. L : k \in S  BY <1>1, <1>9, <1>10, CountUp
<1>12. Good(L)  BY <1>1, <1>11 DEF S
<1> DEFINE r == a[L]
<1>13. r \in SearchState /\ r.first + r.n <= L /\ r.n <= 0 /\ (InOrder(moves) => Divides(moves, i, r))
  BY <1>1, <1>12
<1> HIDE DEF r
<1>14. r.n = 0 /\ r.first \in 0 .. L  BY <1>1, <1>13 DEF SearchState
<1>15. ASSUME InOrder(moves), NEW q \in 1 .. L PROVE q <= r.first <=> moves[q].from < i
  <2>1. Divides(moves, i, r) /\ r.first + r.n = r.first  BY <1>13, <1>14, <1>15
  <2> QED BY <1>14, <2>1 DEF Divides
<1> QED BY <1>4, <1>14, <1>15 DEF r

\* What CurrentIndex says of a row that was deleted.
LEMMA MovedIndex ==
    ASSUME NEW c \in Builder, NEW i \in Nat, i \in c.deletions
    PROVE  /\ InOrder(c.moves) => \A k \in 1 .. Len(c.moves) :
                c.moves[k].from = i => CurrentIndex(c, i) = c.moves[k].to
           /\ \/ CurrentIndex(c, i) = npos
              \/ \E k \in 1 .. Len(c.moves) : c.moves[k].from = i /\ CurrentIndex(c, i) = c.moves[k].to
<1> DEFINE s == c.moves
           p == LowerBound(s, i)
<1>1. s \in Seq(MoveType) /\ Len(s) \in Nat  BY LenProperties DEF Builder
<1>2. p \in 0 .. Len(s)  BY <1>1, LowerBoundGives
<1>3. CurrentIndex(c, i) = IF p + 1 <= Len(s) /\ s[p + 1].from = i THEN s[p + 1].to ELSE npos
  BY DEF CurrentIndex
<1> HIDE DEF p
<1>4. ASSUME InOrder(s), NEW k \in 1 .. Len(s), s[k].from = i PROVE p + 1 = k
  <2>1. \A q \in 1 .. Len(s) : q <= p <=> s[q].from < i  BY <1>1, <1>4, LowerBoundGives DEF p
  <2>2. ~(k <= p)  BY <1>4, <2>1
  <2>3. ASSUME p + 1 < k PROVE FALSE
    <3>1. p + 1 \in 1 .. Len(s)  BY <1>1, <1>2, <2>3
    <3>2. s[p + 1].from < i  BY <1>4, <2>3, <3>1 DEF InOrder
    <3> QED BY <1>2, <2>1, <3>1, <3>2
  <2> QED BY <1>1, <1>2, <2>2, <2>3
<1> QED BY <1>1, <1>2, <1>3, <1>4

\* A change set of a table when its mapping has become moves: other rows stay where they are.
Tells(c, m, n, old, new) ==
    /\ c \in Builder /\ IsFiniteSet(c.deletions) /\ c.insertions \subseteq 0 .. n - 1
    /\ \A i \in Nat : (i < m /\ i \notin c.deletions) <=> (i < n /\ i \notin c.insertions)
    /\ \A i \in 0 .. m - 1 : i \notin c.deletions => old[i] = new[i]
    /\ \A k \in 1 .. Len(c.moves) :
            /\ c.moves[k].from \in c.deletions /\ c.moves[k].to \in c.insertions
            /\ c.moves[k].from \in 0 .. m - 1 /\ old[c.moves[k].from] = new[c.moves[k].to]
    /\ \A i \in 0 .. m - 1, j \in 0 .. n - 1 : i \in c.deletions /\ old[i] = new[j] =>
            \E k \in 1 .. Len(c.moves) : c.moves[k].from = i /\ c.moves[k].to = j
    /\ InOrder(c.moves)

\* What parse_complete makes of a change set that knows of every row which one it was.
LEMMA CompletedTells ==
    ASSUME NEW m \in Nat, NEW n \in Nat, NEW old, NEW new, Rows(old, m), Rows(new, n),
           NEW b, Fixed(b, m, n, old, new)
    PROVE  Tells(Completed(b), m, n, old, new)
<1> DEFINE D == b.deletions
           I == b.insertions
           f == b.mapping
           M == DOMAIN f
           c == Completed(b)
           s == c.moves
           still == Still(b)
<1>1. /\ b \in TableBuilder /\ D \in SUBSET Nat /\ IsFiniteSet(D) /\ I \subseteq 0 .. n - 1 /\ M \subseteq I
      /\ \A i \in Nat : (i < m /\ i \notin D) <=> (i < n /\ i \notin I)
      /\ \A j \in M : f[j] \in 0 .. m - 1 /\ f[j] \in D
  BY DEF Fixed, Shape, TableBuilder
<1>2. \A i \in 0 .. m - 1, j \in 0 .. n - 1 : old[i] = new[j] <=> (j \notin I /\ i = j) \/ (j \in M /\ f[j] = i)
  BY DEF Fixed, CameFrom
<1>3. ASSUME NEW j \in M, NEW l \in M, f[j] = f[l] PROVE j = l
  <2>1. new[j] = old[f[j]] /\ new[l] = old[f[j]]  BY <1>1, <1>2, <1>3
  <2> QED BY <1>1, <2>1 DEF Rows
<1>4. CompletedParts(c, b)  BY <1>1, <1>3, CompletedGives
<1> HIDE DEF c, still
<1>5. /\ c \in Builder /\ c.deletions = D \ still /\ c.insertions = I \ still /\ InOrder(s)
      /\ \A k \in 1 .. Len(s) : s[k].to \in M /\ f[s[k].to] = s[k].from /\ s[k].from # s[k].to
      /\ \A j \in M : f[j] # j => \E k \in 1 .. Len(s) : s[k].from = f[j] /\ s[k].to = j
  BY <1>4 DEF CompletedParts, still
<1>6. \A i \in still : i \in M /\ f[i] = i  BY DEF still, Still
<1>7. \A j \in M : f[j] = j => j \in still  BY DEF still, Still
<1> HIDE DEF D, I, f, s, M
<1>8. IsFiniteSet(D \ still)  BY <1>1, FS_Subset
<1>9. ASSUME NEW i \in Nat PROVE (i < m /\ i \notin D \ still) <=> (i < n /\ i \notin I \ still)
  <2>1. CASE i \in still  BY <1>1, <1>6, <2>1
  <2>2. CASE i \notin still  BY <1>1, <2>2
  <2> QED BY <2>1, <2>2
<1>10. ASSUME NEW i \in 0 .. m - 1, i \notin D \ still PROVE old[i] = new[i]
  <2>1. i \in Nat /\ i < m  OBVIOUS
  <2>2. CASE i \in still  BY <1>1, <1>2, <1>6, <2>2
  <2>3. CASE i \notin still
    <3>1. i < n /\ i \notin I  BY <1>1, <1>10, <2>1, <2>3
    <3>2. i \in 0 .. n - 1  BY <2>1, <3>1
    <3> QED BY <1>2, <3>1, <3>2
  <2> QED BY <2>2, <2>3
<1>11. ASSUME NEW k \in 1 .. Len(s)
       PROVE  /\ s[k].from \in D \ still /\ s[k].to \in I \ still
              /\ s[k].from \in 0 .. m - 1 /\ old[s[k].from] = new[s[k].to]
  <2> DEFINE i == s[k].from
             j == s[k].to
  <2>1. j \in M /\ f[j] = i /\ i # j  BY <1>5
  <2> HIDE DEF i, j
  <2>2. i \in 0 .. m - 1 /\ i \in D /\ j \in I /\ j \in 0 .. n - 1  BY <1>1, <2>1
  <2>3. old[i] = new[j]  BY <1>2, <2>1, <2>2
  <2>4. j \notin still  BY <1>6, <2>1
  <2>5. i \notin still  BY <1>3, <1>6, <2>1
  <2> QED BY <2>2, <2>3, <2>4, <2>5 DEF i, j
<1>12. ASSUME NEW i \in 0 .. m - 1, NEW j \in 0 .. n - 1, i \in D \ still, old[i] = new[j]
       PROVE  \E k \in 1 .. Len(s) : s[k].from = i /\ s[k].to = j
  <2>1. (j \notin I /\ i = j) \/ (j \in M /\ f[j] = i)  BY <1>2, <1>12
  <2>2. ~(j \notin I /\ i = j)  BY <1>1, <1>12
  <2>3. j \in M /\ f[j] = i  BY <2>1, <2>2
  <2>4. f[j] # j  BY <1>7, <1>12, <2>3
  <2> QED BY <1>5, <2>3, <2>4
<1>13. I \ still \subseteq 0 .. n - 1  BY <1>1
<1> QED BY <1>5, <1>8, <1>9, <1>10, <1>11, <1>12, <1>13 DEF Tells, c, s

\* The index of a row in the new table, or npos.
Places(c, i, m, n, old, new) ==
    \/ \E j \in 0 .. n - 1 : new[j] = old[i] /\ CurrentIndex(c, i) = j
    \/ (\A j \in 0 .. n - 1 : new[j] # old[i]) /\ CurrentIndex(c, i) = npos

\* Each row of the old table is found where it is, and no other is.
LEMMA TellsPlaces ==
    ASSUME NEW m \in Nat, NEW n \in Nat, NEW old, NEW new, NEW c, Tells(c, m, n, old, new),
           NEW i \in 0 .. m - 1
    PROVE  Places(c, i, m, n, old, new)
<1> DEFINE D == c.deletions
           I == c.insertions
           s == c.moves
<1>1. /\ c \in Builder /\ D \in SUBSET Nat /\ I \in SUBSET Nat /\ IsFiniteSet(D) /\ I \subseteq 0 .. n - 1
      /\ \A k \in Nat : (k < m /\ k \notin D) <=> (k < n /\ k \notin I)
  BY DEF Tells, Builder
<1>2. IsFiniteSet(I)  BY <1>1, WithinFinite
<1>3. i \in Nat /\ i < m  OBVIOUS
<1>4. CASE i \notin D
  <2>1. i < n /\ i \notin I /\ old[i] = new[i]  BY <1>1, <1>3, <1>4 DEF Tells
  <2>2. \A k \in Nat : k < i => (k \in I <=> k \in D)
    <3>1. \A k \in Nat : k < i => k < m /\ k < n  BY <1>3, <2>1
    <3> QED BY <1>1, <3>1
  <2> HIDE DEF D, I
  <2>3. Shift(I, Unshift(D, i)) = i  BY <1>1, <1>2, <1>3, <2>1, <2>2, SameCounted
  <2>4. CurrentIndex(c, i) = i  BY <1>4, <2>3 DEF CurrentIndex, D, I
  <2>5. i \in 0 .. n - 1  BY <1>3, <2>1
  <2> QED BY <2>1, <2>4, <2>5 DEF Places
<1>5. CASE i \in D
  <2>1. InOrder(s)  BY DEF Tells
  <2>2. \A k \in 1 .. Len(s) : s[k].from = i => CurrentIndex(c, i) = s[k].to
    BY <1>1, <1>3, <1>5, <2>1, MovedIndex
  <2>3. CurrentIndex(c, i) = npos \/ \E k \in 1 .. Len(s) : s[k].from = i /\ CurrentIndex(c, i) = s[k].to
    BY <1>1, <1>3, <1>5, MovedIndex
  <2>4. \A k \in 1 .. Len(s) : s[k].to \in 0 .. n - 1 /\ old[s[k].from] = new[s[k].to]
    BY <1>1 DEF Tells
  <2>5. \A j \in 0 .. n - 1 : old[i] = new[j] => \E k \in 1 .. Len(s) : s[k].from = i /\ s[k].to = j
    BY <1>5 DEF Tells
  <2>6. CASE \E j \in 0 .. n - 1 : new[j] = old[i]
    <3>1. PICK j \in 0 .. n - 1 : new[j] = old[i]  BY <2>6
    <3>2. PICK k \in 1 .. Len(s) : s[k].from = i /\ s[k].to = j  BY <2>5, <3>1
    <3>3. CurrentIndex(c, i) = j  BY <2>2, <3>2
    <3> QED BY <3>1, <3>3 DEF Places
  <2>7. CASE \A j \in 0 .. n - 1 : new[j] # old[i]
    <3>1. \A k \in 1 .. Len(s) : s[k].from # i  BY <2>4, <2>7
    <3>2. CurrentIndex(c, i) = npos  BY <2>3, <3>1
    <3> QED BY <2>7, <3>2 DEF Places
  <2> QED BY <2>6, <2>7
<1> QED BY <1>4, <1>5

\* If it deletes nothing but what was there, it is a change set like that of a list.
LEMMA TellsLeads ==
    ASSUME NEW m \in Nat, NEW n \in Nat, NEW old, NEW new, Rows(old, m), Rows(new, n),
           NEW c, Tells(c, m, n, old, new), c.deletions \subseteq 0 .. m - 1
    PROVE  Leads(c, m, n, old, new)
<1> DEFINE D == c.deletions
           I == c.insertions
           s == c.moves
<1>1. /\ I \subseteq 0 .. n - 1 /\ \A i \in 0 .. m - 1 : i \notin D => old[i] = new[i]
      /\ \A k \in Nat : (k < m /\ k \notin D) <=> (k < n /\ k \notin I)
  BY DEF Tells
<1>2. DOMAIN old = 0 .. m - 1 /\ DOMAIN new = 0 .. n - 1  BY DEF Rows
<1>3. \A i \in DOMAIN old \ D : i \in DOMAIN new \ I /\ old[i] = new[i]
  <2> SUFFICES ASSUME NEW i \in 0 .. m - 1, i \notin D PROVE i \in 0 .. n - 1 /\ i \notin I /\ old[i] = new[i]
    BY <1>2
  <2>1. i \in Nat /\ i < m  OBVIOUS
  <2> HIDE DEF D, I
  <2>2. i < n /\ i \notin I  BY <1>1, <2>1
  <2> QED BY <1>1, <2>1, <2>2
<1>4. \A j \in DOMAIN new \ I : j \in DOMAIN old \ D /\ old[j] = new[j]
  <2> SUFFICES ASSUME NEW j \in 0 .. n - 1, j \notin I PROVE j \in 0 .. m - 1 /\ j \notin D /\ old[j] = new[j]
    BY <1>2
  <2>1. j \in Nat /\ j < n  OBVIOUS
  <2> HIDE DEF D, I
  <2>2. j < m /\ j \notin D  BY <1>1, <2>1
  <2>3. j \in 0 .. m - 1  BY <2>1, <2>2
  <2> QED BY <1>1, <2>2, <2>3
<1>5. ASSUME NEW i \in DOMAIN old \ D, NEW j \in DOMAIN new \ I, old[i] = new[j] PROVE i = j
  <2>1. new[i] = new[j] /\ i \in 0 .. n - 1 /\ j \in 0 .. n - 1  BY <1>2, <1>3, <1>5
  <2> QED BY <2>1 DEF Rows
<1> HIDE DEF D, I, s
<1>6. Matches(D, I, old, new)
  <2>1. ASSUME NEW i \in DOMAIN old \ D, NEW k \in DOMAIN old \ D, NEW j \in DOMAIN new \ I,
               NEW l \in DOMAIN new \ I, old[i] = new[j], old[k] = new[l], i < k
        PROVE  j < l
    BY <1>5, <2>1
  <2> QED BY <1>3, <1>4, <2>1 DEF Matches
<1>7. MovesAre(s, D, I, old, new)
  <2>1. \A k \in 1 .. Len(s) : s[k].from \in D /\ s[k].to \in I /\ old[s[k].from] = new[s[k].to]
    BY DEF Tells, s, D, I
  <2>2. ASSUME NEW k \in 1 .. Len(s), NEW l \in 1 .. Len(s), s[k].from = s[l].from PROVE k = l
    <3>1. InOrder(s) /\ s \in Seq(MoveType)  BY DEF Tells, Builder, s
    <3>2. k \in Int /\ l \in Int /\ s[k].from \in Nat /\ s[l].from \in Nat
      <4>1. s[k] \in MoveType /\ s[l] \in MoveType  BY <3>1, ElementOfSeq
      <4> QED BY <4>1 DEF MoveType
    <3>3. ~(k < l) /\ ~(l < k)  BY <2>2, <3>1, <3>2 DEF InOrder
    <3> QED BY <3>2, <3>3
  <2>3. ASSUME NEW i \in D, NEW j \in I, old[i] = new[j]
        PROVE  \E k \in 1 .. Len(s) : s[k].from = i /\ s[k].to = j
    <3>1. i \in 0 .. m - 1 /\ j \in 0 .. n - 1  BY <1>1 DEF D
    <3> QED BY <2>3, <3>1 DEF Tells, s, D
  <2> QED BY <2>1, <2>2, <2>3 DEF MovesAre
<1>8. Within(D, I, m, n)  BY <1>1 DEF Within, D
<1> QED BY <1>6, <1>7, <1>8 DEF Leads, s, D, I

\* What a change set like that of a list says of a row, if it does not find it gone.
LEMMA LeadsPlaces ==
    ASSUME NEW m \in Nat, NEW n \in Nat, NEW old, NEW new, Rows(old, m), Rows(new, n),
           NEW c \in Builder, Leads(c, m, n, old, new), NEW i \in 0 .. m - 1
    PROVE  \/ \E j \in 0 .. n - 1 : new[j] = old[i] /\ CurrentIndex(c, i) = j
           \/ CurrentIndex(c, i) = npos /\ i \in c.deletions
<1>1. CASE i \notin c.deletions
  <2> DEFINE j == Shift(c.insertions, Unshift(c.deletions, i))
  <2>1. j \in 0 .. n - 1 /\ old[i] = new[j]  BY <1>1, DestinationKnown
  <2>2. CurrentIndex(c, i) = j  BY <1>1 DEF CurrentIndex
  <2> HIDE DEF j
  <2> QED BY <2>1, <2>2
<1>2. CASE i \in c.deletions
  <2>1. CurrentIndex(c, i) = npos
        \/ \E k \in 1 .. Len(c.moves) : c.moves[k].from = i /\ CurrentIndex(c, i) = c.moves[k].to
    BY <1>2, MovedIndex
  <2>2. CASE CurrentIndex(c, i) = npos  BY <1>2, <2>2
  <2>3. ASSUME NEW k \in 1 .. Len(c.moves), c.moves[k].from = i, CurrentIndex(c, i) = c.moves[k].to
        PROVE  c.moves[k].to \in 0 .. n - 1 /\ new[c.moves[k].to] = old[i]
    BY <2>3 DEF Leads, MovesAre, Within
  <2> QED BY <2>1, <2>2, <2>3
<1> QED BY <1>1, <1>2

\* With the rows of a table that are tracked, TableInv says what parse_complete makes of them.
LEMMA TableTells ==
    ASSUME TableInv, Watched, Tracked
    PROVE  Tells(Completed(change), Len(start), Len(now), Ids(start), Ids(now))
<1> DEFINE m == Len(start)
           n == Len(now)
           old == Ids(start)
           new == Ids(now)
<1>1. RowsAre(start) /\ RowsAre(now)  BY DEF TableInv, ListRows
<1>2. m \in Nat /\ Rows(old, m) /\ n \in Nat /\ Rows(new, n)  BY <1>1, RowsHaveIds
<1>3. Fixed(change, m, n, old, new)  BY TableRows
<1> HIDE DEF m, n, old, new
<1>4. Tells(Completed(change), m, n, old, new)  BY <1>2, <1>3, CompletedTells
<1> QED BY <1>4 DEF m, n, old, new

\* The rows that a callback was told and those at the beginning of the change set are the same
\* when nothing is left from before.
LEMMA ToldIsStart ==
    ASSUME TableInv, Watched, acc = NoChange
    PROVE  /\ DOMAIN Ids(told) = DOMAIN Ids(start) /\ \A i \in DOMAIN Ids(start) : Ids(told)[i] = Ids(start)[i]
           /\ Len(told) = Len(start)
           /\ \A i \in DOMAIN Ids(start) :
                Ids(start)[i] \in modified.told <=> Ids(start)[i] \in modified.start
<1> DEFINE m == Len(told)
           p == Len(start)
           old == Ids(told)
           mid == Ids(start)
<1>1. ListRows /\ ListMarks /\ ListAcc /\ TableChange  BY DEF TableInv
<1>2. RowsAre(told) /\ RowsAre(start)  BY <1>1 DEF ListRows
<1>3. /\ m \in Nat /\ Rows(old, m) /\ Indexes0(told) = 0 .. m - 1
      /\ \A j \in 0 .. m - 1 : old[j] = Row(told, j)
  BY <1>2, RowsHaveIds
<1>4. /\ p \in Nat /\ Rows(mid, p) /\ Indexes0(start) = 0 .. p - 1
      /\ \A j \in 0 .. p - 1 : mid[j] = Row(start, j)
  BY <1>2, RowsHaveIds
<1>5. Leads(NoChange, m, p, old, mid)  BY <1>1 DEF ListAcc
<1>6. IsEmpty(NoChange)  BY DEF IsEmpty, NoChange
<1> HIDE DEF m, p, old, mid
<1>7. m = p /\ \A i \in 0 .. m - 1 : old[i] = mid[i]  BY <1>3, <1>4, <1>5, <1>6, NothingLeads
<1>8. acc.modifications = {} /\ touched = {}  BY <1>1 DEF NoChange, TableChange
<1>9. modified.start \subseteq modified.told  BY <1>1 DEF ListMarks
<1>10. AccMods  BY <1>1 DEF ListAcc
<1>11. ASSUME NEW i \in 0 .. p - 1 PROVE mid[i] \in modified.told <=> mid[i] \in modified.start
  <2>1. i \in Indexes0(told) /\ i \in Indexes0(start) /\ Row(told, i) = Row(start, i) /\ Row(start, i) = mid[i]
    BY <1>3, <1>4, <1>7
  <2>2. Row(start, i) \in modified.told => i \in acc.modifications \/ Row(start, i) \in modified.start \cup touched
    BY <1>10, <2>1 DEF AccMods
  <2> QED BY <1>8, <1>9, <2>1, <2>2
<1>12. DOMAIN old = 0 .. m - 1 /\ DOMAIN mid = 0 .. p - 1  BY <1>3, <1>4 DEF Rows
<1> QED BY <1>7, <1>11, <1>12 DEF m, p, old, mid

\* A change set that comes after nothing is all there is to tell.
LEMMA NothingMerged ==
    ASSUME NEW c
    PROVE  /\ c \in Builder => Merge(NoChange, c) = c
           /\ Merge(NoChange, c).modifications = c.modifications
<1>1. IsEmpty(NoChange)  BY DEF IsEmpty, NoChange
<1>2. Merge(NoChange, c) = IF IsEmpty(c) THEN NoChange ELSE c  BY <1>1 DEF Merge
<1>3. IsEmpty(c) => c.modifications = NoChange.modifications  BY DEF IsEmpty, NoChange
<1>4. ASSUME c \in Builder, IsEmpty(c) PROVE c = NoChange  BY <1>4 DEF Builder, IsEmpty, NoChange
<1> QED BY <1>2, <1>3, <1>4

\* What a change set that has been merged tells of the rows.
LEMMA MergedTells ==
    ASSUME TableInv, Watched, Tracked, change.deletions \subseteq Indexes0(start)
    PROVE  SinceTold(AllOfTable)
<1> DEFINE p == Len(start)
           n == Len(now)
           mid == Ids(start)
           new == Ids(now)
           c == Completed(change)
<1>1. ListRows /\ ListMarks /\ ListAcc /\ TableChange  BY DEF TableInv
<1>2. RowsAre(start) /\ RowsAre(now)  BY <1>1 DEF ListRows
<1>3. p \in Nat /\ Rows(mid, p) /\ Indexes0(start) = 0 .. p - 1  BY <1>2, RowsHaveIds
<1>4. n \in Nat /\ Rows(new, n)  BY <1>2, RowsHaveIds
<1>5. change.deletions \subseteq 0 .. p - 1  BY <1>3
<1>6. change \in TableBuilder /\ ModsAre(change.modifications, now, modified.start) /\ touched = {}
  BY <1>1 DEF TableChange
<1>7. Tells(c, p, n, mid, new)  BY TableTells
<1>8. c \in Builder /\ ModsAre(c.modifications, now, modified.start \cup touched)
  BY <1>6, <1>7, CompletedMods DEF Tells
<1>9. c.deletions \subseteq 0 .. p - 1
  <2>1. c.deletions \subseteq change.deletions  BY <1>6 DEF Completed, TableBuilder
  <2> QED BY <1>5, <2>1
<1> HIDE DEF c, mid, new, p, n
<1>10. Leads(c, p, n, mid, new)  BY <1>3, <1>4, <1>7, <1>9, TellsLeads
<1>11. SinceTold(Merge(acc, c))  BY <1>1, <1>8, <1>10, AccLeads DEF p, n, mid, new
<1> QED BY <1>11 DEF AllOfTable, c

\* Of each row of the old table where it is, and of each that is still there whether it is marked.
LEMMA KnownFrom ==
    ASSUME NEW m \in Nat, NEW n \in Nat, NEW old, NEW new, Rows(old, m), Rows(new, n), NEW c, NEW marked,
           Tracked => \A i \in 0 .. m - 1 :
                \/ Places(c, i, m, n, old, new)
                \/ CurrentIndex(c, i) = npos /\ i \in c.deletions /\ acc # NoChange,
           \A i \in 0 .. m - 1, j \in 0 .. n - 1 : old[i] = new[j] => (j \in c.modifications <=> new[j] \in marked)
    PROVE  Known(c, old, new, marked)
<1>1. DOMAIN old = 0 .. m - 1 /\ DOMAIN new = 0 .. n - 1  BY DEF Rows
<1>2. \A x : x \in Range(new) <=> \E j \in 0 .. n - 1 : new[j] = x  BY <1>1 DEF Range
<1>3. \A x : x \in Range(old) <=> \E i \in 0 .. m - 1 : old[i] = x  BY <1>1 DEF Range
<1>4. ASSUME Tracked, NEW i \in 0 .. m - 1
      PROVE  IF old[i] \in Range(new)
             THEN \/ CurrentIndex(c, i) \in 0 .. n - 1 /\ new[CurrentIndex(c, i)] = old[i]
                  \/ CurrentIndex(c, i) = npos /\ acc # NoChange /\ i \in c.deletions
             ELSE CurrentIndex(c, i) = npos
  <2>1. CASE Places(c, i, m, n, old, new)  BY <1>2, <2>1 DEF Places
  <2>2. CASE CurrentIndex(c, i) = npos /\ i \in c.deletions /\ acc # NoChange  BY <2>2
  <2> QED BY <1>4, <2>1, <2>2
<1>5. ASSUME NEW j \in 0 .. n - 1, new[j] \in Range(old) PROVE j \in c.modifications <=> new[j] \in marked
  BY <1>3, <1>5
<1> QED BY <1>1, <1>4, <1>5 DEF Known

\* TableInv gives what is told of a transaction alone.
LEMMA TransactionKnown ==
    ASSUME TableInv, Watched
    PROVE  Known(Completed(change), Ids(start), Ids(now), modified.start)
<1> DEFINE m == Len(start)
           n == Len(now)
           old == Ids(start)
           new == Ids(now)
           c == Completed(change)
<1>1. RowsAre(start) /\ RowsAre(now)  BY DEF TableInv, ListRows
<1>2. m \in Nat /\ Rows(old, m)  BY <1>1, RowsHaveIds
<1>3. /\ n \in Nat /\ Rows(new, n) /\ Indexes0(now) = 0 .. n - 1
      /\ \A j \in 0 .. n - 1 : new[j] = Row(now, j)
  BY <1>1, RowsHaveIds
<1>4. change \in TableBuilder /\ ModsAre(change.modifications, now, modified.start)
  BY DEF TableInv, TableChange
<1>5. \A j \in 0 .. n - 1 : j \in c.modifications <=> new[j] \in modified.start
  <2>1. c.modifications = change.modifications  BY <1>4, CompletedMods
  <2> HIDE DEF c, n, new
  <2> QED BY <1>3, <1>4, <2>1 DEF ModsAre
<1>6. Tracked => Tells(c, m, n, old, new)  BY TableTells
<1> HIDE DEF m, n, old, new, c
<1>7. Tracked => \A i \in 0 .. m - 1 : Places(c, i, m, n, old, new)
  BY <1>2, <1>3, <1>6, TellsPlaces
<1>8. Known(c, old, new, modified.start)  BY <1>2, <1>3, <1>5, <1>7, KnownFrom
<1> QED BY <1>8 DEF m, n, old, new, c

\* TableInv gives TableFaithful.
LEMMA TableInvGives == TableInv => TableFaithful
<1> SUFFICES ASSUME TableInv, Watched
             PROVE  /\ Known(Completed(change), Ids(start), Ids(now), modified.start)
                    /\ Known(AllOfTable, Ids(told), Ids(now), modified.told)
  BY DEF TableFaithful, Watched
<1>1. Known(Completed(change), Ids(start), Ids(now), modified.start)  BY TransactionKnown
<1>2. CASE acc = NoChange
  <2> DEFINE c == Completed(change)
             old == Ids(start)
             new == Ids(now)
  <2>1. Ids(told) = old
    <3>1. /\ DOMAIN Ids(told) = DOMAIN old /\ \A i \in DOMAIN old : Ids(told)[i] = old[i]
      BY <1>2, ToldIsStart
    <3> QED BY <3>1 DEF Ids
  <2>2. AllOfTable = Merge(NoChange, c)  BY <1>2 DEF AllOfTable
  <2>3. Tracked => c \in Builder  BY TableTells DEF Tells
  <2>4. \A x \in Range(old) : x \in modified.told <=> x \in modified.start
    BY <1>2, ToldIsStart DEF Range
  <2> HIDE DEF c, old, new
  <2>5. (Tracked => AllOfTable = c) /\ AllOfTable.modifications = c.modifications
    BY <2>2, <2>3, NothingMerged
  <2>6. Known(c, old, new, modified.start)  BY <1>1 DEF c, old, new
  <2>7. Known(AllOfTable, old, new, modified.told)  BY <2>4, <2>5, <2>6 DEF Known
  <2> QED BY <1>1, <2>1, <2>7 DEF new
<1>3. CASE acc # NoChange
  <2> DEFINE m == Len(told)
             n == Len(now)
             old == Ids(told)
             new == Ids(now)
             r == AllOfTable
  <2>1. RowsAre(told) /\ RowsAre(now)  BY DEF TableInv, ListRows
  <2>2. /\ m \in Nat /\ Rows(old, m) /\ Indexes0(told) = 0 .. m - 1
        /\ \A j \in 0 .. m - 1 : old[j] = Row(told, j)
    BY <2>1, RowsHaveIds
  <2>3. /\ n \in Nat /\ Rows(new, n) /\ Indexes0(now) = 0 .. n - 1
        /\ \A j \in 0 .. n - 1 : new[j] = Row(now, j)
    BY <2>1, RowsHaveIds
  <2>4. /\ r \in Builder /\ Leads(r, m, n, old, new)
        /\ \A i \in Indexes0(told), j \in Indexes0(now) : Row(told, i) = Row(now, j) =>
              (j \in r.modifications <=> Row(now, j) \in modified.told)
    <3>1. Tracked /\ TableFixed  BY <1>3 DEF TableInv, TableChange
    <3>2. change.deletions \subseteq Indexes0(start)  BY <1>3, <3>1 DEF TableFixed
    <3> QED BY <3>1, <3>2, MergedTells DEF SinceTold
  <2> HIDE DEF m, n, old, new, r
  <2>5. \A i \in 0 .. m - 1, j \in 0 .. n - 1 : old[i] = new[j] => (j \in r.modifications <=> new[j] \in modified.told)
    BY <2>2, <2>3, <2>4
  <2>6. ASSUME NEW i \in 0 .. m - 1
        PROVE  \/ Places(r, i, m, n, old, new)
               \/ CurrentIndex(r, i) = npos /\ i \in r.deletions /\ acc # NoChange
    <3>1. \/ \E j \in 0 .. n - 1 : new[j] = old[i] /\ CurrentIndex(r, i) = j
          \/ CurrentIndex(r, i) = npos /\ i \in r.deletions
      BY <2>2, <2>3, <2>4, LeadsPlaces
    <3> QED BY <1>3, <3>1 DEF Places
  <2>7. Known(r, old, new, modified.told)  BY <2>2, <2>3, <2>5, <2>6, KnownFrom
  <2> QED BY <1>1, <2>7 DEF r, old, new
<1> QED BY <1>2, <1>3

\* A change set that has just been begun.
LEMMA BegunTable ==
    ASSUME NEW rows, RowsAre(rows), Len(rows) <= MaxRows
    PROVE  /\ NoChange \in TableBuilder /\ ModsAre(NoChange.modifications, rows, {})
           /\ Fixed(NoChange, Len(rows), Len(rows), Ids(rows), Ids(rows)) /\ NoChange.deletions = {}
<1> DEFINE n == Len(rows)
           f == Ids(rows)
<1>1. n \in Nat /\ Rows(f, n)  BY RowsHaveIds
<1>2. NoChange.modifications = {} /\ NoChange.deletions = {}  BY DEF NoChange
<1>3. /\ Shape(NoChange, n, n, {}) /\ \A i, j : CameFrom(NoChange, i, j) <=> i = j
      /\ NoChange \in TableBuilder
  BY <1>1, ShapeNothing
<1> HIDE DEF n, f
<1>4. Fixed(NoChange, n, n, f, f)
  <2>1. \A i, j \in 0 .. n - 1 : f[i] = f[j] <=> i = j  BY <1>1 DEF Rows
  <2> QED BY <1>3, <2>1 DEF Fixed
<1> QED BY <1>2, <1>3, <1>4 DEF ModsAre, n, f

\* Another change set of the table is begun when the log is read up to the version of a
\* newer notifier.
LEMMA AdvanceKeepsTable ==
    ASSUME TableInv, Watched, advance_incremental, "untrackedMerged" \notin Allowed,
           "clearMerged" \notin Allowed
    PROVE  TableInv'
<1> DEFINE c == Completed(change)
<1>1. /\ kind # "list" /\ kind' = kind /\ steps' = steps + 1 /\ told' = told /\ now' = now
      /\ touched' = touched /\ acc = NoChange /\ kind # "untracked" /\ ~IsCleared(change)
      /\ acc' = c /\ change' = NoChange /\ start' = now /\ modified' = [modified EXCEPT !.start = {}]
  BY DEF advance_incremental, Step, Watched
<1>2. steps \in Nat /\ ListRows /\ ListMarks /\ ListAcc /\ TableChange  BY DEF TableInv
<1>3. Tracked /\ (Tracked' <=> Tracked) /\ (Watched' <=> Watched)  BY <1>1 DEF Tracked, Watched
<1>4. change.deletions \subseteq Indexes0(start) /\ touched = {} /\ Len(now) <= MaxRows
  BY <1>1, <1>2, <1>3 DEF TableChange, TableFixed
<1>5. SinceTold(AllOfTable)  BY <1>3, <1>4, MergedTells
<1>6. AllOfTable = c
  <2>1. c \in Builder  BY <1>3, TableTells DEF Tells
  <2> HIDE DEF c
  <2>2. Merge(NoChange, c) = c  BY <2>1, NothingMerged
  <2> QED BY <1>1, <2>2 DEF AllOfTable, c
<1> HIDE DEF c
<1>7. HandedOver(c)  BY <1>1, <1>4, <1>5, <1>6 DEF HandedOver
<1>8. modified' = [start |-> {}, told |-> modified.told] /\ ListRows' /\ ListMarks' /\ ListAcc'
  BY <1>2, <1>7, HandedOverKeeps
<1>9. /\ NoChange \in TableBuilder /\ ModsAre(NoChange.modifications, now, {})
      /\ Fixed(NoChange, Len(now), Len(now), Ids(now), Ids(now)) /\ NoChange.deletions = {}
  <2>1. RowsAre(now)  BY <1>2 DEF ListRows
  <2> QED BY <1>4, <2>1, BegunTable
<1>10. TableFixed'  BY <1>1, <1>9 DEF TableFixed
<1>11. TableChange'  BY <1>1, <1>3, <1>4, <1>8, <1>9, <1>10 DEF TableChange
<1>12. steps' \in Nat  BY <1>1, <1>2
<1> QED BY <1>8, <1>11, <1>12 DEF TableInv

\* In the beginning TableInv holds.
LEMMA TableInit == Init => TableInv
<1> SUFFICES ASSUME Init PROVE TableInv  OBVIOUS
<1>1. ListRows /\ ListMarks /\ ListAcc /\ Len(now) <= MaxRows  BY NothingChanged
<1>2. /\ start = now /\ change = NoChange /\ acc = NoChange /\ steps = 0 /\ touched = {}
      /\ modified = [start |-> {}, told |-> {}]
  BY DEF Init
<1>3. /\ NoChange \in TableBuilder /\ ModsAre(NoChange.modifications, now, {})
      /\ Fixed(NoChange, Len(now), Len(now), Ids(now), Ids(now)) /\ NoChange.deletions = {}
  BY <1>1, BegunTable DEF ListRows
<1>4. TableFixed  BY <1>2, <1>3 DEF TableFixed
<1>5. TableChange  BY <1>1, <1>2, <1>3, <1>4 DEF TableChange
<1> QED BY <1>1, <1>2, <1>5 DEF TableInv

\* Every step keeps TableInv.
LEMMA TableNext ==
    ASSUME TableInv, [Next]_vars, "untrackedMerged" \notin Allowed, "clearMerged" \notin Allowed
    PROVE  TableInv'
<1>1. CASE UNCHANGED vars
  BY <1>1 DEF vars, TableInv, Watched, ListRows, RowsAre, ListMarks, ListAcc, AccMods, TableChange,
              TableFixed, Tracked
<1>2. CASE Next /\ ~Watched
  <2>1. kind' = kind /\ steps' = steps + 1  BY <1>2, KindStays
  <2>2. steps' \in Nat /\ ~Watched'  BY <1>2, <2>1 DEF TableInv, Watched
  <2> QED BY <2>2 DEF TableInv
<1>3. CASE Next /\ Watched
  <2>1. CASE link_list_insert \/ link_list_erase \/ link_list_move \/ link_list_set \/ link_list_clear
             \/ modify_target \/ erase_origin \/ add_changes
    <3>1. kind = "list"
      BY <2>1, Zenon DEF link_list_insert, link_list_erase, link_list_move, link_list_set,
          link_list_clear, modify_target, erase_origin, add_changes, OnList
    <3> QED BY <1>3, <3>1 DEF Watched
  <2>2. CASE insert_empty_rows  BY <1>3, <2>2, InsertKeepsTable
  <2>3. CASE modify  BY <1>3, <2>3, ModifyKeepsTable
  <2>4. CASE erase_rows  BY <1>3, <2>4, EraseKeepsTable
  <2>5. CASE swap_rows  BY <1>3, <2>5, SwapKeepsTable
  <2>6. CASE merge_rows  BY <1>3, <2>6, MergeKeepsTable
  <2>7. CASE clear_table  BY <1>3, <2>7, ClearKeepsTable
  <2>8. CASE advance_incremental  BY <1>3, <2>8, AdvanceKeepsTable
  <2> QED BY <1>3, <2>1, <2>2, <2>3, <2>4, <2>5, <2>6, <2>7, <2>8, Zenon DEF Next
<1> QED BY <1>1, <1>2, <1>3

\* Whatever happens to a table, rows inserted, moved over others, swapped, merged and cleared in
\* any order, the change set says of each row of the old table where it is in the new one, or that
\* it is gone, and which rows were modified (collection_change_builder.cpp:426-640), for one
\* transaction and for two that are merged: but for tables that are cleared before or after
\* another version, and versions of which only modifications are kept.
THEOREM TablesAreToldFaithfully ==
    ASSUME "clearMerged" \notin Allowed, "untrackedMerged" \notin Allowed
    PROVE  Spec => []TableFaithful
<1>1. Init => TableInv  BY TableInit
<1>2. TableInv /\ [Next]_vars => TableInv'  BY TableNext
<1>3. TableInv => TableFaithful  BY TableInvGives
<1> QED BY <1>1, <1>2, <1>3, PTL DEF Spec
===================================================================================
