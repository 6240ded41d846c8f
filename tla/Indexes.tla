-------------------------------- MODULE Indexes --------------------------------
(***************************************************************************)
(* What the operations of IndexSet (ObjectStore/src/index_set.hpp) do to a *)
(* set of indexes.  The insertions of a change set are indexes in the new  *)
(* collection and its deletions are indexes in the old one; the operations *)
(* translate between the two while rows come and go.                       *)
(***************************************************************************)
EXTENDS Integers, FiniteSets

Below(S, i) == {j \in S : j < i}

\* Where i goes when the indexes of S are deleted, and when they are inserted.
Unshift(S, i) == i - Cardinality(Below(S, i))

Shift(S, i) ==
    CHOOSE j \in i .. i + Cardinality(S) : j \notin S /\ Unshift(S, j) = i

\* A row is inserted or erased at one place, or at many at once.
MakeRoom(S, i, n) == Below(S, i) \cup {j + n : j \in S \ Below(S, i)}
InsertIndex(S, i, n) == MakeRoom(S, i, n) \cup i .. i + n - 1
EraseIndex(S, i) == Below(S, i) \cup {j - 1 : j \in S \ Below(S, i + 1)}

MakeRoomForEach(S, V) == {Shift(V, j) : j \in S}
InsertEach(S, V) == MakeRoomForEach(S, V) \cup V
EraseEach(S, V) == {Unshift(V, j) : j \in S \ V}

\* Of an index that has been counted without the members of S, the one counted with them;
\* by holds the indexes that have been inserted since.
AddShifted(S, i) == S \cup {Shift(S, i)}
AddShiftedBy(S, by, V) == S \cup {Shift(S, Unshift(by, j)) : j \in V \ by}

\* The members in a range.
CountIn(S, i, j) == Cardinality(Below(S, j) \ Below(S, i))
===============================================================================
