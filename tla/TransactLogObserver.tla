---------------------------- MODULE TransactLogObserver ----------------------------
(***************************************************************************)
(* The background worker of the Realm object store reads the log of write  *)
(* transactions and turns it into change sets: of a list of links, of a    *)
(* table, and of the Results of a query on it.  It also keeps the lists    *)
(* that have notifiers by the rows they belong to, while the rows move.    *)
(*                                                                         *)
(* Each behaviour is of one kind:                                          *)
(*   "list"       a list of links with a ListNotifier                      *)
(*   "table"      a table with Results in the order of the table           *)
(*   "sorted"     a table with Results sorted by a value of the rows       *)
(*   "untracked"  a table of which only modifications are needed           *)
(*   "lists"      a table some of whose rows have a list with a notifier   *)
(***************************************************************************)
EXTENDS CollectionChangeBuilder

CONSTANTS
    MaxRows,   \* bound: rows of the list or the table
    MaxSteps,  \* bound: instructions and ends of transactions in a behaviour
    Kinds,     \* the kinds of behaviour
    Allowed    \* cases that each break a promise of the code, and are left out unless here:
               \*   "deletedAfterChange": a list is changed and deleted in one transaction
               \*   "lastListMoves": a row with a list is erased, not with the last entry
               \*   "clearMerged": a table is cleared before or after another version
               \*   "untrackedMerged": versions of an untracked table are merged
               \*   "swapMerged": rows are swapped after a version that they are merged with

ASSUME BoundsOK ==
    /\ MaxRows \in Nat \ {0} /\ MaxSteps \in Nat
    /\ Kinds \subseteq {"list", "table", "sorted", "untracked", "lists"}
    /\ Allowed \subseteq {"deletedAfterChange", "lastListMoves", "clearMerged", "untrackedMerged", "swapMerged"}

VARIABLES
    kind,
    told,     \* the rows when the callback, or the oldest notifier, saw them last
    start,    \* the rows when the change set was begun
    now,      \* the rows now
    change,   \* the CollectionChangeBuilder of what has been read since start
    acc,      \* that of what was read before, since told
    modified, \* history: the rows that were modified since start, and since told
    touched,  \* list: the rows that a link leads to a modified object from, since start
    lists,    \* TransactionChangeInfo::lists: rows and, for the history, whose they are
    owners,   \* history: the rows that have a list with a notifier
    attached, \* the list has not been deleted
    steps

vars == <<kind, told, start, now, change, acc, modified, touched, lists, owners, attached, steps>>

\* Rows keep their identity when they move.  The value of a row says whether it matches
\* the query (0: it does not) and where it is sorted.
Value == 0 .. 2
NewRow == [id |-> MaxRows + steps + 1, value |-> 1]
Indexes0(rows) == 0 .. Len(rows) - 1
Row(rows, i) == rows[i + 1].id
Ids(rows) == [i \in Indexes0(rows) |-> Row(rows, i)]

IsTable == kind \in {"table", "sorted", "untracked", "lists"}
Tracked == kind \in {"table", "sorted"}

\* What stands for the largest integer in a table that is cleared: beyond every row.
Endless == 2 * (MaxRows + MaxSteps)
IsCleared(b) == Endless - 1 \in b.deletions

Init ==
    /\ kind \in Kinds
    /\ \E n \in 0 .. MaxRows :
        /\ now \in [1 .. n -> [id : 1 .. n, value : IF Tracked THEN Value ELSE {1}]]
        /\ \A k \in 1 .. n : now[k].id = k
        /\ kind # "sorted" => \A k \in 1 .. n : now[k].value < 2
    /\ told = now /\ start = now
    /\ change = NoChange /\ acc = NoChange
    /\ modified = [start |-> {}, told |-> {}] /\ touched = {}
    /\ owners \in IF kind = "lists" THEN SUBSET Range(Ids(now)) ELSE {{}}
    /\ lists \in {[k \in 1 .. Len(s) |-> [row |-> s[k] - 1, of |-> s[k]]] : s \in SetToSeqs(owners)}
    /\ attached = TRUE
    /\ steps = 0

Step == steps < MaxSteps /\ steps' = steps + 1

\* mark_dirty and the instructions of the log say of the rows R that they are modified.
Marked(R) == [start |-> modified.start \cup R, told |-> modified.told \cup R]

-----------------------------------------------------------------------------
(* The instructions for a list of links.                                   *)

OnList == Step /\ kind = "list" /\ attached /\ UNCHANGED <<kind, told, start, acc, lists, owners>>

link_list_insert ==
    /\ OnList /\ Len(now) < MaxRows
    /\ \E i \in 0 .. Len(now) :
        /\ now' = InsertAt(now, i + 1, NewRow)
        /\ change' = Inserted(change, i, TRUE)
    /\ UNCHANGED <<modified, touched, attached>>

link_list_erase ==
    /\ OnList
    /\ \E i \in Indexes0(now) :
        /\ now' = RemoveAt(now, i + 1)
        /\ change' = Erased(change, i)
    /\ UNCHANGED <<modified, touched, attached>>

link_list_move ==
    /\ OnList
    /\ \E from, to \in Indexes0(now) :
        /\ from # to
        /\ now' = InsertAt(RemoveAt(now, from + 1), to + 1, now[from + 1])
        /\ change' = Moved(change, from, to)
    /\ UNCHANGED <<modified, touched, attached>>

\* A link is set to lead elsewhere; link_list_swap sets two.
link_list_set ==
    /\ OnList
    /\ \E i, j \in Indexes0(now) :
        /\ change' = Modified(Modified(change, i), j)
        /\ modified' = Marked({Row(now, i), Row(now, j)})
    /\ UNCHANGED <<now, touched, attached>>

link_list_clear ==
    /\ OnList
    /\ now' = <<>>
    /\ change' = Cleared(change, Len(now))
    /\ UNCHANGED <<modified, touched, attached>>

\* The object that a link leads to is modified, in the log of its own table.
modify_target ==
    /\ OnList
    /\ \E i \in Indexes0(now) :
        /\ touched' = touched \cup {Row(now, i)}
        /\ modified' = [modified EXCEPT !.told = @ \cup {Row(now, i)}]
    /\ UNCHANGED <<now, change, attached>>

\* The row that the list belongs to is erased.
erase_origin ==
    /\ OnList
    /\ change = NoChange \/ "deletedAfterChange" \in Allowed
    /\ attached' = FALSE
    /\ now' = <<>>
    /\ UNCHANGED <<change, modified, touched>>

-----------------------------------------------------------------------------
(* The instructions for a table.                                           *)

OnTable == Step /\ IsTable /\ UNCHANGED <<kind, told, start, acc, touched, attached>>

\* The change set of a table that nobody listens to is not kept.
Changed(b) == change' = IF kind = "lists" THEN NoChange ELSE b

\* The last row takes the place of row i.
MoveLastOver(rows, i) ==
    LET n == Len(rows) IN [k \in 1 .. n - 1 |-> IF k = i + 1 THEN rows[n] ELSE rows[k]]

\* Mutant: the list of the last row is left where it was.
ListsWithout(ls, i, last) ==
    LET own == {k \in 1 .. Len(ls) : ls[k].row = i}
    IN [k \in 1 .. Len(ls) - Cardinality(own) |-> IF k \in own THEN Last(ls) ELSE ls[k]]

\* What erase_rows does to the lists: the entry of the row is replaced by the last one, and
\* the loop goes on behind it.
ListsMovedOver(ls, i, last) ==
    LET moved(l) == IF l.row = last THEN [l EXCEPT !.row = i] ELSE l
        own == {k \in 1 .. Len(ls) : ls[k].row = i}
    IN [k \in 1 .. Len(ls) - Cardinality(own) |-> IF k \in own THEN Last(ls) ELSE moved(ls[k])]

insert_empty_rows ==
    /\ OnTable /\ Len(now) < MaxRows
    /\ now' = Append(now, NewRow)
    /\ Changed(Inserted(change, Len(now), Tracked))
    /\ UNCHANGED <<modified, lists, owners>>

\* A value of a row is set.
modify ==
    /\ OnTable /\ kind # "lists"
    /\ \E i \in Indexes0(now), v \in IF Tracked THEN Value ELSE {1} :
        /\ kind = "table" => v < 2
        /\ now' = [now EXCEPT ![i + 1].value = v]
        /\ modified' = Marked({Row(now, i)})
        /\ Changed(Modified(change, i))
    /\ UNCHANGED <<lists, owners>>

erase_rows ==
    /\ OnTable
    /\ \E i \in Indexes0(now) :
        LET last == Len(now) - 1 IN
        /\ now' = MoveLastOver(now, i)
        /\ Changed(MovedOver(change, i, last, Tracked))
        /\ lists' = ListsMovedOver(lists, i, last)
        /\ owners' = owners \ {Row(now, i)}
        /\ Row(now, i) \in owners /\ lists # <<>> =>
                Last(lists).row # last \/ i = last \/ "lastListMoves" \in Allowed
    /\ UNCHANGED modified

swap_rows ==
    /\ OnTable
    /\ \E i, j \in Indexes0(now) :
        /\ i < j
        /\ "swapMerged" \in Allowed \/ acc = NoChange
        /\ now' = [now EXCEPT ![i + 1] = now[j + 1], ![j + 1] = now[i + 1]]
        /\ Changed(Swapped(change, i, j, Tracked))
        /\ lists' = [k \in 1 .. Len(lists) |->
                        CASE lists[k].row = i -> [lists[k] EXCEPT !.row = j]
                          [] lists[k].row = j -> [lists[k] EXCEPT !.row = i]
                          [] OTHER -> lists[k]]
    /\ UNCHANGED <<modified, owners>>

\* A new row takes over from an old one with the same key, which is erased.
merge_rows ==
    /\ OnTable
    /\ \E old, new \in Indexes0(now) :
        LET last   == Len(now) - 1
            merged == [now EXCEPT ![new + 1].id = now[old + 1].id]
            subsumed == [k \in 1 .. Len(lists) |->
                            IF lists[k].row = old THEN [lists[k] EXCEPT !.row = new] ELSE lists[k]]
        IN
        /\ old # new /\ Row(now, new) \notin Range(Ids(start))
        /\ now' = MoveLastOver(merged, old)
        /\ modified' = IF Row(now, new) \in modified.start THEN Marked({Row(now, old)}) ELSE modified
        /\ Changed(MovedOver(Subsumed(change, old, new, Tracked), old, last, Tracked))
        /\ lists' = ListsMovedOver(subsumed, old, last)
    /\ UNCHANGED owners

clear_table ==
    /\ OnTable
    /\ now' = <<>>
    /\ Changed(TableCleared(Endless))
    /\ lists' = <<>> /\ owners' = {}
    /\ "clearMerged" \in Allowed \/ acc = NoChange
    /\ UNCHANGED modified

-----------------------------------------------------------------------------
(* The end of a transaction, or of several that are read at once.          *)

\* parse_complete and ListNotifier::run; of a list that is gone it reports what it was.
Ran(b) ==
    IF attached
    THEN [CleanedUp(b) EXCEPT
            !.modifications = @ \cup {i \in Indexes0(now) : Row(now, i) \in touched}]
    ELSE IF start = <<>> THEN NoChange
    ELSE [b EXCEPT !.deletions = Indexes0(start)]

\* What the callback has not been told of a list.
AllOfList == Merge(acc, Ran(change))

\* The list's changes are handed over: add_changes.
add_changes ==
    /\ Step /\ kind = "list" /\ Ran(change) # NoChange
    /\ acc' = AllOfList
    /\ change' = NoChange /\ start' = now
    /\ modified' = [modified EXCEPT !.start = {}] /\ touched' = {}
    /\ UNCHANGED <<kind, told, now, lists, owners, attached>>

\* What the Results that are at the older version see of the table.
AllOfTable == Merge(acc, Completed(change))

\* The log is read up to the version of a newer notifier.  The change set of a table ends
\* here, that of a list goes on.
advance_incremental ==
    /\ Step /\ change # NoChange
    /\ IF kind = "list"
       THEN attached /\ change' = CleanedUp(change) /\ change' # change /\ UNCHANGED <<acc, start, modified>>
       ELSE /\ acc = NoChange
            /\ "untrackedMerged" \in Allowed \/ kind # "untracked"
            /\ "clearMerged" \in Allowed \/ ~IsCleared(change)
            /\ acc' = Completed(change)
            /\ change' = NoChange /\ start' = now
            /\ modified' = [modified EXCEPT !.start = {}]
    /\ UNCHANGED <<kind, told, now, touched, lists, owners, attached>>

Next ==
    \/ link_list_insert \/ link_list_erase \/ link_list_move \/ link_list_set
    \/ link_list_clear \/ modify_target \/ erase_origin
    \/ insert_empty_rows \/ modify \/ erase_rows \/ swap_rows \/ merge_rows \/ clear_table
    \/ add_changes \/ advance_incremental

Spec == Init /\ [][Next]_vars

-----------------------------------------------------------------------------
(* Properties.                                                             *)

\* The rows that are not deleted are those that are not inserted, in the same order.
Matches(deletions, insertions, old, new) ==
    LET stays == DOMAIN old \ deletions
        same  == DOMAIN new \ insertions
    IN /\ \A i \in stays : \E j \in same : old[i] = new[j]
       /\ \A j \in same : \E i \in stays : old[i] = new[j]
       /\ \A i, k \in stays, j, l \in same : old[i] = new[j] /\ old[k] = new[l] /\ i < k => j < l

\* The change set leads from the old rows to the new ones: without the deletions and without
\* the insertions they are the same rows, a move leads from a deletion to the insertion of the
\* same row, and the modifications are the rows that stay and were modified, by their old and
\* by their new indexes.
Faithful(c, old, new, marked) ==
    /\ c.deletions \subseteq DOMAIN old /\ c.insertions \subseteq DOMAIN new
    /\ Matches(c.deletions, c.insertions, old, new)
    /\ \A k \in 1 .. Len(c.moves) :
        LET v == c.moves[k] IN
        v.from \in c.deletions /\ v.to \in c.insertions /\ old[v.from] = new[v.to]
    /\ c.modifications = {i \in DOMAIN old \ c.deletions : old[i] \in marked}
    /\ c.modifications_new = {j \in DOMAIN new \ c.insertions : new[j] \in marked}

\* What a callback is told of a list is what happened to it, for a transaction alone and for
\* all that it has not been told before.
ListFaithful ==
    kind = "list" =>
        /\ Faithful(Finalized(Ran(change)), Ids(start), Ids(now), modified.start \cup touched)
        /\ Faithful(Finalized(AllOfList), Ids(told), Ids(now), modified.told)

\* What the Results and the check for modified objects are given of a table: of a row of the
\* old table its index in the new one, or that it is gone, and which rows were modified.
Known(c, old, new, marked) ==
    /\ Tracked => \A i \in DOMAIN old :
            LET j == CurrentIndex(c, i) IN
            IF old[i] \in Range(new)
            THEN \/ j \in DOMAIN new /\ new[j] = old[i]
                 \/ j = npos /\ acc # NoChange /\ i \in c.deletions
            ELSE j = npos
    /\ \A j \in DOMAIN new :
            new[j] \in Range(old) => (j \in c.modifications <=> new[j] \in marked)

TableFaithful ==
    kind \in {"table", "sorted", "untracked"} =>
        /\ Known(Completed(change), Ids(start), Ids(now), modified.start)
        /\ Known(AllOfTable, Ids(told), Ids(now), modified.told)

\* The rows of the Results, by their indexes in the table.
Found(rows) ==
    LET found == {i \in Indexes0(rows) : rows[i + 1].value # 0}
        before(i, j) == \/ kind = "sorted" /\ rows[i + 1].value < rows[j + 1].value
                        \/ (kind = "table" \/ rows[i + 1].value = rows[j + 1].value) /\ i < j
    IN SetToSortSeq(found, before)

\* What the Results report of a change set of the table.
Reported(c, old) ==
    LET prev == Found(old) next == Found(now) IN
    Finalized(Calculated([k \in 1 .. Len(prev) |-> CurrentIndex(c, prev[k])], next,
                         c.modifications, IF kind = "table" THEN c.insertions ELSE {npos}))

FoundIds(rows) == [k \in Indexes0(Found(rows)) |-> Row(rows, Found(rows)[k + 1])]

\* What the callbacks of Results are told leads from the rows they had to those they have.
ResultsFaithful ==
    Tracked =>
        /\ Faithful(Reported(Completed(change), start), FoundIds(start), FoundIds(now), modified.start)
        /\ Faithful(Reported(AllOfTable, told), FoundIds(told), FoundIds(now), modified.told)

\* The lists that have notifiers are looked for in the rows that they belong to.
ListsFollow ==
    /\ {l.of : l \in ToSet(lists)} = owners
    /\ Len(lists) = Cardinality(owners)
    /\ \A k \in 1 .. Len(lists) :
        lists[k].row \in Indexes0(now) /\ Row(now, lists[k].row) = lists[k].of
================================================================================
