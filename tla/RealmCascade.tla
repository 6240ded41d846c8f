----------------------------- MODULE RealmCascade -----------------------------
(***************************************************************************)
(* Realm+Cascade: what RealmRepository's creates and deletes do to the     *)
(* object graph, inside one write transaction.  A delete takes every       *)
(* object its argument leads to; a create first deletes what its argument  *)
(* leads to, and then adds the argument with Realm's own add.  Both empty  *)
(* a Set, in whatever order removeFirst picks.                             *)
(*                                                                         *)
(* An object is unmanaged (made by the program, not stored), managed (a    *)
(* row of the Realm) or invalid (its row was deleted).  Accessors of one   *)
(* row are one object here.  An object that create adds has a primary key  *)
(* of its own, if it has one: overwriting a stored row is not in here.     *)
(***************************************************************************)
EXTENDS Naturals, Sequences, FiniteSets

CONSTANTS
    Obj,      \* the Realm objects in the program and the store
    Models,   \* those of the repository's type
    Args,     \* the arrays handed to create(_:) and delete(_:)
    Cyclic    \* TRUE: unmanaged objects may link to each other in cycles

ASSUME ConstantsOK ==
    /\ IsFiniteSet(Obj)
    /\ Models \subseteq Obj
    /\ Args \subseteq Seq(Models)
    /\ Cyclic \in BOOLEAN

VARIABLES
    hasPK,            \* the classes declare a primary key, which hash then reads
    managed, invalid, \* the objects of these kinds; the others are unmanaged
    link,             \* the objects that the properties and lists of an object hold
    pc, op, arg, next, \* the operation, its array and the element it is at
    toBeDeleted,      \* the Set of that name
    managed0, link0,  \* history: the graph when the operation began
    visited           \* history: the objects it has taken out of the Set

vars == <<hasPK, managed, invalid, link, pc, op, arg, next, toBeDeleted,
          managed0, link0, visited>>

\* What can be reached from S over the links l: in every set that holds S and is closed.
Closed(C, l) == \A o \in C : l[o] \subseteq C
ReachFrom(S, l) == {o \in Obj : \A C \in SUBSET Obj : S \subseteq C /\ Closed(C, l) => o \in C}

ArgSet == {arg[k] : k \in 1 .. Len(arg)}
Reach0 == ReachFrom(ArgSet, link0)

Unmanaged == Obj \ (managed \cup invalid)

\* Rows link to rows; nothing is left of the properties of an invalid object.
HeapOK ==
    /\ managed \cap invalid = {}
    /\ \A o \in managed : link[o] \subseteq managed
    /\ \A o \in invalid : link[o] = {}

Acyclic(l, S) == \A o \in S : o \notin ReachFrom(l[o], l)

Init ==
    /\ hasPK \in BOOLEAN
    /\ managed \in SUBSET Obj
    /\ invalid \in SUBSET Obj
    /\ link \in [Obj -> SUBSET Obj]
    /\ HeapOK
    /\ Cyclic \/ Acyclic(link, Unmanaged)
    /\ pc = "idle" /\ op = "none" /\ arg = <<>> /\ next = 1
    /\ toBeDeleted = {} /\ visited = {}
    /\ managed0 = managed /\ link0 = link

-----------------------------------------------------------------------------

Heap == <<managed, invalid, link>>
Past == <<hasPK, managed0, link0>>
Operation == <<op, arg>>

\* A Swift trap or an NSException that nobody catches: the program ends.
Crash == /\ pc' = "crashed"
         /\ UNCHANGED <<Heap, Past, Operation, next, toBeDeleted, visited>>

\* hash of an object with a primary key reads that key.
Hashable(S) == hasPK => S \cap invalid = {}

\* Mutant: the objects that link to x are inserted as well.
InsertBacklinks(x, S) == toBeDeleted' = S \cup link[x] \cup {o \in managed : x \in link[o]}

\* Set.insert for each object that the properties of x hold.
InsertLinks(x, S) == toBeDeleted' = S \cup link[x]

\* The row goes, and every link of another row to it.
DeleteRow(x) ==
    /\ managed' = managed \ {x}
    /\ invalid' = invalid \cup {x}
    /\ link' = [o \in Obj |-> IF o = x THEN {}
                              ELSE IF o \in managed THEN link[o] \ {x} ELSE link[o]]

-----------------------------------------------------------------------------
(* The repository's operations, between realm.write's begin and commit.    *)

Begin(o, s) ==
    /\ pc = "idle"
    /\ pc' = "next" /\ op' = o /\ arg' = s /\ next' = 1
    /\ managed0' = managed /\ link0' = link /\ visited' = {}
    /\ UNCHANGED <<hasPK, Heap, toBeDeleted>>

\* create(_:) and update(_:) on one model or, for create, an array.
Create == \E s \in Args : Begin("create", s)
Delete == \E s \in Args : Begin("delete", s)

\* The stored models, in some order.
Orders(S) == {s \in [1 .. Cardinality(S) -> S] : \A j, k \in DOMAIN s : j # k => s[j] # s[k]}
DeleteAll == \E s \in Orders(managed \cap Models) : Begin("delete", s)

Return ==
    /\ pc = "next" /\ next > Len(arg)
    /\ pc' = "idle"
    /\ UNCHANGED <<Heap, Past, Operation, next, toBeDeleted, visited>>

\* cascadeDelete(entity), up to its loop.
CascadeDelete ==
    /\ pc = "next" /\ op = "delete" /\ next <= Len(arg)
    /\ Hashable({arg[next]})
    /\ toBeDeleted' = {arg[next]}
    /\ pc' = "loop"
    /\ UNCHANGED <<Heap, Past, Operation, next, visited>>

\* cascadeDeleteSubtypes(entity), up to its loop.
CascadeDeleteSubtypes ==
    /\ pc = "next" /\ op = "create" /\ next <= Len(arg)
    /\ arg[next] \notin invalid
    /\ Hashable(link[arg[next]])
    /\ InsertLinks(arg[next], {})
    /\ pc' = "loop"
    /\ UNCHANGED <<Heap, Past, Operation, next, visited>>

\* Mutant: first, not removeFirst.
SkipInPlace(x) ==
    /\ pc = "loop" /\ x \in toBeDeleted /\ x \in invalid
    /\ visited' = visited \cup {x}
    /\ UNCHANGED <<Heap, Past, Operation, next, pc, toBeDeleted>>

\* One turn of the loop: removeFirst took x out of the Set.
Skip(x) ==
    /\ pc = "loop" /\ x \in toBeDeleted /\ x \in invalid
    /\ toBeDeleted' = toBeDeleted \ {x}
    /\ visited' = visited \cup {x}
    /\ UNCHANGED <<Heap, Past, Operation, next, pc>>

\* Mutant: the row goes first; an invalid object has no properties to follow.
ResolveAfterDelete(x) ==
    /\ pc = "loop" /\ x \in toBeDeleted /\ x \notin invalid
    /\ toBeDeleted' = (toBeDeleted \ {x}) \cup (IF x \in managed THEN {} ELSE link[x])
    /\ IF x \in managed THEN DeleteRow(x) ELSE UNCHANGED Heap
    /\ visited' = visited \cup {x}
    /\ UNCHANGED <<Past, Operation, next, pc>>

Resolve(x) ==
    /\ pc = "loop" /\ x \in toBeDeleted /\ x \notin invalid
    /\ Hashable(link[x])
    /\ InsertLinks(x, toBeDeleted \ {x})
    /\ IF x \in managed THEN DeleteRow(x) ELSE UNCHANGED Heap
    /\ visited' = visited \cup {x}
    /\ UNCHANGED <<Past, Operation, next, pc>>

\* Mutant: "else" before the add, as there is one before the plain delete.
EndLoopWithoutAdd ==
    /\ pc = "loop" /\ toBeDeleted = {}
    /\ pc' = "next" /\ next' = next + 1
    /\ UNCHANGED <<Heap, Past, Operation, toBeDeleted, visited>>

\* Mutant: the loop over the array moves on before the add.
EndLoopEarlyNext ==
    /\ pc = "loop" /\ toBeDeleted = {}
    /\ pc' = IF op = "create" THEN "add" ELSE "next"
    /\ next' = next + 1
    /\ UNCHANGED <<Heap, Past, Operation, toBeDeleted, visited>>

EndLoop ==
    /\ pc = "loop" /\ toBeDeleted = {}
    /\ IF op = "create" THEN pc' = "add" /\ next' = next
                        ELSE pc' = "next" /\ next' = next + 1
    /\ UNCHANGED <<Heap, Past, Operation, toBeDeleted, visited>>

\* What Realm's add puts into the store with e: e and the unmanaged objects it leads to
\* over unmanaged objects.
Added(e) ==
    IF e \in managed THEN {}
    ELSE ReachFrom({e}, [o \in Obj |-> IF o \in Unmanaged THEN link[o] \cap Unmanaged ELSE {}])

\* add throws for an invalid object, be it the argument or one that it meets.
Addable(e) == e \notin invalid /\ \A o \in Added(e) : link[o] \cap invalid = {}

Add ==
    /\ pc = "add"
    /\ Addable(arg[next])
    /\ managed' = managed \cup Added(arg[next])
    /\ pc' = "next" /\ next' = next + 1
    /\ UNCHANGED <<invalid, link, Past, Operation, toBeDeleted, visited>>

\* Everything that traps.  Taking an invalid object with a primary key out of the Set
\* may do so: that depends on what the Set's storage hashes again.
Throw ==
    /\ \/ pc = "next" /\ op = "delete" /\ next <= Len(arg) /\ ~Hashable({arg[next]})
       \/ /\ pc = "next" /\ op = "create" /\ next <= Len(arg)
          /\ arg[next] \in invalid \/ ~Hashable(link[arg[next]])
       \/ /\ pc = "loop"
          /\ \E x \in toBeDeleted :
                IF x \in invalid THEN ~Hashable({x}) ELSE ~Hashable(link[x])
       \/ pc = "add" /\ ~Addable(arg[next])
    /\ Crash

Step ==
    \/ CascadeDelete \/ CascadeDeleteSubtypes
    \/ \E x \in Obj : Skip(x) \/ Resolve(x)
    \/ EndLoop \/ Add \/ Throw \/ Return

Next == Create \/ Delete \/ DeleteAll \/ Step

Spec == Init /\ [][Next]_vars

\* The loops run on a thread that is not stopped.
FairSpec == Spec /\ WF_vars(Step)

-----------------------------------------------------------------------------

TypeOK ==
    /\ hasPK \in BOOLEAN
    /\ managed \subseteq Obj /\ invalid \subseteq Obj
    /\ link \in [Obj -> SUBSET Obj]
    /\ pc \in {"idle", "next", "loop", "add", "crashed"}
    /\ op \in {"none", "create", "delete"}
    /\ arg \in Seq(Obj) /\ next \in Nat \ {0}
    /\ pc \in {"loop", "add"} => next <= Len(arg)
    /\ toBeDeleted \subseteq Obj /\ visited \subseteq Obj
    /\ managed0 \subseteq Obj /\ link0 \in [Obj -> SUBSET Obj]
    /\ HeapOK

\* A delete that returns has deleted what its arguments led to when it began, all of it
\* and nothing else, however removeFirst chose, though each row it deleted took links
\* with it that the cascade had still to follow.
DeleteExact ==
    pc = "idle" /\ op = "delete" => managed = managed0 \ Reach0

\* At no moment does an operation delete an object that its arguments did not lead to.
BystandersSurvive == managed0 \ Reach0 \subseteq managed

\* An earlier argument is, or leads to, one that follows.
Revisited == \E k \in 1 .. Len(arg) : arg[k] \in ReachFrom({arg[j] : j \in 1 .. k - 1}, link0)

\* A delete of stored objects with primary keys ends the process, in the hash of an
\* object that is gone by then, when and only when an earlier argument leads to a later
\* one, however removeFirst chose and whichever other links went with the rows.  A row
\* that links to itself may do so as well, as its object is in the Set when it goes.
KeyedDeleteThrows ==
    hasPK /\ op = "delete" /\ ArgSet \subseteq managed0 =>
        /\ pc = "idle" => ~Revisited
        /\ pc = "crashed" => Revisited \/ \E o \in Reach0 : o \in link0[o]

\* A create of a graph of new objects stores the whole graph.
CreateStoresGraph ==
    (/\ pc = "idle" /\ op = "create" /\ Len(arg) = 1
     /\ Reach0 \cap managed0 = {})
    => Reach0 \subseteq managed

\* Every operation comes to an end.
Terminates == (pc # "idle") ~> (pc \in {"idle", "crashed"})

\* It does so, whatever removeFirst chooses, unless its arguments lead to a cycle of
\* unmanaged objects: cycles of rows are broken as the rows go.
TerminatesUnlessCyclic ==
    (pc # "idle" /\ Acyclic(link0, Reach0 \ managed0)) ~> (pc \in {"idle", "crashed"})

===============================================================================
