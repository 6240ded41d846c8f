-------------------------- MODULE RealmCascadeProofs --------------------------
(***************************************************************************)
(* Proofs about RealmCascade, for any set of objects, any graph, any array *)
(* and any order in which the Sets are emptied.                            *)
(***************************************************************************)
EXTENDS RealmCascade, FiniteSetTheorems, TLAPS

Links == [Obj -> SUBSET Obj]

-----------------------------------------------------------------------------
(* Reachability.                                                           *)

LEMMA ReachType == ASSUME NEW S, NEW l PROVE ReachFrom(S, l) \subseteq Obj
BY DEF ReachFrom

\* Reachability holds its roots and is closed.
LEMMA ReachClosed ==
    ASSUME NEW S \in SUBSET Obj, NEW l \in Links
    PROVE  S \subseteq ReachFrom(S, l) /\ Closed(ReachFrom(S, l), l)
<1>1. S \subseteq ReachFrom(S, l)
    BY DEF ReachFrom
<1>2. ASSUME NEW o \in ReachFrom(S, l), NEW q \in l[o] PROVE q \in ReachFrom(S, l)
    <2>1. o \in Obj /\ q \in Obj
        BY DEF ReachFrom, Links
    <2>2. ASSUME NEW C \in SUBSET Obj, S \subseteq C, Closed(C, l) PROVE q \in C
        <3>1. o \in C
            BY <2>2 DEF ReachFrom
        <3> QED
            BY <2>2, <3>1 DEF Closed
    <2> QED
        BY <2>1, <2>2 DEF ReachFrom
<1> QED
    BY <1>1, <1>2 DEF Closed

\* Every closed set that holds the roots holds all that is reachable.
LEMMA ReachLeast ==
    ASSUME NEW S, NEW l, NEW C \in SUBSET Obj, S \subseteq C, Closed(C, l)
    PROVE  ReachFrom(S, l) \subseteq C
BY DEF ReachFrom

-----------------------------------------------------------------------------
(* Types.                                                                  *)

LEMMA OrdersType == \A S \in SUBSET Obj : Orders(S) \subseteq Seq(Obj)
<1> SUFFICES ASSUME NEW S \in SUBSET Obj, NEW s \in Orders(S) PROVE s \in Seq(Obj)
    OBVIOUS
<1>1. Cardinality(S) \in Nat
    BY FS_Subset, FS_CardinalityType, ConstantsOK
<1>2. s \in [1 .. Cardinality(S) -> Obj]
    BY DEF Orders
<1> QED
    BY <1>1, <1>2

LEMMA ArgType == \A s \in Args : s \in Seq(Obj)
BY ConstantsOK

LEMMA TypeInit == Init => TypeOK
<1>1. <<>> \in Seq(Obj)
    OBVIOUS
<1> QED
    BY <1>1 DEF Init, TypeOK, HeapOK

LEMMA BeginsWith ==
    ASSUME TypeOK, Create \/ Delete \/ DeleteAll
    PROVE  \E o \in {"create", "delete"}, s \in Seq(Obj) : Begin(o, s)
<1>1. managed \cap Models \in SUBSET Obj
    BY ConstantsOK DEF TypeOK
<1> QED
    BY <1>1, ArgType, OrdersType DEF Create, Delete, DeleteAll

\* Deleting a row leaves rows linked to rows.
LEMMA DeleteRowType ==
    ASSUME TypeOK, NEW x \in managed, DeleteRow(x)
    PROVE  managed' \subseteq Obj /\ invalid' \subseteq Obj /\ link' \in Links /\ HeapOK'
<1>1. x \in Obj
    BY DEF TypeOK
<1>2. \A o \in Obj : link'[o] = IF o = x THEN {}
                                ELSE IF o \in managed THEN link[o] \ {x} ELSE link[o]
    BY DEF DeleteRow
<1>3. link' \in Links
    BY <1>2 DEF DeleteRow, TypeOK, Links
<1>4. managed' \subseteq Obj /\ invalid' \subseteq Obj
    BY <1>1 DEF DeleteRow, TypeOK
<1>5. HeapOK'
    <2>1. managed' \cap invalid' = {}
        BY DEF DeleteRow, TypeOK, HeapOK
    <2>2. \A o \in managed' : link'[o] \subseteq managed'
        BY <1>2 DEF DeleteRow, TypeOK, HeapOK
    <2>3. \A o \in invalid' : link'[o] = {}
        BY <1>2 DEF DeleteRow, TypeOK, HeapOK
    <2> QED
        BY <2>1, <2>2, <2>3 DEF HeapOK
<1> QED
    BY <1>3, <1>4, <1>5

LEMMA AddedType == ASSUME TypeOK, NEW e \in Obj PROVE Added(e) \subseteq Obj
BY ReachType DEF Added

\* What add meets: e itself, no row and no invalid object, and with an object all the
\* unmanaged objects that it links to.
LEMMA AddedClosed ==
    ASSUME TypeOK, NEW e \in Unmanaged
    PROVE  /\ e \in Added(e)
           /\ Added(e) \subseteq Unmanaged
           /\ \A o \in Added(e) : link[o] \cap Unmanaged \subseteq Added(e)
<1> DEFINE l == [o \in Obj |-> IF o \in Unmanaged THEN link[o] \cap Unmanaged ELSE {}]
<1>1. l \in Links /\ {e} \in SUBSET Obj /\ Added(e) = ReachFrom({e}, l)
    BY DEF Links, Added, TypeOK, Unmanaged
<1>2. \A o \in Obj : l[o] = IF o \in Unmanaged THEN link[o] \cap Unmanaged ELSE {}
    OBVIOUS
<1> HIDE DEF l
<1>3. {e} \subseteq Added(e) /\ Closed(Added(e), l)
    BY <1>1, ReachClosed
<1>4. Closed(Unmanaged, l) /\ {e} \subseteq Unmanaged /\ Unmanaged \in SUBSET Obj
    BY <1>2 DEF Closed, Unmanaged
<1>5. Added(e) \subseteq Unmanaged
    BY <1>1, <1>4, ReachLeast
<1> QED
    BY <1>2, <1>3, <1>5 DEF Closed, Unmanaged

LEMMA AddType ==
    ASSUME TypeOK, Add
    PROVE  TypeOK'
<1> DEFINE e == arg[next]
<1>1. e \in Obj /\ next \in Nat \ {0} /\ next <= Len(arg)
    BY DEF TypeOK, Add
<1>2. Added(e) \subseteq Obj
    BY <1>1, AddedType
<1>3. HeapOK'
    <2>1. CASE e \in managed
        BY <2>1 DEF Add, Added, TypeOK, HeapOK
    <2>2. CASE e \notin managed
        <3>1. e \in Unmanaged
            BY <1>1, <2>2 DEF Add, Addable, Unmanaged
        <3>2. \A o \in Added(e) : link[o] \subseteq managed \cup Added(e)
            BY <1>2, <3>1, AddedClosed DEF Add, Addable, Unmanaged, TypeOK
        <3>3. Added(e) \cap invalid = {}
            BY <3>1, AddedClosed DEF Unmanaged
        <3> QED
            BY <3>2, <3>3 DEF Add, TypeOK, HeapOK
    <2> QED
        BY <2>1, <2>2
<1> QED
    BY <1>1, <1>2, <1>3 DEF Add, TypeOK, Past, Operation

LEMMA TypeStep ==
    ASSUME TypeOK, [Next]_vars
    PROVE  TypeOK'
<1>1. ASSUME NEW o \in {"create", "delete"}, NEW s \in Seq(Obj), Begin(o, s) PROVE TypeOK'
    BY <1>1 DEF Begin, TypeOK, HeapOK, Heap
<1>2. CASE CascadeDelete
    <2>1. arg[next] \in Obj
        BY <1>2 DEF CascadeDelete, TypeOK
    <2> QED
        BY <1>2, <2>1 DEF CascadeDelete, TypeOK, HeapOK, Heap, Past, Operation
<1>3. CASE CascadeDeleteSubtypes
    <2>1. arg[next] \in Obj /\ link[arg[next]] \subseteq Obj
        BY <1>3 DEF CascadeDeleteSubtypes, TypeOK
    <2> QED
        BY <1>3, <2>1 DEF CascadeDeleteSubtypes, InsertLinks, TypeOK, HeapOK, Heap, Past, Operation
<1>4. ASSUME NEW x \in Obj, Skip(x) PROVE TypeOK'
    BY <1>4 DEF Skip, TypeOK, HeapOK, Heap, Past, Operation
<1>5. ASSUME NEW x \in Obj, Resolve(x) PROVE TypeOK'
    <2>1. managed' \subseteq Obj /\ invalid' \subseteq Obj /\ link' \in Links /\ HeapOK'
        BY <1>5, DeleteRowType DEF Resolve, Heap, TypeOK, HeapOK, Links
    <2>2. toBeDeleted' \subseteq Obj
        BY <1>5 DEF Resolve, InsertLinks, TypeOK
    <2> QED
        BY <1>5, <2>1, <2>2 DEF Resolve, TypeOK, Past, Operation, Links
<1>6. CASE EndLoop
    BY <1>6 DEF EndLoop, TypeOK, HeapOK, Heap, Past, Operation
<1>7. CASE Add
    BY <1>7, AddType
<1>8. CASE Throw
    BY <1>8 DEF Throw, Crash, TypeOK, HeapOK, Heap, Past, Operation
<1>9. CASE Return
    BY <1>9 DEF Return, TypeOK, HeapOK, Heap, Past, Operation
<1>10. CASE UNCHANGED vars
    BY <1>10 DEF vars, TypeOK, HeapOK
<1> QED
    BY <1>1, <1>2, <1>3, <1>4, <1>5, <1>6, <1>7, <1>8, <1>9, <1>10, BeginsWith DEF Next, Step

\* The variables keep their types, and a row never links to anything but rows.
THEOREM TypeCorrect == Spec => []TypeOK
<1> QED
    BY TypeInit, TypeStep, PTL DEF Spec

-----------------------------------------------------------------------------
(***************************************************************************)
(* What an operation deletes.  The inductive invariant has two halves: the *)
(* Set never holds an object that the arguments do not lead to (Sound),    *)
(* and what a delete has taken out of the Set is, up to the Set's present  *)
(* contents, closed under the links there were at the start (Complete).    *)
(* The links change underway, as every deleted row takes the links to it   *)
(* along; Complete says that only links to objects already dealt with go.  *)
(***************************************************************************)
Sound ==
    /\ pc \in {"idle", "next", "add"} => toBeDeleted = {}
    /\ toBeDeleted \subseteq Reach0
    /\ \A o \in Obj : link[o] \subseteq link0[o]
    /\ managed0 \ Reach0 \subseteq managed

Complete ==
    op = "delete" =>
        /\ pc # "add"
        /\ pc = "idle" => next > Len(arg)
        /\ managed \subseteq managed0
        /\ visited \cap managed = {}
        /\ \A v \in visited : link0[v] \subseteq visited \cup toBeDeleted
        /\ \A o \in Obj \ invalid : link0[o] \subseteq link[o] \cup visited
        /\ \A o \in invalid : o \in visited \/ link0[o] = {}
        /\ \A k \in 1 .. Len(arg) :
              \/ k >= next /\ pc # "loop"
              \/ k > next
              \/ arg[k] \in visited \cup toBeDeleted

CascadeInv == TypeOK /\ Sound /\ Complete

LEMMA ReachOfArg ==
    ASSUME TypeOK
    PROVE  /\ ArgSet \subseteq Reach0 /\ Reach0 \subseteq Obj
           /\ \A o \in Reach0 : link0[o] \subseteq Reach0
<1>1. ArgSet \in SUBSET Obj /\ link0 \in Links
    BY DEF ArgSet, TypeOK, Links
<1> QED
    BY <1>1, ReachClosed, ReachType DEF Reach0, Closed

LEMMA CascadeInit == Init => CascadeInv
<1> SUFFICES ASSUME Init PROVE Sound /\ Complete
    BY TypeInit DEF CascadeInv
<1> QED
    BY DEF Init, Sound, Complete

\* The roots and the links of an operation do not change while it runs.
LEMMA SameReach ==
    ASSUME link0' = link0, arg' = arg
    PROVE  Reach0' = Reach0 /\ ArgSet' = ArgSet
BY DEF Reach0, ArgSet, ReachFrom

LEMMA BeginInv ==
    ASSUME CascadeInv, NEW o, NEW s \in Seq(Obj), Begin(o, s)
    PROVE  Sound' /\ Complete'
<1> USE DEF CascadeInv
<1>1. toBeDeleted' = {} /\ visited' = {} /\ pc' = "next" /\ next' = 1
      /\ link0' = link /\ link' = link /\ managed0' = managed /\ managed' = managed
      /\ invalid' = invalid
    BY DEF Begin, Sound, Heap
<1>2. Sound'
    BY <1>1 DEF Sound
<1>3. Complete'
    BY <1>1 DEF Complete, TypeOK, HeapOK
<1> QED
    BY <1>2, <1>3

LEMMA LoopBeginInv ==
    ASSUME CascadeInv, CascadeDelete \/ CascadeDeleteSubtypes
    PROVE  Sound' /\ Complete'
<1> USE DEF CascadeInv
<1> DEFINE e == arg[next]
<1>1. /\ UNCHANGED <<managed, invalid, link, managed0, link0, op, arg, next, visited>>
      /\ pc = "next" /\ pc' = "loop" /\ toBeDeleted = {}
    BY DEF CascadeDelete, CascadeDeleteSubtypes, Heap, Past, Operation, Sound
<1>2. e \in Obj /\ e \in ArgSet
    BY DEF CascadeDelete, CascadeDeleteSubtypes, TypeOK, ArgSet
<1>3. Reach0' = Reach0
    BY <1>1, SameReach
<1>4. e \in Reach0 /\ link0[e] \subseteq Reach0
    BY <1>2, ReachOfArg
<1>5. toBeDeleted' \subseteq Reach0
    BY <1>2, <1>4 DEF CascadeDelete, CascadeDeleteSubtypes, InsertLinks, Sound
<1>6. Sound'
    BY <1>1, <1>3, <1>5 DEF Sound
<1>7. Complete'
    <2> SUFFICES ASSUME op = "delete" PROVE Complete'
        BY <1>1 DEF Complete
    <2>1. toBeDeleted' = {e}
        BY DEF CascadeDelete, CascadeDeleteSubtypes
    <2>2. \A k \in 1 .. Len(arg) : k > next \/ arg[k] \in visited \cup toBeDeleted'
        BY <1>1, <2>1 DEF Complete, TypeOK
    <2> QED
        BY <1>1, <2>2 DEF Complete, TypeOK
<1> QED
    BY <1>6, <1>7

LEMMA SkipInv ==
    ASSUME CascadeInv, NEW x \in Obj, Skip(x)
    PROVE  Sound' /\ Complete'
<1> USE DEF CascadeInv
<1>1. /\ UNCHANGED <<managed, invalid, link, managed0, link0, op, arg, next, pc>>
      /\ pc = "loop" /\ x \in toBeDeleted /\ x \in invalid
      /\ toBeDeleted' = toBeDeleted \ {x} /\ visited' = visited \cup {x}
    BY DEF Skip, Heap, Past, Operation
<1>2. Reach0' = Reach0
    BY <1>1, SameReach
<1>3. Sound'
    BY <1>1, <1>2 DEF Sound
<1>4. Complete'
    <2> SUFFICES ASSUME op = "delete" PROVE Complete'
        BY <1>1 DEF Complete
    <2>1. x \notin managed
        BY <1>1 DEF TypeOK, HeapOK
    <2>2. \A v \in visited' : link0[v] \subseteq visited' \cup toBeDeleted'
        BY <1>1 DEF Complete
    <2> QED
        BY <1>1, <2>1, <2>2 DEF Complete
<1> QED
    BY <1>3, <1>4

LEMMA ResolveInv ==
    ASSUME CascadeInv, NEW x \in Obj, Resolve(x)
    PROVE  Sound' /\ Complete'
<1> USE DEF CascadeInv
<1>1. /\ UNCHANGED <<managed0, link0, op, arg, next, pc>>
      /\ pc = "loop" /\ x \in toBeDeleted /\ x \notin invalid
      /\ toBeDeleted' = (toBeDeleted \ {x}) \cup link[x] /\ visited' = visited \cup {x}
    BY DEF Resolve, InsertLinks, Past, Operation
<1>2. Reach0' = Reach0
    BY <1>1, SameReach
<1>3. /\ managed' = managed \ {x}
      /\ invalid' = invalid \/ invalid' = invalid \cup {x}
      /\ \A o \in Obj : link'[o] \subseteq link[o]
      /\ \A o \in Obj \ invalid' : link[o] \subseteq link'[o] \cup {x}
    <2>1. CASE x \in managed
        <3>1. \A o \in Obj : link'[o] = IF o = x THEN {}
                                        ELSE IF o \in managed THEN link[o] \ {x} ELSE link[o]
            BY <2>1 DEF Resolve, DeleteRow
        <3>2. managed' = managed \ {x} /\ invalid' = invalid \cup {x}
            BY <2>1 DEF Resolve, DeleteRow
        <3> QED
            BY <3>1, <3>2
    <2>2. CASE x \notin managed
        BY <2>2 DEF Resolve, Heap
    <2> QED
        BY <2>1, <2>2
<1>4. link[x] \subseteq Reach0
    BY <1>1, ReachOfArg DEF Sound
<1>5. Sound'
    <2>1. toBeDeleted' \subseteq Reach0 /\ x \in Reach0
        BY <1>1, <1>4 DEF Sound
    <2> QED
        BY <1>1, <1>2, <1>3, <2>1 DEF Sound
<1>6. Complete'
    <2> SUFFICES ASSUME op = "delete" PROVE Complete'
        BY <1>1 DEF Complete
    <2>1. \A v \in visited' : link0[v] \subseteq visited' \cup toBeDeleted'
        BY <1>1 DEF Complete
    <2>2. \A o \in Obj \ invalid' : link0[o] \subseteq link'[o] \cup visited'
        BY <1>1, <1>3 DEF Complete
    <2>3. \A o \in invalid' : o \in visited' \/ link0[o] = {}
        BY <1>1, <1>3 DEF Complete
    <2>4. managed' \subseteq managed0 /\ visited' \cap managed' = {}
        BY <1>1, <1>3 DEF Complete
    <2>5. \A k \in 1 .. Len(arg) : k > next \/ arg[k] \in visited' \cup toBeDeleted'
        BY <1>1 DEF Complete
    <2> QED
        BY <1>1, <2>1, <2>2, <2>3, <2>4, <2>5 DEF Complete
<1> QED
    BY <1>5, <1>6

LEMMA EndLoopInv ==
    ASSUME CascadeInv, EndLoop
    PROVE  Sound' /\ Complete'
<1> USE DEF CascadeInv
<1>1. /\ UNCHANGED <<managed, invalid, link, managed0, link0, op, arg, toBeDeleted, visited>>
      /\ pc = "loop" /\ toBeDeleted = {} /\ pc' \in {"add", "next"}
      /\ op = "delete" => pc' = "next" /\ next' = next + 1
    BY DEF EndLoop, Heap, Past, Operation
<1>2. Sound'
    BY <1>1, SameReach DEF Sound
<1>3. Complete'
    <2> SUFFICES ASSUME op = "delete" PROVE Complete'
        BY <1>1 DEF Complete
    <2>1. \A k \in 1 .. Len(arg) : k >= next' \/ arg[k] \in visited \cup toBeDeleted
        BY <1>1 DEF Complete, TypeOK
    <2> QED
        BY <1>1, <2>1 DEF Complete
<1> QED
    BY <1>2, <1>3

\* The remaining steps delete nothing, and are no delete's or change no more than pc.
LEMMA OtherInv ==
    ASSUME CascadeInv, Add \/ Throw \/ Return \/ UNCHANGED vars
    PROVE  Sound' /\ Complete'
<1> USE DEF CascadeInv
<1>1. CASE Add
    <2>1. op # "delete" /\ op' = op
        BY <1>1 DEF Add, Complete, Operation
    <2>2. managed \subseteq managed'
        BY <1>1 DEF Add
    <2> QED
        BY <1>1, <2>1, <2>2, SameReach DEF Add, Sound, Complete, Past, Operation
<1>2. CASE Throw \/ Return \/ UNCHANGED vars
    <2>1. /\ UNCHANGED <<managed, invalid, link, managed0, link0, op, arg, next, toBeDeleted, visited>>
          /\ \/ pc' = "crashed"
             \/ pc = "next" /\ pc' = "idle" /\ next > Len(arg)
             \/ pc' = pc
        BY <1>2 DEF Throw, Crash, Return, vars, Heap, Past, Operation
    <2>2. Sound'
        BY <2>1, SameReach DEF Sound, Past, Operation
    <2>3. Complete'
        BY <2>1 DEF Complete, TypeOK
    <2> QED
        BY <2>2, <2>3
<1> QED
    BY <1>1, <1>2

LEMMA CascadeStep ==
    ASSUME CascadeInv, [Next]_vars
    PROVE  CascadeInv'
<1>1. TypeOK'
    BY TypeStep DEF CascadeInv
<1>2. Sound' /\ Complete'
    BY BeginsWith, BeginInv, LoopBeginInv, SkipInv, ResolveInv, EndLoopInv, OtherInv
    DEF Next, Step, CascadeInv
<1> QED
    BY <1>1, <1>2 DEF CascadeInv

LEMMA CascadeAlways == Spec => []CascadeInv
BY CascadeInit, CascadeStep, PTL DEF Spec

\* No operation, be it a create or a delete, deletes at any moment an object that its
\* arguments did not lead to when it began.
THEOREM BystandersSafe == Spec => []BystandersSurvive
<1>1. CascadeInv => BystandersSurvive
    BY DEF CascadeInv, Sound, BystandersSurvive
<1> QED
    BY <1>1, CascadeAlways, PTL

\* A delete that returns has deleted exactly what its arguments led to.
THEOREM DeletesExact == Spec => []DeleteExact
<1>1. ASSUME CascadeInv, pc = "idle", op = "delete"
      PROVE  managed = managed0 \ Reach0
    <2>1. toBeDeleted = {} /\ next > Len(arg) /\ visited \in SUBSET Obj
        BY <1>1 DEF CascadeInv, Sound, Complete, TypeOK
    <2>2. ArgSet \subseteq visited
        BY <1>1, <2>1 DEF CascadeInv, Complete, ArgSet, TypeOK
    <2>3. Closed(visited, link0)
        BY <1>1, <2>1 DEF CascadeInv, Complete, Closed
    <2>4. Reach0 \subseteq visited
        BY <2>1, <2>2, <2>3, ReachLeast DEF Reach0
    <2> QED
        BY <1>1, <2>4 DEF CascadeInv, Sound, Complete
<1>2. CascadeInv => DeleteExact
    BY <1>1 DEF DeleteExact
<1> QED
    BY <1>2, CascadeAlways, PTL

-----------------------------------------------------------------------------
(***************************************************************************)
(* Deletes with primary keys.  Sound and Complete say what all the         *)
(* arguments together lead to; here each argument is set against those     *)
(* before it: what they lead to is gone when its turn comes, and nothing   *)
(* else is.                                                                *)
(***************************************************************************)

\* What the arguments before the k-th led to.
Lead(k) == ReachFrom({arg[j] : j \in 1 .. k - 1}, link0)

\* The first argument whose cascade has not begun.
Ahead == IF pc = "loop" THEN next + 1 ELSE next

Keyed == hasPK /\ op = "delete" /\ ArgSet \subseteq managed0

SelfLinked == \E o \in Reach0 : o \in link0[o]

NotYetRevisited == \A k \in 1 .. Len(arg) : k < Ahead => arg[k] \notin Lead(k)

KeysInv ==
    /\ managed0 \subseteq managed \cup invalid
    /\ Keyed =>
          /\ pc # "crashed" => NotYetRevisited
          /\ pc \in {"next", "loop"} => /\ toBeDeleted \subseteq Lead(Ahead)
                                        /\ managed0 \ Lead(Ahead) \subseteq managed
          /\ pc = "loop" => toBeDeleted \subseteq managed \/ SelfLinked
          /\ pc = "crashed" => Revisited \/ SelfLinked

\* What the arguments led to is closed, and grows with every argument.
LEMMA LeadGrows ==
    ASSUME TypeOK, NEW k \in 1 .. Len(arg)
    PROVE  /\ Lead(k) \subseteq Lead(k + 1) /\ arg[k] \in Lead(k + 1)
           /\ \A o \in Lead(k + 1) : link0[o] \subseteq Lead(k + 1)
<1> DEFINE P == {arg[j] : j \in 1 .. k - 1}
           Q == {arg[j] : j \in 1 .. k}
<1>1. link0 \in Links /\ Q \in SUBSET Obj /\ P \subseteq Q /\ arg[k] \in Q
    BY DEF TypeOK, Links
<1>2. Lead(k) = ReachFrom(P, link0) /\ Lead(k + 1) = ReachFrom(Q, link0)
    BY DEF Lead
<1>3. Q \subseteq Lead(k + 1) /\ Closed(Lead(k + 1), link0) /\ Lead(k + 1) \in SUBSET Obj
    BY <1>1, <1>2, ReachClosed, ReachType
<1>4. Lead(k) \subseteq Lead(k + 1)
    BY <1>1, <1>2, <1>3, ReachLeast
<1> QED
    BY <1>1, <1>3, <1>4 DEF Closed

\* All that the arguments before the present one led to has been taken out of the Set.
LEMMA LeadIsGone ==
    ASSUME CascadeInv, op = "delete", pc = "next", next <= Len(arg)
    PROVE  Lead(next) \subseteq visited
<1>1. toBeDeleted = {} /\ visited \in SUBSET Obj
    BY DEF CascadeInv, Sound, TypeOK
<1>2. Closed(visited, link0)
    BY <1>1 DEF CascadeInv, Complete, Closed
<1>3. {arg[j] : j \in 1 .. next - 1} \subseteq visited
    BY <1>1 DEF CascadeInv, Complete, TypeOK
<1> QED
    BY <1>1, <1>2, <1>3, ReachLeast DEF Lead

\* What no step of an operation changes.
LEMMA SameLead ==
    ASSUME UNCHANGED <<Past, Operation>>
    PROVE  /\ Keyed' = Keyed /\ SelfLinked' = SelfLinked /\ Revisited' = Revisited
           /\ \A k : Lead(k)' = Lead(k)
<1>1. hasPK' = hasPK /\ arg' = arg /\ op' = op /\ link0' = link0 /\ managed0' = managed0
    BY DEF Past, Operation
<1>2. \A k : Lead(k)' = Lead(k)
    BY <1>1 DEF Lead, ReachFrom
<1>3. Revisited' = Revisited
    BY <1>1 DEF Revisited, ReachFrom
<1> QED
    BY <1>1, <1>2, <1>3, SameReach DEF Keyed, SelfLinked

LEMMA KeysBegin ==
    ASSUME CascadeInv, NEW o, NEW s \in Seq(Obj), Begin(o, s)
    PROVE  KeysInv'
<1>1. /\ pc' = "next" /\ next' = 1 /\ toBeDeleted' = {}
      /\ managed0' = managed /\ managed' = managed
    BY DEF Begin, Heap, CascadeInv, Sound
<1> QED
    BY <1>1 DEF KeysInv, NotYetRevisited, Ahead

\* The cascade of an argument begins only if the arguments before did not lead to it.
LEMMA KeysCascade ==
    ASSUME CascadeInv, KeysInv, CascadeDelete
    PROVE  KeysInv'
<1>1. /\ UNCHANGED <<managed, invalid, managed0, link0, op, arg, next, visited>>
      /\ pc = "next" /\ pc' = "loop" /\ op = "delete" /\ next <= Len(arg)
      /\ toBeDeleted' = {arg[next]} /\ UNCHANGED <<Past, Operation>>
    BY DEF CascadeDelete, Heap, Past, Operation
<1>2. next \in 1 .. Len(arg) /\ Ahead = next /\ Ahead' = next + 1
    BY <1>1 DEF CascadeInv, TypeOK, Ahead
<1> SUFFICES ASSUME Keyed PROVE KeysInv'
    BY <1>1, SameLead DEF KeysInv
<1>3. arg[next] \in managed0 /\ arg[next] \notin invalid
    BY <1>2 DEF Keyed, ArgSet, CascadeDelete, Hashable
<1>4. arg[next] \in managed
    BY <1>3 DEF KeysInv
<1>5. arg[next] \notin Lead(next)
    BY <1>1, <1>4, LeadIsGone DEF CascadeInv, Complete
<1>6. NotYetRevisited'
    <2>1. \A k \in 1 .. Len(arg) : k < next + 1 => k < next \/ k = next
        BY <1>2
    <2>2. \A k \in 1 .. Len(arg) : k < next + 1 => arg[k] \notin Lead(k)
        BY <1>1, <1>2, <1>5, <2>1 DEF KeysInv, NotYetRevisited
    <2> QED
        BY <1>1, <1>2, <2>2, SameLead DEF NotYetRevisited
<1>7. toBeDeleted' \subseteq Lead(Ahead)' /\ (managed0 \ Lead(Ahead) \subseteq managed)'
    <2>1. Lead(next) \subseteq Lead(next + 1) /\ arg[next] \in Lead(next + 1)
        BY <1>2, LeadGrows DEF CascadeInv
    <2>2. managed0 \ Lead(next) \subseteq managed
        BY <1>1, <1>2 DEF KeysInv
    <2>3. Lead(Ahead)' = Lead(next + 1)
        BY <1>1, <1>2, SameLead DEF Lead, ReachFrom
    <2> QED
        BY <1>1, <2>1, <2>2, <2>3
<1> QED
    BY <1>1, <1>4, <1>6, <1>7 DEF KeysInv

\* A turn of the loop deletes no more than the arguments up to the present one led to,
\* and inserts rows that are there, but for one that links to itself.
LEMMA KeysResolve ==
    ASSUME CascadeInv, KeysInv, NEW x \in Obj, Resolve(x)
    PROVE  KeysInv'
<1>1. /\ UNCHANGED <<managed0, link0, op, arg, next, pc>> /\ UNCHANGED <<Past, Operation>>
      /\ pc = "loop" /\ x \in toBeDeleted /\ x \notin invalid
      /\ toBeDeleted' = (toBeDeleted \ {x}) \cup link[x]
    BY DEF Resolve, InsertLinks, Past, Operation
<1>2. managed' = managed \ {x} /\ managed \cup invalid \subseteq managed' \cup invalid'
    <2>1. CASE x \in managed
        BY <2>1 DEF Resolve, DeleteRow
    <2>2. CASE x \notin managed
        BY <2>2 DEF Resolve, Heap
    <2> QED
        BY <2>1, <2>2
<1> SUFFICES ASSUME Keyed PROVE KeysInv'
    BY <1>1, <1>2, SameLead DEF KeysInv
<1>3. next \in 1 .. Len(arg) /\ Ahead = next + 1
    BY <1>1 DEF CascadeInv, TypeOK, Ahead
<1>4. NotYetRevisited'
    BY <1>1, SameLead DEF KeysInv, NotYetRevisited, Ahead
<1>5. toBeDeleted' \subseteq Lead(Ahead)' /\ (managed0 \ Lead(Ahead) \subseteq managed)'
    <2>1. Lead(Ahead)' = Lead(next + 1)
        BY <1>1, <1>3, SameLead DEF Lead, ReachFrom, Ahead
    <2>2. x \in Lead(next + 1) /\ link[x] \subseteq link0[x]
        BY <1>1, <1>3 DEF KeysInv, CascadeInv, Sound
    <2>3. link[x] \subseteq Lead(next + 1)
        BY <1>3, <2>2, LeadGrows DEF CascadeInv
    <2> QED
        BY <1>1, <1>2, <1>3, <2>1, <2>2, <2>3 DEF KeysInv
<1>6. toBeDeleted' \subseteq managed' \/ SelfLinked'
    <2> SUFFICES ASSUME ~SelfLinked PROVE toBeDeleted' \subseteq managed'
        BY <1>1, SameLead
    <2>1. x \in managed /\ toBeDeleted \subseteq managed
        BY <1>1 DEF KeysInv
    <2>2. x \notin link[x]
        BY <1>1 DEF CascadeInv, Sound, SelfLinked
    <2>3. link[x] \subseteq managed
        BY <2>1 DEF CascadeInv, TypeOK, HeapOK
    <2> QED
        BY <1>1, <1>2, <2>1, <2>2, <2>3
<1> QED
    BY <1>1, <1>2, <1>4, <1>5, <1>6 DEF KeysInv

\* A delete ends the process only for an argument that those before led to, or for a row
\* that links to itself.
LEMMA KeysThrow ==
    ASSUME CascadeInv, KeysInv, Throw
    PROVE  KeysInv'
<1>1. UNCHANGED <<Heap, Past, Operation>> /\ pc' = "crashed"
    BY DEF Throw, Crash
<1>2. UNCHANGED <<managed, invalid, managed0>>
    BY <1>1 DEF Heap, Past
<1> SUFFICES ASSUME Keyed PROVE Revisited \/ SelfLinked
    BY <1>1, <1>2, SameLead DEF KeysInv
<1>3. CASE pc = "next" /\ next <= Len(arg) /\ ~Hashable({arg[next]})
    <2>1. next \in 1 .. Len(arg) /\ arg[next] \in invalid
        BY <1>3 DEF CascadeInv, TypeOK, Hashable
    <2>2. arg[next] \in managed0 /\ arg[next] \notin managed
        BY <2>1 DEF Keyed, ArgSet, CascadeInv, TypeOK, HeapOK
    <2>3. arg[next] \in Lead(next)
        BY <1>3, <2>2 DEF KeysInv, Ahead
    <2> QED
        BY <2>1, <2>3 DEF Revisited, Lead
<1>4. ASSUME pc = "loop", NEW x \in toBeDeleted,
             IF x \in invalid THEN ~Hashable({x}) ELSE ~Hashable(link[x])
      PROVE  SelfLinked
    <2> SUFFICES ASSUME x \in managed PROVE FALSE
        BY <1>4 DEF KeysInv
    <2>1. x \notin invalid /\ link[x] \cap invalid = {}
        BY DEF CascadeInv, TypeOK, HeapOK
    <2> QED
        BY <1>4, <2>1 DEF Hashable
<1>5. op = "delete" /\ pc # "add"
    BY DEF Keyed, CascadeInv, Complete
<1> QED
    BY <1>3, <1>4, <1>5 DEF Throw

LEMMA KeysStep ==
    ASSUME CascadeInv, KeysInv, [Next]_vars
    PROVE  KeysInv'
<1>1. CASE CascadeDeleteSubtypes \/ Add
    <2>1. UNCHANGED <<Past, Operation>>
        BY <1>1 DEF CascadeDeleteSubtypes, Add
    <2>2. op # "delete" /\ op' = op /\ managed0' = managed0
        BY <1>1, <2>1 DEF CascadeDeleteSubtypes, Add, CascadeInv, Complete, Past, Operation
    <2>3. managed \subseteq managed' /\ invalid' = invalid
        BY <1>1 DEF CascadeDeleteSubtypes, Add, Heap
    <2> QED
        BY <2>2, <2>3 DEF KeysInv, Keyed
<1>2. ASSUME NEW x \in Obj, Skip(x) PROVE KeysInv'
    <2>1. /\ UNCHANGED <<Past, Operation, managed, invalid, managed0, next, pc, arg>>
          /\ toBeDeleted' \subseteq toBeDeleted
        BY <1>2 DEF Skip, Heap, Past, Operation
    <2>2. Ahead' = Ahead /\ Lead(Ahead)' = Lead(Ahead)
        BY <2>1, SameLead DEF Ahead, Past, Operation, Lead, ReachFrom
    <2>3. NotYetRevisited' = NotYetRevisited
        BY <2>1, <2>2, SameLead DEF NotYetRevisited
    <2> QED
        BY <2>1, <2>2, <2>3, SameLead DEF KeysInv
<1>3. CASE EndLoop
    <2>1. /\ UNCHANGED <<Past, Operation, managed, invalid, managed0, toBeDeleted, op, arg>>
          /\ pc = "loop" /\ pc' \in {"add", "next"}
        BY <1>3 DEF EndLoop, Heap, Past, Operation
    <2> SUFFICES ASSUME Keyed PROVE KeysInv'
        BY <2>1, SameLead DEF KeysInv
    <2>2. pc' = "next" /\ Ahead' = Ahead
        BY <1>3, <2>1 DEF EndLoop, Ahead, Keyed
    <2>3. Lead(Ahead)' = Lead(Ahead) /\ NotYetRevisited' = NotYetRevisited
        BY <2>1, <2>2, SameLead DEF NotYetRevisited, Past, Operation, Lead, ReachFrom
    <2> QED
        BY <2>1, <2>2, <2>3 DEF KeysInv
<1>4. CASE Return
    <2>1. /\ UNCHANGED <<Past, Operation, managed, invalid, managed0, next, arg>>
          /\ pc = "next" /\ pc' = "idle"
        BY <1>4 DEF Return, Heap, Past, Operation
    <2>2. NotYetRevisited' = NotYetRevisited
        BY <2>1, SameLead DEF NotYetRevisited, Ahead
    <2> QED
        BY <2>1, <2>2, SameLead DEF KeysInv
<1>5. CASE UNCHANGED vars
    <2>1. UNCHANGED <<Past, Operation, managed, invalid, managed0, next, pc, arg, toBeDeleted>>
        BY <1>5 DEF vars, Past, Operation
    <2>2. Ahead' = Ahead /\ Lead(Ahead)' = Lead(Ahead)
        BY <2>1, SameLead DEF Ahead, Past, Operation, Lead, ReachFrom
    <2>3. NotYetRevisited' = NotYetRevisited
        BY <2>1, <2>2, SameLead DEF NotYetRevisited
    <2> QED
        BY <2>1, <2>2, <2>3, SameLead DEF KeysInv
<1> QED
    BY <1>1, <1>2, <1>3, <1>4, <1>5, BeginsWith, KeysBegin, KeysCascade, KeysResolve, KeysThrow
    DEF Next, Step, CascadeInv

\* A delete of stored objects with primary keys ends the process when and only when an
\* earlier argument leads to a later one, up to rows that link to themselves.
THEOREM KeyedDeletesThrow == Spec => []KeyedDeleteThrows
<1>1. Init => KeysInv
    BY DEF Init, KeysInv, Keyed
<1>2. CascadeInv /\ KeysInv => KeyedDeleteThrows
    <2> SUFFICES ASSUME CascadeInv, KeysInv, Keyed
                 PROVE  /\ pc = "idle" => ~Revisited
                        /\ pc = "crashed" => Revisited \/ SelfLinked
        BY DEF KeyedDeleteThrows, Keyed, SelfLinked
    <2>1. ASSUME pc = "idle" PROVE ~Revisited
        <3>1. \A k \in 1 .. Len(arg) : k < Ahead
            BY <2>1 DEF CascadeInv, Complete, Keyed, Ahead, TypeOK
        <3> QED
            BY <2>1, <3>1 DEF KeysInv, NotYetRevisited, Revisited, Lead
    <2> QED
        BY <2>1 DEF KeysInv
<1> QED
    BY <1>1, <1>2, KeysStep, CascadeAlways, PTL DEF Spec

-----------------------------------------------------------------------------
(* Creates of new objects.                                                 *)

\* Until a create of one model that leads to no stored object has added it, nothing has
\* changed; then the whole graph is stored.
Fresh == op = "create" /\ Len(arg) = 1 /\ Reach0 \cap managed0 = {}

FreshInv ==
    Fresh =>
        IF next = 1 THEN pc # "idle" /\ managed = managed0 /\ link = link0
                    ELSE Reach0 \subseteq managed

LEMMA FreshAdd ==
    ASSUME CascadeInv, FreshInv, Fresh, next = 1, Add
    PROVE  Reach0 \subseteq managed'
<1> DEFINE e == arg[next]
<1>1. e \in Obj /\ ArgSet = {e} /\ managed = managed0 /\ link = link0
    BY DEF CascadeInv, TypeOK, Add, ArgSet, Fresh, FreshInv
<1>2. ArgSet \subseteq Reach0 /\ \A o \in Reach0 : link0[o] \subseteq Reach0
    BY ReachOfArg DEF CascadeInv
<1>3. e \in Unmanaged
    BY <1>1, <1>2 DEF Add, Addable, Unmanaged, Fresh
<1>4. /\ e \in Added(e) /\ Added(e) \in SUBSET Obj
      /\ \A o \in Added(e) : link[o] \cap Unmanaged \subseteq Added(e)
      /\ \A o \in Added(e) : link[o] \cap invalid = {}
    BY <1>1, <1>3, AddedClosed, AddedType DEF CascadeInv, Add, Addable
<1> DEFINE C == Added(e) \cap Reach0
<1>5. ASSUME NEW o \in C PROVE link0[o] \subseteq C
    <2>1. link0[o] \subseteq Reach0 /\ link0[o] \subseteq Obj
        BY <1>2, <1>4 DEF CascadeInv, TypeOK
    <2>2. link0[o] \subseteq Unmanaged
        BY <1>1, <1>4, <2>1 DEF Unmanaged, Fresh
    <2> QED
        BY <1>1, <1>4, <2>1, <2>2
<1>6. ArgSet \subseteq C /\ C \in SUBSET Obj
    BY <1>1, <1>2, <1>4
<1>7. Reach0 \subseteq C
    BY <1>5, <1>6, ReachLeast DEF Reach0, Closed
<1> QED
    BY <1>7 DEF Add

LEMMA FreshStep ==
    ASSUME CascadeInv, FreshInv, [Next]_vars
    PROVE  FreshInv'
<1>1. CASE Create \/ Delete \/ DeleteAll
    <2>1. PICK o, s : Begin(o, s)
        BY <1>1 DEF Create, Delete, DeleteAll
    <2> QED
        BY <2>1 DEF Begin, FreshInv, Heap
<1>2. CASE CascadeDelete \/ CascadeDeleteSubtypes \/ Throw
    <2>1. UNCHANGED <<managed, link, managed0, link0, op, arg, next>> /\ pc' # "idle"
        BY <1>2 DEF CascadeDelete, CascadeDeleteSubtypes, Throw, Crash, Heap, Past, Operation
    <2> QED
        BY <2>1, SameReach DEF FreshInv, Fresh
<1>3. ASSUME NEW x \in Obj, Skip(x)
      PROVE  FreshInv'
    <2>1. UNCHANGED <<managed, link, managed0, link0, op, arg, next>> /\ pc' # "idle"
        BY <1>3 DEF Skip, Heap, Past, Operation
    <2> QED
        BY <2>1, SameReach DEF FreshInv, Fresh
<1>4. ASSUME NEW x \in Obj, Resolve(x)
      PROVE  FreshInv'
    <2> SUFFICES ASSUME Fresh' PROVE FreshInv'
        BY DEF FreshInv
    <2>1. UNCHANGED <<managed0, link0, op, arg, next>> /\ pc = "loop" /\ pc' = "loop"
        BY <1>4 DEF Resolve, Past, Operation
    <2>2. Fresh /\ Reach0' = Reach0
        BY <2>1, SameReach DEF Fresh
    <2>3. next = 1
        BY <2>1, <2>2 DEF CascadeInv, TypeOK, Fresh
    <2>4. x \in Reach0 /\ managed = managed0
        BY <1>4, <2>2, <2>3 DEF Resolve, CascadeInv, Sound, FreshInv
    <2>5. UNCHANGED Heap
        BY <1>4, <2>2, <2>4 DEF Resolve, Fresh
    <2> QED
        BY <2>1, <2>2, <2>3, <2>5 DEF FreshInv, Heap
<1>5. CASE EndLoop
    <2>1. /\ UNCHANGED <<managed, link, managed0, link0, op, arg>> /\ pc' # "idle"
          /\ op = "create" => next' = next
        BY <1>5 DEF EndLoop, Heap, Past, Operation
    <2> QED
        BY <2>1, SameReach DEF FreshInv, Fresh
<1>6. CASE Add
    <2> SUFFICES ASSUME Fresh' PROVE FreshInv'
        BY DEF FreshInv
    <2>1. UNCHANGED <<managed0, link0, op, arg>> /\ pc = "add" /\ next' = next + 1
        BY <1>6 DEF Add, Past, Operation
    <2>2. Fresh /\ Reach0' = Reach0
        BY <2>1, SameReach DEF Fresh
    <2>3. next = 1
        BY <2>1, <2>2 DEF CascadeInv, TypeOK, Fresh
    <2>4. Reach0 \subseteq managed'
        BY <1>6, <2>2, <2>3, FreshAdd
    <2> QED
        BY <2>1, <2>2, <2>3, <2>4 DEF FreshInv
<1>7. CASE Return
    <2>1. UNCHANGED <<managed, link, managed0, link0, op, arg, next>> /\ next > Len(arg)
        BY <1>7 DEF Return, Heap, Past, Operation
    <2>2. Fresh => next # 1
        BY <2>1 DEF Fresh
    <2> QED
        BY <2>1, <2>2, SameReach DEF FreshInv, Fresh
<1>8. CASE UNCHANGED vars
    BY <1>8 DEF vars, FreshInv, Fresh, Reach0, ReachFrom, ArgSet
<1> QED
    BY <1>1, <1>2, <1>3, <1>4, <1>5, <1>6, <1>7, <1>8 DEF Next, Step

\* A create of one model that leads to new objects only stores all of them.
THEOREM CreatesStoreGraph == Spec => []CreateStoresGraph
<1>1. Init => FreshInv
    BY DEF Init, FreshInv, Fresh
<1>2. CascadeInv /\ FreshInv => CreateStoresGraph
    <2> SUFFICES ASSUME CascadeInv, FreshInv, Fresh, pc = "idle" PROVE Reach0 \subseteq managed
        BY DEF CreateStoresGraph, Fresh
    <2> QED
        BY DEF FreshInv
<1> QED
    BY <1>1, <1>2, FreshStep, CascadeAlways, PTL DEF Spec
===============================================================================
