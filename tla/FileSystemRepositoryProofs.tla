---------------------- MODULE FileSystemRepositoryProofs ----------------------
(***************************************************************************)
(* Proofs about FileSystemRepository, for any threads, ids, values, names, *)
(* arrays and any failures of the FileManager.                             *)
(***************************************************************************)
EXTENDS FileSystemRepository, TLAPS

-----------------------------------------------------------------------------
(* Types.                                                                  *)

\* A call inside an element of its array is at a model, whose file has a name.
LEMMA ItemType ==
    ASSUME TypeOK, NEW t \in Thread, call[t].pc \in ElementSteps
    PROVE  Item(t) \in Model /\ ItemName(t) \in Name
<1>1. Item(t) \in Model
    BY DEF TypeOK, CallsOK, Call, Item
<1> QED
    BY <1>1, ConstantsOK DEF TypeOK, ItemName, Model

\* A step that changes one call to a well-formed one keeps all calls well-formed.
LEMMA OneCall ==
    ASSUME TypeOK, NEW t \in Thread, NEW c \in Call,
           c.pc \in ElementSteps => Len(c.rs) < Len(c.arg),
           call' = [call EXCEPT ![t] = c]
    PROVE  CallsOK'
BY DEF TypeOK, CallsOK

LEMMA ItemReturnsType ==
    ASSUME TypeOK, NEW t \in Thread, call[t].pc \in ElementSteps,
           NEW r \in Results, ItemReturns(t, r)
    PROVE  CallsOK'
<1> DEFINE c == [call[t] EXCEPT
        !.rs = Append(@, r),
        !.pc = IF Len(call[t].rs) + 1 = Len(call[t].arg) THEN "done"
               ELSE IF call[t].op = "delete" THEN "find" ELSE "mkdir"]
<1>1. call[t] \in Call /\ Len(call[t].rs) < Len(call[t].arg)
    BY DEF TypeOK, CallsOK
<1>2. /\ c.rs = Append(call[t].rs, r)
      /\ c.arg = call[t].arg
      /\ c.pc = IF Len(call[t].rs) + 1 = Len(call[t].arg) THEN "done"
                ELSE IF call[t].op = "delete" THEN "find" ELSE "mkdir"
    BY <1>1 DEF Call
<1>3. Append(call[t].rs, r) \in Seq(Results) /\ Len(Append(call[t].rs, r)) = Len(call[t].rs) + 1
    BY <1>1 DEF Call
<1>4. c \in Call
    BY <1>1, <1>3 DEF Call, Steps, ElementSteps
<1>5. c.pc \in ElementSteps => Len(c.rs) < Len(c.arg)
    BY <1>1, <1>2, <1>3 DEF ElementSteps, Call
<1>6. call' = [call EXCEPT ![t] = c]
    BY DEF ItemReturns, TypeOK, CallsOK
<1> HIDE DEF c
<1> QED
    BY <1>4, <1>5, <1>6, OneCall

LEMMA GotoType ==
    ASSUME TypeOK, NEW t \in Thread, call[t].pc \in ElementSteps,
           NEW pc \in ElementSteps, Goto(t, pc)
    PROVE  CallsOK'
<1> DEFINE c == [call[t] EXCEPT !.pc = pc]
<1>1. call[t] \in Call /\ Len(call[t].rs) < Len(call[t].arg)
    BY DEF TypeOK, CallsOK
<1>2. c \in Call /\ c.rs = call[t].rs /\ c.arg = call[t].arg
    BY <1>1 DEF Call, Steps
<1>3. call' = [call EXCEPT ![t] = c]
    BY DEF Goto, TypeOK, CallsOK
<1> HIDE DEF c
<1> QED
    BY <1>1, <1>2, <1>3, OneCall

LEMMA ReturnsType ==
    ASSUME TypeOK, NEW t \in Thread, NEW r \in Results, Returns(t, r)
    PROVE  CallsOK'
<1> DEFINE c == [call[t] EXCEPT !.rs = <<r>>, !.pc = "done"]
<1>1. call[t] \in Call /\ <<r>> \in Seq(Results)
    BY DEF TypeOK, CallsOK
<1>2. c \in Call /\ c.pc = "done"
    BY <1>1 DEF Call, Steps
<1>3. call' = [call EXCEPT ![t] = c]
    BY DEF Returns, TypeOK, CallsOK
<1> HIDE DEF c
<1> QED
    BY <1>2, <1>3, OneCall DEF ElementSteps

LEMMA BeginType ==
    ASSUME TypeOK, NEW t \in Thread, NEW op \in Ops, NEW pc \in Steps, NEW arg \in Seq(Model),
           pc \in ElementSteps => arg # <<>>, Begin(t, op, pc, arg)
    PROVE  TypeOK'
<1> DEFINE c == NewCall(op, pc, arg)
<1>1. c \in Call /\ (c.pc \in ElementSteps => Len(c.rs) < Len(c.arg))
    BY DEF NewCall, Call
<1>2. call' = [call EXCEPT ![t] = c]
    BY DEF Begin
<1> HIDE DEF c
<1>3. CallsOK'
    BY <1>1, <1>2, OneCall
<1> QED
    BY <1>3 DEF Begin, TypeOK, Present

LEMMA WatchType ==
    ASSUME TypeOK, Watch
    PROVE  steady' \in [Thread -> SUBSET Name]
BY DEF TypeOK, Watch

LEMMA BatchType == Batch \subseteq Seq(Model) /\ <<>> \notin Batch
BY ConstantsOK

LEMMA CreateFileType ==
    ASSUME TypeOK, NEW t \in Thread, CreateFile(t)
    PROVE  TypeOK'
<1>1. call[t].pc \in ElementSteps /\ "success" \in Results
    BY DEF CreateFile, At, ElementSteps, Results
<1>2. CallsOK'
    BY <1>1, ItemReturnsType DEF CreateFile
<1>3. Item(t) \in Model /\ ItemName(t) \in Name
    BY <1>1, ItemType
<1> QED
    BY <1>2, <1>3 DEF CreateFile, TypeOK, Put, Owe, Lose

LEMMA SweepOneType ==
    ASSUME TypeOK, NEW t \in Thread, NEW n \in Name, At(t, "sweep"), SweepOne(t, n)
    PROVE  TypeOK'
<1>1. CASE /\ call' = [call EXCEPT ![t].names = @ \ {n}]
           /\ Put(n, NoFile) /\ Watch /\ Forget({n})
           /\ UNCHANGED <<dir, hash>>
    <2> DEFINE c == [call[t] EXCEPT !.names = @ \ {n}]
    <2>1. c \in Call /\ c.pc \notin ElementSteps
        BY DEF TypeOK, CallsOK, Call, At, ElementSteps
    <2>2. call' = [call EXCEPT ![t] = c]
        BY <1>1 DEF TypeOK, CallsOK
    <2> HIDE DEF c
    <2>3. CallsOK'
        BY <2>1, <2>2, OneCall
    <2> QED
        BY <1>1, <2>3, WatchType DEF TypeOK, Put, Forget
<1>2. CASE Returns(t, "error") /\ Quiet
    BY <1>2, ReturnsType DEF Results, TypeOK, Quiet
<1> QED
    BY <1>1, <1>2 DEF SweepOne

LEMMA ReadOneType ==
    ASSUME TypeOK, NEW t \in Thread, NEW n \in Name, At(t, "read"), ReadOne(t, n)
    PROVE  TypeOK'
<1>1. call[t] \in Call
    BY DEF TypeOK, CallsOK
<1>2. CASE /\ file[n] \in Model
           /\ call' = [call EXCEPT ![t].names = @ \ {n},
                                   ![t].got = @ \cup {[name |-> n, model |-> file[n]]}]
    <2> DEFINE G == [name : Name, model : Model]
    <2>a. [name |-> n, model |-> file[n]] \in G
        BY <1>2
    <2>b. call[t].got \subseteq G
        BY <1>1 DEF Call
    <2> HIDE DEF G
    <2>1. PICK g \in SUBSET G : g = call[t].got \cup {[name |-> n, model |-> file[n]]}
        BY <2>a, <2>b
    <2>2. PICK ns \in SUBSET Name : ns = call[t].names \ {n}
        BY <1>1 DEF Call
    <2> DEFINE c == [call[t] EXCEPT !.names = ns, !.got = g]
    <2>3. c \in Call /\ c.pc = "read"
        BY <1>1 DEF Call, At, G
    <2>4. call' = [call EXCEPT ![t] = c]
        BY <1>2, <2>1, <2>2 DEF TypeOK, CallsOK
    <2> HIDE DEF c
    <2> QED
        BY <2>3, <2>4, OneCall DEF ReadOne, TypeOK, Quiet, ElementSteps
<1>3. CASE call' = [call EXCEPT ![t].names = @ \ {n}]
    <2> DEFINE c == [call[t] EXCEPT !.names = @ \ {n}]
    <2>1. c \in Call /\ c.pc \notin ElementSteps
        BY <1>1 DEF Call, At, ElementSteps
    <2>2. call' = [call EXCEPT ![t] = c]
        BY <1>3 DEF TypeOK, CallsOK
    <2> HIDE DEF c
    <2> QED
        BY <2>1, <2>2, OneCall DEF ReadOne, TypeOK, Quiet
<1>4. CASE call' = [call EXCEPT ![t].got = {}, ![t].rs = <<"error">>, ![t].pc = "done"]
    <2>1. <<"error">> \in Seq(Results)
        BY DEF Results
    <2>2. PICK rs \in Seq(Results) : rs = <<"error">>
        BY <2>1
    <2> DEFINE c == [call[t] EXCEPT !.got = {}, !.rs = rs, !.pc = "done"]
    <2>3. c \in Call /\ c.pc = "done"
        BY <1>1 DEF Call, Steps
    <2>4. call' = [call EXCEPT ![t] = c]
        BY <1>4, <2>2 DEF TypeOK, CallsOK
    <2> HIDE DEF c
    <2> QED
        BY <2>3, <2>4, OneCall DEF ReadOne, TypeOK, Quiet, ElementSteps
<1> QED
    BY <1>2, <1>3, <1>4 DEF ReadOne

\* A call of any operation starts well-formed.
LEMMA CallsBegin ==
    ASSUME TypeOK, NEW t \in Thread,
           \/ Create(t) \/ CreateMany(t) \/ Update(t)
           \/ Delete(t) \/ DeleteMany(t) \/ DeleteAll(t) \/ GetAll(t)
    PROVE  TypeOK'
<1>1. \A m \in Model : <<m>> \in Seq(Model) \ {<<>>}
    OBVIOUS
<1>2. {"create", "createMany", "delete", "deleteAll", "getAll"} \subseteq Ops
      /\ {"mkdir", "find", "list"} \subseteq Steps /\ "list" \notin ElementSteps
    BY DEF Ops, Steps, ElementSteps, ListSteps
<1>3. CASE Create(t) \/ Update(t)
    BY <1>1, <1>2, <1>3, BeginType DEF Create, Update
<1>4. CASE CreateMany(t)
    BY <1>2, <1>4, BeginType, BatchType DEF CreateMany
<1>5. CASE Delete(t)
    BY <1>1, <1>2, <1>5, BeginType DEF Delete
<1>6. CASE DeleteMany(t)
    BY <1>2, <1>6, BeginType, BatchType DEF DeleteMany
<1>7. CASE DeleteAll(t) \/ GetAll(t)
    <2>1. <<>> \in Seq(Model)
        OBVIOUS
    <2> QED
        BY <1>2, <1>7, <2>1, BeginType DEF DeleteAll, GetAll
<1> QED
    BY <1>3, <1>4, <1>5, <1>6, <1>7

LEMMA IdleType == Idle \in Call /\ Idle.pc = "done" /\ Idle.op = "none"
<1>1. <<>> \in Seq(Model) /\ <<>> \in Seq(Results)
    OBVIOUS
<1> QED
    BY <1>1 DEF Idle, NewCall, Call, Ops, Steps

LEMMA TypeInit == Init => TypeOK
<1>1. Init => CallsOK
    BY IdleType DEF Init, CallsOK, ElementSteps
<1> QED
    BY <1>1, ConstantsOK DEF Init, TypeOK

LEMMA TypeStep ==
    ASSUME TypeOK, [Next]_vars
    PROVE  TypeOK'
<1> "success" \in Results /\ "error" \in Results
    BY DEF Results
<1>1. ASSUME NEW t \in Thread, CreateDirectory(t) PROVE TypeOK'
    <2>1. call[t].pc \in ElementSteps /\ "check" \in ElementSteps
        BY <1>1 DEF CreateDirectory, At, ElementSteps
    <2>2. CallsOK'
        BY <1>1, <2>1, ItemReturnsType, GotoType DEF CreateDirectory
    <2> QED
        BY <1>1, <2>2 DEF CreateDirectory, TypeOK
<1>2. ASSUME NEW t \in Thread, CheckExists(t) PROVE TypeOK'
    <2>1. call[t].pc \in ElementSteps /\ "remove" \in ElementSteps /\ "write" \in ElementSteps
        BY <1>2 DEF CheckExists, At, ElementSteps
    <2>2. CallsOK'
        BY <1>2, <2>1, GotoType DEF CheckExists
    <2> QED
        BY <1>2, <2>2 DEF CheckExists, TypeOK, Quiet
<1>3. ASSUME NEW t \in Thread, RemoveOld(t) PROVE TypeOK'
    <2>1. call[t].pc \in ElementSteps /\ "write" \in ElementSteps
        BY <1>3 DEF RemoveOld, At, ElementSteps
    <2>2. CallsOK'
        BY <1>3, <2>1, ItemReturnsType, GotoType DEF RemoveOld
    <2> QED
        BY <1>3, <2>1, <2>2, ItemType, WatchType DEF RemoveOld, TypeOK, Put, Quiet
<1>4. ASSUME NEW t \in Thread, CreateFile(t) PROVE TypeOK'
    BY <1>4, CreateFileType
<1>5. ASSUME NEW t \in Thread, FindFile(t) PROVE TypeOK'
    <2>1. call[t].pc \in ElementSteps /\ "unlink" \in ElementSteps
        BY <1>5 DEF FindFile, At, ElementSteps
    <2>2. CallsOK'
        BY <1>5, <2>1, ItemReturnsType, GotoType DEF FindFile
    <2> QED
        BY <1>5, <2>2 DEF FindFile, TypeOK, Quiet
<1>6. ASSUME NEW t \in Thread, RemoveFile(t) PROVE TypeOK'
    <2>1. call[t].pc \in ElementSteps
        BY <1>6 DEF RemoveFile, At, ElementSteps
    <2>2. CallsOK'
        BY <1>6, <2>1, ItemReturnsType DEF RemoveFile
    <2> QED
        BY <1>6, <2>1, <2>2, ItemType, WatchType DEF RemoveFile, TypeOK, Put, Quiet, Forget
<1>7. ASSUME NEW t \in Thread, ListDirectory(t) PROVE TypeOK'
    <2>1. CASE Returns(t, "error")
        BY <1>7, <2>1, ReturnsType DEF ListDirectory, TypeOK, Quiet
    <2>2. CASE call' = [call EXCEPT ![t].names = Present,
                        ![t].pc = IF call[t].op = "getAll" THEN "read" ELSE "sweep"]
        <3> DEFINE c == [call[t] EXCEPT !.names = Present,
                         !.pc = IF call[t].op = "getAll" THEN "read" ELSE "sweep"]
        <3>1. c \in Call /\ c.pc \notin ElementSteps
            BY DEF TypeOK, CallsOK, Call, Present, Steps, ListSteps, ElementSteps
        <3>2. call' = [call EXCEPT ![t] = c]
            BY <2>2 DEF TypeOK, CallsOK
        <3> HIDE DEF c
        <3> QED
            BY <1>7, <3>1, <3>2, OneCall DEF ListDirectory, TypeOK, Quiet
    <2> QED
        BY <1>7, <2>1, <2>2 DEF ListDirectory
<1>8. ASSUME NEW t \in Thread, Sweep(t) PROVE TypeOK'
    BY <1>8, SweepOneType, ReturnsType DEF Sweep, TypeOK, Quiet
<1>9. ASSUME NEW t \in Thread, Read(t) PROVE TypeOK'
    BY <1>9, ReadOneType, ReturnsType DEF Read, TypeOK, Quiet
<1>10. CASE Restart
    <2>1. CallsOK'
        BY <1>10, IdleType DEF Restart, CallsOK, ElementSteps
    <2> QED
        BY <1>10, <2>1 DEF Restart, TypeOK, Lose
<1>11. CASE UNCHANGED vars
    BY <1>11 DEF vars, TypeOK, CallsOK
<1> QED
    BY <1>1, <1>2, <1>3, <1>4, <1>5, <1>6, <1>7, <1>8, <1>9, <1>10, <1>11, CallsBegin
    DEF Next, Step

\* The variables keep their types and no operation runs past the end of its array,
\* whatever runs concurrently, fails or is killed.
THEOREM TypeCorrect == Spec => []TypeOK
<1> QED
    BY TypeInit, TypeStep, PTL DEF Spec

-----------------------------------------------------------------------------
(***************************************************************************)
(* Nothing is lost, whatever the launches find hashValue to be: it may     *)
(* differ from launch to launch, and be one for several ids.               *)
(***************************************************************************)

\* Every object lies in a file that its id was hashed to, in this launch or another.
Placed == \A n \in Name : file[n] \in Model => \E h \in Hashes : h[file[n].id] = n

\* What is owed lies where it was written, or is about to be written there, or another
\* id has been given the file.
Kept == \A o \in owed : file[o.name] = o.model \/ Writing(o.name) \/ Shared(o)

\* No file holds what was deleted or overwritten, but for ids that launches hash apart.
Current ==
    \A n \in Name : file[n] \in Model =>
        \/ [name |-> n, model |-> file[n]] \in owed
        \/ \E h, g \in Hashes : h[file[n].id] # g[file[n].id]

FilesInv == Placed /\ Kept /\ Current

Others(t) == \A u \in Thread : u # t => call'[u] = call[u]

LEMMA StepOthers ==
    ASSUME TypeOK, NEW t \in Thread,
           \/ Create(t) \/ CreateMany(t) \/ Update(t)
           \/ Delete(t) \/ DeleteMany(t) \/ DeleteAll(t) \/ GetAll(t)
           \/ Step(t)
    PROVE  Others(t)
<1> USE DEF TypeOK, CallsOK, Others
<1>1. CASE \/ Create(t) \/ CreateMany(t) \/ Update(t)
           \/ Delete(t) \/ DeleteMany(t) \/ DeleteAll(t) \/ GetAll(t)
    BY <1>1 DEF Create, CreateMany, Update, Delete, DeleteMany, DeleteAll, GetAll, Begin
<1>2. CASE \/ CreateDirectory(t) \/ CheckExists(t) \/ RemoveOld(t) \/ CreateFile(t)
           \/ FindFile(t) \/ RemoveFile(t)
    BY <1>2 DEF CreateDirectory, CheckExists, RemoveOld, CreateFile, FindFile, RemoveFile,
                ItemReturns, Goto
<1>3. CASE ListDirectory(t) \/ Sweep(t) \/ Read(t)
    BY <1>3 DEF ListDirectory, Sweep, SweepOne, Read, ReadOne, Returns
<1> QED
    BY <1>1, <1>2, <1>3 DEF Step

\* A call of another thread stays in the window between removal and writing.
LEMMA WritingStays ==
    ASSUME NEW t \in Thread, Others(t), hash' = hash, NEW n, Writing(n),
           ~At(t, "write") \/ ItemName(t) # n
    PROVE  Writing(n)'
<1>1. PICK u \in Thread : At(u, "write") /\ ItemName(u) = n
    BY DEF Writing
<1>2. u # t /\ call'[u] = call[u]
    BY <1>1 DEF Others
<1>3. At(u, "write")' /\ ItemName(u)' = ItemName(u)
    BY <1>1, <1>2 DEF At, Item, ItemName
<1> QED
    BY <1>1, <1>3 DEF Writing

LEMMA OwedType ==
    ASSUME TypeOK, NEW o \in owed
    PROVE  /\ o.name \in Name /\ o.model \in Model /\ o.model.id \in Id
           /\ o = [name |-> o.name, model |-> o.model]
BY DEF TypeOK, Model

\* Steps that touch neither the files nor what is owed, and are not createFile.
LEMMA KeptQuiet ==
    ASSUME FilesInv, NEW t \in Thread, Others(t), ~At(t, "write"),
           UNCHANGED <<file, hash, owed>>
    PROVE  FilesInv'
<1>1. Placed' /\ Current'
    BY DEF FilesInv, Placed, Current
<1>2. Kept'
    BY WritingStays DEF FilesInv, Kept, Shared
<1> QED
    BY <1>1, <1>2 DEF FilesInv

\* Removing a file, of which nothing is owed any more.
LEMMA KeptRemoved ==
    ASSUME TypeOK, FilesInv, NEW t \in Thread, Others(t), ~At(t, "write"),
           NEW n \in Name, Put(n, NoFile), hash' = hash, Forget({n})
    PROVE  FilesInv'
<1>1. \A k \in Name : file'[k] = IF k = n THEN NoFile ELSE file[k]
    BY DEF Put, TypeOK
<1>2. Placed'
    BY <1>1, ConstantsOK DEF FilesInv, Placed
<1>3. \A o \in owed : o.name # n <=> o \in owed'
    BY DEF Forget
<1>4. Current'
    BY <1>1, <1>3, ConstantsOK DEF FilesInv, Current
<1>5. ASSUME NEW o \in owed' PROVE file'[o.name] = o.model \/ Writing(o.name)' \/ Shared(o)
    <2>1. o \in owed /\ o.name # n
        BY DEF Forget
    <2>2. o.name \in Name
        BY <2>1, OwedType
    <2>3. file'[o.name] = file[o.name]
        BY <1>1, <2>1, <2>2
    <2> QED
        BY <2>1, <2>3, WritingStays DEF FilesInv, Kept
<1>6. Kept'
    BY <1>5 DEF Kept, Shared
<1> QED
    BY <1>2, <1>4, <1>6 DEF FilesInv

LEMMA KeptRemoveOld ==
    ASSUME TypeOK, FilesInv, NEW t \in Thread, Others(t), RemoveOld(t)
    PROVE  FilesInv'
<1>1. ~At(t, "write") /\ call[t].pc \in ElementSteps
    BY DEF RemoveOld, At, ElementSteps
<1>2. ItemName(t) \in Name
    BY <1>1, ItemType
<1>3. CASE Quiet
    BY <1>1, <1>3, KeptQuiet DEF Quiet
<1>4. CASE Put(ItemName(t), NoFile) /\ Goto(t, "write") /\ UNCHANGED <<dir, hash, owed>>
    <2>1. \A k \in Name : file'[k] = IF k = ItemName(t) THEN NoFile ELSE file[k]
        BY <1>4 DEF Put, TypeOK
    <2>2. Placed' /\ Current'
        BY <1>4, <2>1, ConstantsOK DEF FilesInv, Placed, Current
    <2>3. At(t, "write")' /\ ItemName(t)' = ItemName(t)
        BY <1>4 DEF Goto, At, Item, ItemName, TypeOK, CallsOK, Call
    <2>4. \A n : n = ItemName(t) => Writing(n)'
        BY <2>3 DEF Writing
    <2>5. ASSUME NEW o \in owed'
          PROVE  file'[o.name] = o.model \/ Writing(o.name)' \/ Shared(o)
        <3>1. o \in owed /\ o.name \in Name /\ hash' = hash
            BY <1>4, OwedType
        <3>2. CASE o.name = ItemName(t)
            BY <2>4, <3>2
        <3>3. CASE o.name # ItemName(t)
            <4>1. file'[o.name] = file[o.name]
                BY <2>1, <3>1, <3>3
            <4> QED
                BY <1>1, <3>1, <4>1, WritingStays DEF FilesInv, Kept
        <3> QED
            BY <3>2, <3>3
    <2>6. Kept'
        BY <2>5 DEF Kept, Shared
    <2> QED
        BY <2>2, <2>6 DEF FilesInv
<1> QED
    BY <1>3, <1>4 DEF RemoveOld

LEMMA KeptCreateFile ==
    ASSUME TypeOK, FilesInv, NEW t \in Thread, Others(t), CreateFile(t)
    PROVE  FilesInv'
<1> DEFINE m == Item(t)
           n == ItemName(t)
           new == [name |-> n, model |-> m]
<1>1. m \in Model /\ m.id \in Id /\ n \in Name /\ n = hash[m.id]
    BY ItemType DEF CreateFile, At, ElementSteps, ItemName, Model
<1>2. hash' = hash /\ hash \in Hashes
    BY DEF CreateFile, TypeOK
<1>3. CASE Put(n, m) /\ Owe(t)
    <2>1. \A k \in Name : file'[k] = IF k = n THEN m ELSE file[k]
        BY <1>3 DEF Put, TypeOK
    <2>2. owed' = {o \in owed : o.model.id # m.id} \cup {new}
        BY <1>3 DEF Owe
    <2> HIDE DEF m, n
    <2>3. Placed'
        BY <1>1, <1>2, <2>1 DEF FilesInv, Placed
    <2>4. ASSUME NEW k \in Name, file'[k] \in Model
          PROVE  \/ [name |-> k, model |-> file'[k]] \in owed'
                 \/ \E h, g \in Hashes : h[file'[k].id] # g[file'[k].id]
        <3>1. CASE k = n
            BY <2>1, <2>2, <3>1
        <3>2. CASE k # n /\ file[k].id # m.id
            <4>1. file'[k] = file[k]
                BY <2>1, <3>2
            <4>2. [name |-> k, model |-> file[k]] \in owed => [name |-> k, model |-> file[k]] \in owed'
                BY <2>2, <3>2
            <4> QED
                BY <2>4, <4>1, <4>2 DEF FilesInv, Current
        \* An older version, that another launch has written under another name.
        <3>3. CASE k # n /\ file[k].id = m.id
            <4>1. file'[k] = file[k] /\ \E h \in Hashes : h[m.id] = k
                BY <2>1, <2>4, <3>3 DEF FilesInv, Placed
            <4> QED
                BY <1>1, <1>2, <3>3, <4>1
        <3> QED
            BY <3>1, <3>2, <3>3
    <2>5. Current'
        BY <2>4 DEF Current
    <2>6. ASSUME NEW o \in owed'
          PROVE  file'[o.name] = o.model \/ Writing(o.name)' \/ Shared(o)
        <3>1. CASE o = new
            BY <1>1, <2>1, <3>1
        <3>2. CASE o \in owed /\ o.model.id # m.id /\ o.name = n
            BY <1>1, <1>2, <3>2 DEF Shared
        <3>3. CASE o \in owed /\ o.name # n
            <4>1. file'[o.name] = file[o.name]
                BY <2>1, <3>3, OwedType
            <4>2. Writing(o.name) => Writing(o.name)'
                BY <1>2, <3>3, WritingStays DEF n
            <4> QED
                BY <3>3, <4>1, <4>2 DEF FilesInv, Kept
        <3> QED
            BY <2>2, <3>1, <3>2, <3>3
    <2>7. Kept'
        BY <2>6 DEF Kept, Shared
    <2> QED
        BY <2>3, <2>5, <2>7 DEF FilesInv
<1>4. CASE Lose({n}) /\ UNCHANGED file
    <2>1. \A o \in owed' : o \in owed /\ (o.name # n \/ file[o.name] = o.model)
        BY <1>4 DEF Lose
    <2>2. Placed'
        BY <1>4 DEF FilesInv, Placed
    <2>3. \A k \in Name : [name |-> k, model |-> file[k]] \in owed => [name |-> k, model |-> file[k]] \in owed'
        BY <1>4 DEF Lose
    <2>4. Current'
        BY <1>4, <2>3 DEF FilesInv, Current
    <2>5. \A o \in owed' : file'[o.name] = o.model \/ Writing(o.name)' \/ Shared(o)
        BY <1>2, <1>4, <2>1, WritingStays DEF FilesInv, Kept
    <2>6. Kept'
        BY <2>5 DEF Kept, Shared
    <2> QED
        BY <2>2, <2>4, <2>6 DEF FilesInv
<1> QED
    BY <1>3, <1>4 DEF CreateFile

LEMMA KeptRemoveFile ==
    ASSUME TypeOK, FilesInv, NEW t \in Thread, Others(t), RemoveFile(t)
    PROVE  FilesInv'
<1>1. ~At(t, "write") /\ call[t].pc \in ElementSteps
    BY DEF RemoveFile, At, ElementSteps
<1>2. ItemName(t) \in Name
    BY <1>1, ItemType
<1>3. CASE Quiet
    BY <1>1, <1>3, KeptQuiet DEF Quiet
<1>4. CASE Put(ItemName(t), NoFile) /\ Forget({ItemName(t)}) /\ UNCHANGED <<dir, hash>>
    BY <1>1, <1>2, <1>4, KeptRemoved
<1> QED
    BY <1>3, <1>4 DEF RemoveFile

LEMMA KeptSweep ==
    ASSUME TypeOK, FilesInv, NEW t \in Thread, Others(t), Sweep(t)
    PROVE  FilesInv'
<1>1. ~At(t, "write")
    BY DEF Sweep, At
<1>2. CASE Quiet
    BY <1>1, <1>2, KeptQuiet DEF Quiet
<1>3. ASSUME NEW n \in Name, Put(n, NoFile), Forget({n}), UNCHANGED <<dir, hash>>
      PROVE  FilesInv'
    BY <1>1, <1>3, KeptRemoved
<1> QED
    BY <1>2, <1>3 DEF Sweep, SweepOne

\* A launch finds the files of the one before, but for what a create had removed.
LEMMA KeptRestart ==
    ASSUME TypeOK, FilesInv, Restart
    PROVE  FilesInv'
<1> DEFINE lost == {ItemName(t) : t \in {u \in Thread : At(u, "write")}}
<1>1. file' = file /\ owed' = {o \in owed : o.name \notin lost \/ file[o.name] = o.model}
    BY DEF Restart, Lose
<1>2. \A o \in owed : o.name \notin lost => ~Writing(o.name)
    BY DEF Writing
<1> HIDE DEF lost
<1>3. \A o \in owed' : file[o.name] = o.model \/ Shared(o)
    BY <1>1, <1>2 DEF FilesInv, Kept
<1>4. Kept'
    BY <1>1, <1>3 DEF Kept, Shared
<1>5. \A k \in Name : [name |-> k, model |-> file[k]] \in owed => [name |-> k, model |-> file[k]] \in owed'
    BY <1>1
<1>6. Placed' /\ Current'
    BY <1>1, <1>5 DEF FilesInv, Placed, Current
<1> QED
    BY <1>4, <1>6 DEF FilesInv

LEMMA KeptStep ==
    ASSUME TypeOK, FilesInv, [Next]_vars
    PROVE  FilesInv'
<1>1. ASSUME NEW t \in Thread,
             \/ Create(t) \/ CreateMany(t) \/ Update(t)
             \/ Delete(t) \/ DeleteMany(t) \/ DeleteAll(t) \/ GetAll(t)
      PROVE  FilesInv'
    <2>1. ~At(t, "write") /\ UNCHANGED <<file, hash, owed>>
        BY <1>1 DEF Create, CreateMany, Update, Delete, DeleteMany, DeleteAll, GetAll, Begin, At
    <2> QED
        BY <1>1, <2>1, StepOthers, KeptQuiet
<1>2. ASSUME NEW t \in Thread,
             \/ CreateDirectory(t) \/ CheckExists(t) \/ FindFile(t)
             \/ ListDirectory(t) \/ Read(t)
      PROVE  FilesInv'
    <2>1. ~At(t, "write") /\ UNCHANGED <<file, hash, owed>>
        BY <1>2 DEF CreateDirectory, CheckExists, FindFile, ListDirectory, Read, ReadOne, Quiet, At
    <2> QED
        BY <1>2, <2>1, StepOthers, KeptQuiet DEF Step
<1>3. ASSUME NEW t \in Thread,
             RemoveOld(t) \/ CreateFile(t) \/ RemoveFile(t) \/ Sweep(t)
      PROVE  FilesInv'
    BY <1>3, StepOthers, KeptRemoveOld, KeptCreateFile, KeptRemoveFile, KeptSweep DEF Step
<1>4. CASE Restart
    BY <1>4, KeptRestart
<1>5. CASE UNCHANGED vars
    <2>1. \A n : Writing(n)' = Writing(n)
        BY <1>5 DEF vars, Writing, At, Item, ItemName
    <2> QED
        BY <1>5, <2>1 DEF vars, FilesInv, Placed, Kept, Current, Shared
<1> QED
    BY <1>1, <1>2, <1>3, <1>4, <1>5 DEF Next, Step

LEMMA KeptInit == Init => FilesInv
BY ConstantsOK DEF Init, FilesInv, Placed, Kept, Current

LEMMA KeptAlways == Spec => [](TypeOK /\ FilesInv)
<1>1. TypeOK /\ FilesInv /\ [Next]_vars => (TypeOK /\ FilesInv)'
    BY TypeStep, KeptStep
<1> QED
    BY <1>1, TypeInit, KeptInit, PTL DEF Spec

\* Whatever creates, updates, deletes, failures and restarts are interleaved, and however
\* the launches hash ids, an object is lost only in the window between a create's
\* removeItem and its createFile, or to an id with the same hash value.
THEOREM NothingLost == Spec => []NoLoss
<1>1. TypeOK /\ FilesInv => NoLoss
    BY OwedType DEF FilesInv, Kept, NoLoss
<1> QED
    BY <1>1, KeptAlways, PTL

\* However the launches hash ids, getElement(withId:) returns an object of another id,
\* misses what is stored and returns what is stale only where hash values meet or part.
THEOREM LookupByIdWorks == Spec => []LookupById
<1>1. ASSUME TypeOK, FilesInv, NEW i \in Id
      PROVE  /\ \A m \in GetElement(i) : m.id # i => \E h \in Hashes : h[m.id] = hash[i]
             /\ \A o \in owed : o.model.id = i /\ o.name = hash[i] =>
                   GetElement(i) = {o.model} \/ Writing(o.name) \/ Shared(o)
             /\ \A m \in GetElement(i) : m.id = i =>
                   [name |-> hash[i], model |-> m] \in owed \/ \E h \in Hashes : h[i] # hash[i]
    <2>1. hash \in Hashes /\ hash[i] \in Name
        BY <1>1, ConstantsOK DEF TypeOK
    <2>2. ASSUME NEW m \in GetElement(i)
          PROVE  m \in Model /\ file[hash[i]] = m
        BY DEF GetElement
    <2>3. ASSUME NEW m \in GetElement(i) PROVE \E h \in Hashes : h[m.id] = hash[i]
        BY <1>1, <2>1, <2>2 DEF FilesInv, Placed
    <2>4. ASSUME NEW o \in owed, o.name = hash[i]
          PROVE  GetElement(i) = {o.model} \/ Writing(o.name) \/ Shared(o)
        BY <1>1, <2>4, OwedType DEF FilesInv, Kept, GetElement
    <2>5. ASSUME NEW m \in GetElement(i), m.id = i
          PROVE  [name |-> hash[i], model |-> m] \in owed \/ \E h \in Hashes : h[i] # hash[i]
        <3>1. \/ [name |-> hash[i], model |-> m] \in owed
              \/ \E h, g \in Hashes : h[i] # g[i]
            BY <1>1, <2>1, <2>2, <2>5 DEF FilesInv, Current
        <3> QED
            BY <2>1, <3>1
    <2> QED
        BY <2>3, <2>4, <2>5
<1>2. TypeOK /\ FilesInv => LookupById
    BY <1>1 DEF LookupById
<1> QED
    BY <1>2, KeptAlways, PTL

-----------------------------------------------------------------------------
(***************************************************************************)
(* What deletes, deleteAll and getAll promise about the names that hold a  *)
(* file for the whole of a call.                                           *)
(***************************************************************************)

\* Which steps belong to which operations.
Shape(t) ==
    /\ call[t].pc \in {"mkdir", "check", "remove", "write"} => call[t].op \in {"create", "createMany"}
    /\ call[t].pc \in {"find", "unlink"} => call[t].op = "delete"
    /\ call[t].pc = "list" => call[t].op \in {"deleteAll", "getAll"}
    /\ call[t].pc = "sweep" => call[t].op = "deleteAll"
    /\ call[t].pc = "read" => call[t].op = "getAll"
    /\ call[t].pc \in ListSteps => call[t].rs = <<>>

\* The directory exists when it holds a file or a create is past making it.
DirectoryMade ==
    /\ Present # {} => dir
    /\ \A t \in Thread : call[t].pc \in {"check", "remove", "write"} => dir

NoGarbage == Legacy = {} => \A n \in Name : file[n] # Garbage

SteadyPresent == \A t \in Thread : steady[t] \subseteq Present

\* What the three properties say of one thread, in the middle of its call as well.
Effect(t) ==
    /\ call[t].op = "delete" =>
         \A k \in 1 .. Len(call[t].rs) :
            call[t].rs[k] = "success" \/ t \notin Failing => hash[call[t].arg[k].id] \notin steady[t]
    /\ call[t].op = "deleteAll" /\ call[t].rs = <<"success">> => steady[t] = {}
    /\ At(t, "sweep") => steady[t] \subseteq call[t].names
    /\ At(t, "read") /\ t \notin Failing =>
         \A n \in steady[t] : n \in call[t].names \/ \E g \in call[t].got : g.name = n
    /\ (call[t].op = "getAll" /\ At(t, "done") /\ t \notin Failing
        /\ (call[t].rs = <<"success">> \/ Legacy = {}))
       => \A n \in steady[t] : \E g \in call[t].got : g.name = n

EffectInv ==
    /\ TypeOK
    /\ \A t \in Thread : Shape(t)
    /\ DirectoryMade
    /\ NoGarbage
    /\ SteadyPresent
    /\ \A t \in Thread : Effect(t)

LEMMA ItemReturnsFields ==
    ASSUME TypeOK, NEW t \in Thread, NEW r, ItemReturns(t, r)
    PROVE  /\ call'[t].op = call[t].op
           /\ call'[t].arg = call[t].arg
           /\ call'[t].rs = Append(call[t].rs, r)
           /\ call'[t].pc = "done" \/ call'[t].pc = IF call[t].op = "delete" THEN "find" ELSE "mkdir"
BY DEF ItemReturns, TypeOK, CallsOK, Call

LEMMA GotoFields ==
    ASSUME TypeOK, NEW t \in Thread, NEW pc, Goto(t, pc)
    PROVE  /\ call'[t].op = call[t].op
           /\ call'[t].arg = call[t].arg
           /\ call'[t].rs = call[t].rs
           /\ call'[t].pc = pc
BY DEF Goto, TypeOK, CallsOK, Call

LEMMA ReturnsFields ==
    ASSUME TypeOK, NEW t \in Thread, NEW r, Returns(t, r)
    PROVE  /\ call'[t].op = call[t].op
           /\ call'[t].got = call[t].got
           /\ call'[t].rs = <<r>>
           /\ call'[t].pc = "done"
BY DEF Returns, TypeOK, CallsOK, Call

LEMMA BeginFields ==
    ASSUME TypeOK, NEW t \in Thread, NEW op, NEW pc, NEW arg, Begin(t, op, pc, arg)
    PROVE  call'[t].op = op /\ call'[t].rs = <<>> /\ call'[t].pc = pc
BY DEF Begin, NewCall, TypeOK, CallsOK, Call

LEMMA ListFields ==
    ASSUME TypeOK, NEW t \in Thread,
           call' = [call EXCEPT ![t].names = Present,
                                ![t].pc = IF call[t].op = "getAll" THEN "read" ELSE "sweep"]
    PROVE  /\ call'[t].op = call[t].op
           /\ call'[t].rs = call[t].rs
           /\ call'[t].names = Present
           /\ call'[t].pc = IF call[t].op = "getAll" THEN "read" ELSE "sweep"
<1>1. call[t] \in Call
    BY DEF TypeOK, CallsOK
<1>2. call'[t] = [call[t] EXCEPT !.names = Present,
                                 !.pc = IF call[t].op = "getAll" THEN "read" ELSE "sweep"]
    BY DEF TypeOK, CallsOK
<1> QED
    BY <1>1, <1>2 DEF Call

LEMMA NamesFields ==
    ASSUME TypeOK, NEW t \in Thread, NEW n, call' = [call EXCEPT ![t].names = @ \ {n}]
    PROVE  /\ call'[t].op = call[t].op
           /\ call'[t].rs = call[t].rs
           /\ call'[t].pc = call[t].pc
           /\ call'[t].got = call[t].got
           /\ call'[t].names = call[t].names \ {n}
BY DEF TypeOK, CallsOK, Call

LEMMA GotFields ==
    ASSUME TypeOK, NEW t \in Thread, NEW n, NEW g,
           call' = [call EXCEPT ![t].names = @ \ {n}, ![t].got = @ \cup {g}]
    PROVE  /\ call'[t].op = call[t].op
           /\ call'[t].rs = call[t].rs
           /\ call'[t].pc = call[t].pc
           /\ call'[t].got = call[t].got \cup {g}
           /\ call'[t].names = call[t].names \ {n}
<1>1. call[t] \in Call
    BY DEF TypeOK, CallsOK
<1>2. call'[t] = [call[t] EXCEPT !.names = @ \ {n}, !.got = @ \cup {g}]
    BY DEF TypeOK, CallsOK
<1> QED
    BY <1>1, <1>2 DEF Call

LEMMA NothingGotFields ==
    ASSUME TypeOK, NEW t \in Thread, NEW rs,
           call' = [call EXCEPT ![t].got = {}, ![t].rs = rs, ![t].pc = "done"]
    PROVE  call'[t].op = call[t].op /\ call'[t].rs = rs /\ call'[t].pc = "done"
<1>1. call[t] \in Call
    BY DEF TypeOK, CallsOK
<1>2. call'[t] = [call[t] EXCEPT !.got = {}, !.rs = rs, !.pc = "done"]
    BY DEF TypeOK, CallsOK
<1> QED
    BY <1>1, <1>2 DEF Call

\* The calls of other threads do not notice a step, except that names stop being steady.
LEMMA EffectOther ==
    ASSUME NEW t \in Thread, Shape(t), Effect(t),
           call'[t] = call[t], hash' = hash, steady'[t] \subseteq steady[t]
    PROVE  Shape(t)' /\ Effect(t)'
<1>1. Shape(t)'
    BY DEF Shape
<1>2. Effect(t)'
    BY DEF Effect, At
<1> QED
    BY <1>1, <1>2

\* A step that leaves the steady names of a thread alone, or watches them.
LEMMA SteadyStep ==
    ASSUME TypeOK, SteadyPresent, (steady' = steady /\ file' = file) \/ Watch
    PROVE  SteadyPresent' /\ \A t \in Thread : steady'[t] \subseteq steady[t]
<1>1. CASE steady' = steady /\ file' = file
    BY <1>1 DEF SteadyPresent, Present
<1>2. CASE Watch
    <2>1. \A t \in Thread : steady'[t] = {n \in steady[t] : file'[n] # NoFile}
        BY <1>2 DEF Watch
    <2>2. \A t \in Thread : steady[t] \subseteq Name
        BY DEF TypeOK
    <2> QED
        BY <2>1, <2>2 DEF SteadyPresent, Present
<1> QED
    BY <1>1, <1>2

\* The parts of EffectInv that are not about one thread.
LEMMA GlobalStep ==
    ASSUME EffectInv, [Next]_vars
    PROVE  DirectoryMade' /\ NoGarbage' /\ SteadyPresent'
<1> USE DEF EffectInv
<1>1. ASSUME NEW t \in Thread,
             \/ Create(t) \/ CreateMany(t) \/ Update(t)
             \/ Delete(t) \/ DeleteMany(t) \/ DeleteAll(t) \/ GetAll(t)
      PROVE  DirectoryMade' /\ NoGarbage' /\ SteadyPresent'
    <2>1. PICK op, pc, arg : Begin(t, op, pc, arg) /\ pc \in {"mkdir", "find", "list"}
        BY <1>1 DEF Create, CreateMany, Update, Delete, DeleteMany, DeleteAll, GetAll
    <2>2. call'[t].pc \in {"mkdir", "find", "list"}
        BY <2>1, BeginFields
    <2>3. \A u \in Thread : u # t => call'[u] = call[u]
        BY <1>1, StepOthers DEF Others
    <2>4. UNCHANGED <<dir, file>> /\ steady' = [steady EXCEPT ![t] = Present]
        BY <2>1 DEF Begin
    <2>5. SteadyPresent'
        BY <2>4 DEF SteadyPresent, TypeOK, Present
    <2>6. DirectoryMade' /\ NoGarbage'
        BY <2>2, <2>3, <2>4 DEF DirectoryMade, NoGarbage, Present
    <2> QED
        BY <2>5, <2>6
<1>2. ASSUME NEW t \in Thread, CreateDirectory(t)
      PROVE  DirectoryMade' /\ NoGarbage' /\ SteadyPresent'
    <2>1. \A u \in Thread : u # t => call'[u] = call[u]
        BY <1>2, StepOthers DEF Others, Step
    <2>2. UNCHANGED <<file, steady>> /\ (dir => dir')
        BY <1>2 DEF CreateDirectory
    <2>3. dir' \/ call'[t].pc \notin {"check", "remove", "write"}
        BY <1>2, ItemReturnsFields DEF CreateDirectory
    <2> QED
        BY <2>1, <2>2, <2>3 DEF DirectoryMade, NoGarbage, SteadyPresent, Present
<1>3. ASSUME NEW t \in Thread, CheckExists(t) \/ RemoveOld(t) \/ CreateFile(t)
      PROVE  DirectoryMade' /\ NoGarbage' /\ SteadyPresent'
    <2>1. dir' = dir /\ dir
        BY <1>3 DEF CheckExists, RemoveOld, CreateFile, At, DirectoryMade, Quiet
    <2>2. call[t].pc \in ElementSteps
        BY <1>3 DEF CheckExists, RemoveOld, CreateFile, At, ElementSteps
    <2>3. ItemName(t) \in Name /\ Item(t) \in Model
        BY <2>2, ItemType
    <2>4. DirectoryMade'
        BY <2>1 DEF DirectoryMade
    <2>5. NoGarbage'
        BY <1>3, <2>3, ConstantsOK
        DEF NoGarbage, CheckExists, RemoveOld, CreateFile, Quiet, Put, TypeOK
    <2>6. SteadyPresent'
        <3>1. CASE CheckExists(t) \/ RemoveOld(t)
            BY <3>1, SteadyStep DEF CheckExists, RemoveOld, Quiet
        <3>2. CASE CreateFile(t)
            BY <2>3, <3>2, ConstantsOK
            DEF CreateFile, SteadyPresent, Present, Put, TypeOK
        <3> QED
            BY <1>3, <3>1, <3>2
    <2> QED
        BY <2>4, <2>5, <2>6
<1>4. ASSUME NEW t \in Thread,
             FindFile(t) \/ RemoveFile(t) \/ ListDirectory(t) \/ Sweep(t) \/ Read(t)
      PROVE  DirectoryMade' /\ NoGarbage' /\ SteadyPresent'
    <2>1. \A u \in Thread : u # t => call'[u] = call[u]
        BY <1>4, StepOthers DEF Others, Step
    <2>2. (Quiet \/ (dir' = dir /\ Watch /\ \E n \in Name : Put(n, NoFile)))
        <3>1. CASE RemoveFile(t)
            <4>1. call[t].pc \in ElementSteps
                BY <3>1 DEF RemoveFile, At, ElementSteps
            <4> QED
                BY <3>1, <4>1, ItemType DEF RemoveFile
        <3>2. CASE FindFile(t) \/ ListDirectory(t) \/ Sweep(t) \/ Read(t)
            BY <3>2 DEF FindFile, ListDirectory, Sweep, SweepOne, Read, ReadOne
        <3> QED
            BY <1>4, <3>1, <3>2
    <2>3. call'[t].pc \notin {"check", "remove", "write"}
        <3>1. CASE FindFile(t) \/ RemoveFile(t)
            <4>1. call[t].op = "delete"
                BY <3>1 DEF FindFile, RemoveFile, At, Shape
            <4> QED
                BY <3>1, <4>1, ItemReturnsFields, GotoFields DEF FindFile, RemoveFile
        <3>2. CASE ListDirectory(t)
            BY <3>2, ReturnsFields, ListFields DEF ListDirectory
        <3>3. CASE Sweep(t)
            BY <3>3, ReturnsFields, NamesFields DEF Sweep, SweepOne, At
        <3>4. CASE Read(t)
            <4>1. ASSUME NEW n \in Name,
                         \/ call' = [call EXCEPT ![t].names = @ \ {n}]
                         \/ \E g : call' = [call EXCEPT ![t].names = @ \ {n}, ![t].got = @ \cup {g}]
                  PROVE  call'[t].pc = call[t].pc
                BY <4>1, NamesFields, GotFields
            <4>2. ASSUME NEW rs, call' = [call EXCEPT ![t].got = {}, ![t].rs = rs, ![t].pc = "done"]
                  PROVE  call'[t].pc = "done"
                BY <4>2, NothingGotFields
            <4>3. ASSUME NEW r, Returns(t, r)
                  PROVE  call'[t].pc = "done"
                BY <4>3, ReturnsFields
            <4> QED
                BY <3>4, <4>1, <4>2, <4>3 DEF Read, ReadOne, At
        <3> QED
            BY <1>4, <3>1, <3>2, <3>3, <3>4
    <2>4. SteadyPresent'
        BY <2>2, SteadyStep DEF Quiet
    <2>5. \A n \in Name : file'[n] = file[n] \/ file'[n] = NoFile
        BY <2>2 DEF Quiet, Put, TypeOK
    <2>6. dir' = dir /\ Present' \subseteq Present
        BY <2>2, <2>5 DEF Quiet, Present
    <2>7. DirectoryMade'
        BY <2>1, <2>3, <2>6 DEF DirectoryMade
    <2>8. NoGarbage'
        BY <2>5, ConstantsOK DEF NoGarbage
    <2> QED
        BY <2>4, <2>7, <2>8
<1>5. CASE Restart
    <2>1. \A t \in Thread : call'[t].pc = "done"
        BY <1>5, IdleType DEF Restart
    <2> QED
        BY <1>5, <2>1 DEF Restart, DirectoryMade, NoGarbage, SteadyPresent, Present
<1>6. CASE UNCHANGED vars
    BY <1>6 DEF vars, DirectoryMade, NoGarbage, SteadyPresent, Present
<1> QED
    BY <1>1, <1>2, <1>3, <1>4, <1>5, <1>6 DEF Next, Step

\* A new call has done nothing yet.
LEMMA EffectBegin ==
    ASSUME EffectInv, NEW t \in Thread,
           \/ Create(t) \/ CreateMany(t) \/ Update(t)
           \/ Delete(t) \/ DeleteMany(t) \/ DeleteAll(t) \/ GetAll(t)
    PROVE  Shape(t)' /\ Effect(t)'
<1>1. PICK op, pc, arg :
         /\ Begin(t, op, pc, arg)
         /\ \/ op \in {"create", "createMany"} /\ pc = "mkdir"
            \/ op = "delete" /\ pc = "find"
            \/ op \in {"deleteAll", "getAll"} /\ pc = "list"
    BY DEF Create, CreateMany, Update, Delete, DeleteMany, DeleteAll, GetAll
<1>2. call'[t].op = op /\ call'[t].pc = pc /\ call'[t].rs = <<>>
    BY <1>1, BeginFields DEF EffectInv
<1>3. Shape(t)'
    BY <1>1, <1>2 DEF Shape
<1>4. Effect(t)'
    BY <1>1, <1>2 DEF Effect, At
<1> QED
    BY <1>3, <1>4

\* The steps of a create: the properties do not speak of it.
LEMMA EffectCreate ==
    ASSUME EffectInv, NEW t \in Thread,
           CreateDirectory(t) \/ CheckExists(t) \/ RemoveOld(t) \/ CreateFile(t)
    PROVE  Shape(t)' /\ Effect(t)'
<1>1. call[t].op \in {"create", "createMany"}
    BY DEF EffectInv, Shape, CreateDirectory, CheckExists, RemoveOld, CreateFile, At
<1>2. call'[t].op = call[t].op /\ call'[t].pc \in {"mkdir", "check", "remove", "write", "done"}
    BY <1>1, ItemReturnsFields, GotoFields
    DEF EffectInv, CreateDirectory, CheckExists, RemoveOld, CreateFile
<1>3. Shape(t)'
    BY <1>1, <1>2 DEF Shape, ListSteps
<1>4. Effect(t)'
    BY <1>1, <1>2 DEF Effect, At
<1> QED
    BY <1>3, <1>4

\* An element of a delete is done with result r, and counts only if its name is not steady.
LEMMA EffectDeleteReturns ==
    ASSUME EffectInv, NEW t \in Thread, call[t].pc \in {"find", "unlink"},
           NEW r \in Results, ItemReturns(t, r), hash' = hash,
           steady'[t] \subseteq steady[t],
           r = "success" \/ t \notin Failing => ItemName(t) \notin steady'[t]
    PROVE  Shape(t)' /\ Effect(t)'
<1>1. call[t] \in Call /\ call[t].op = "delete"
    BY DEF EffectInv, TypeOK, CallsOK, Shape
<1>2. /\ call'[t].op = "delete" /\ call'[t].arg = call[t].arg
      /\ call'[t].rs = Append(call[t].rs, r)
      /\ call'[t].pc \in {"find", "done"}
    BY <1>1, ItemReturnsFields DEF EffectInv
<1>3. Shape(t)'
    BY <1>2 DEF Shape, ListSteps
<1>4. ASSUME NEW k \in 1 .. Len(call'[t].rs), call'[t].rs[k] = "success" \/ t \notin Failing
      PROVE  hash'[call'[t].arg[k].id] \notin steady'[t]
    <2>1. call[t].rs \in Seq(Results)
        BY <1>1 DEF Call
    <2>2. CASE k \in 1 .. Len(call[t].rs)
        <3>1. call'[t].rs[k] = call[t].rs[k]
            BY <1>2, <2>1, <2>2
        <3>2. hash[call[t].arg[k].id] \notin steady[t]
            BY <1>1, <1>4, <2>2, <3>1 DEF EffectInv, Effect
        <3> QED
            BY <1>2, <3>2
    <2>3. CASE k = Len(call[t].rs) + 1
        <3>1. call'[t].rs[k] = r
            BY <1>2, <2>1, <2>3
        <3>2. hash'[call'[t].arg[k].id] = ItemName(t)
            BY <1>2, <2>3 DEF ItemName, Item
        <3> QED
            BY <1>4, <3>1, <3>2
    <2> QED
        BY <1>2, <1>4, <2>1, <2>2, <2>3
<1>5. Effect(t)'
    BY <1>2, <1>4 DEF Effect, At
<1> QED
    BY <1>3, <1>5

LEMMA EffectDelete ==
    ASSUME EffectInv, NEW t \in Thread, FindFile(t) \/ RemoveFile(t)
    PROVE  Shape(t)' /\ Effect(t)'
<1>1. call[t].pc \in {"find", "unlink"} /\ call[t].op = "delete" /\ call[t].pc \in ElementSteps
    BY DEF FindFile, RemoveFile, At, ElementSteps, EffectInv, Shape
<1>2. ItemName(t) \in Name /\ "success" \in Results /\ "error" \in Results
    BY <1>1, ItemType DEF EffectInv, Results
<1>3. file[ItemName(t)] = NoFile => ItemName(t) \notin steady[t]
    BY <1>2 DEF EffectInv, SteadyPresent, Present
<1>4. CASE Goto(t, "unlink") /\ Quiet
    <2>1. /\ call'[t].op = "delete" /\ call'[t].arg = call[t].arg
          /\ call'[t].rs = call[t].rs /\ call'[t].pc = "unlink"
        BY <1>1, <1>4, GotoFields DEF EffectInv
    <2>2. hash' = hash /\ steady' = steady
        BY <1>4 DEF Quiet
    <2>3. Shape(t)'
        BY <2>1 DEF Shape, ListSteps
    <2>4. Effect(t)'
        BY <1>1, <2>1, <2>2 DEF EffectInv, Effect, At
    <2> QED
        BY <2>3, <2>4
<1>5. CASE FindFile(t) /\ ItemReturns(t, "success") /\ file[ItemName(t)] = NoFile
    <2>1. hash' = hash /\ steady' = steady
        BY <1>5 DEF FindFile, Quiet
    <2> QED
        BY <1>1, <1>2, <1>3, <1>5, <2>1, EffectDeleteReturns
<1>6. CASE /\ Put(ItemName(t), NoFile) /\ Watch /\ ItemReturns(t, "success")
           /\ UNCHANGED <<dir, hash>>
    <2>1. file'[ItemName(t)] = NoFile
        BY <1>2, <1>6 DEF Put, EffectInv, TypeOK
    <2>2. steady'[t] \subseteq steady[t] /\ ItemName(t) \notin steady'[t]
        BY <1>6, <2>1 DEF Watch
    <2> QED
        BY <1>1, <1>2, <1>6, <2>2, EffectDeleteReturns
<1>7. CASE (t \in Failing \/ file[ItemName(t)] = NoFile) /\ ItemReturns(t, "error") /\ Quiet
    <2>1. hash' = hash /\ steady' = steady
        BY <1>7 DEF Quiet
    <2>2. t \notin Failing => ItemName(t) \notin steady'[t]
        BY <1>3, <1>7, <2>1
    <2> QED
        BY <1>1, <1>2, <1>7, <2>1, <2>2, EffectDeleteReturns
<1> QED
    BY <1>4, <1>5, <1>6, <1>7 DEF FindFile, RemoveFile

LEMMA EffectList ==
    ASSUME EffectInv, NEW t \in Thread, ListDirectory(t)
    PROVE  Shape(t)' /\ Effect(t)'
<1>1. hash' = hash /\ steady' = steady /\ steady[t] \subseteq Present
    BY DEF ListDirectory, Quiet, EffectInv, SteadyPresent
<1>2. call[t].op \in {"deleteAll", "getAll"} /\ call[t].rs = <<>>
    BY DEF ListDirectory, At, EffectInv, Shape, ListSteps
<1>3. CASE (t \in Failing \/ ~dir) /\ Returns(t, "error")
    <2>1. call'[t].op = call[t].op /\ call'[t].rs = <<"error">> /\ call'[t].pc = "done"
        BY <1>3, ReturnsFields DEF EffectInv
    <2>2. t \notin Failing => steady'[t] = {}
        BY <1>1, <1>3 DEF EffectInv, DirectoryMade
    <2>3. call'[t].rs # <<"success">>
        BY <2>1
    <2>4. Shape(t)'
        BY <2>1 DEF Shape, ListSteps
    <2>5. Effect(t)'
        BY <1>2, <2>1, <2>2, <2>3 DEF Effect, At
    <2> QED
        BY <2>4, <2>5
<1>4. CASE call' = [call EXCEPT ![t].names = Present,
                        ![t].pc = IF call[t].op = "getAll" THEN "read" ELSE "sweep"]
    <2>1. /\ call'[t].op = call[t].op /\ call'[t].rs = <<>> /\ call'[t].names = Present
          /\ call'[t].pc = IF call[t].op = "getAll" THEN "read" ELSE "sweep"
        BY <1>2, <1>4, ListFields DEF EffectInv
    <2>2. Shape(t)'
        BY <1>2, <2>1 DEF Shape, ListSteps
    <2>3. Effect(t)'
        BY <1>1, <1>2, <2>1 DEF Effect, At
    <2> QED
        BY <2>2, <2>3
<1> QED
    BY <1>3, <1>4 DEF ListDirectory

LEMMA EffectSweep ==
    ASSUME EffectInv, NEW t \in Thread, Sweep(t)
    PROVE  Shape(t)' /\ Effect(t)'
<1>1. /\ call[t].op = "deleteAll" /\ call[t].pc = "sweep" /\ call[t].rs = <<>>
      /\ steady[t] \subseteq call[t].names
    BY DEF Sweep, At, EffectInv, Shape, Effect, ListSteps
<1>2. ASSUME NEW n \in Name, Put(n, NoFile), Watch, call' = [call EXCEPT ![t].names = @ \ {n}]
      PROVE  Shape(t)' /\ Effect(t)'
    <2>1. /\ call'[t].op = "deleteAll" /\ call'[t].pc = "sweep" /\ call'[t].rs = <<>>
          /\ call'[t].names = call[t].names \ {n}
        BY <1>1, <1>2, NamesFields DEF EffectInv
    <2>2. file'[n] = NoFile
        BY <1>2 DEF Put, EffectInv, TypeOK
    <2>3. steady'[t] \subseteq call'[t].names
        BY <1>1, <1>2, <2>1, <2>2 DEF Watch
    <2>4. Shape(t)'
        BY <2>1 DEF Shape, ListSteps
    <2>5. Effect(t)'
        BY <2>1, <2>3 DEF Effect, At
    <2> QED
        BY <2>4, <2>5
<1>3. ASSUME NEW r \in Results, Returns(t, r), Quiet, r = "success" => call[t].names = {}
      PROVE  Shape(t)' /\ Effect(t)'
    <2>1. call'[t].op = "deleteAll" /\ call'[t].rs = <<r>> /\ call'[t].pc = "done"
        BY <1>1, <1>3, ReturnsFields DEF EffectInv
    <2>2. call'[t].rs = <<"success">> => steady'[t] = {}
        BY <1>1, <1>3, <2>1 DEF Quiet
    <2>3. Shape(t)'
        BY <2>1 DEF Shape, ListSteps
    <2>4. Effect(t)'
        BY <2>1, <2>2 DEF Effect, At
    <2> QED
        BY <2>3, <2>4
<1> QED
    BY <1>2, <1>3 DEF Sweep, SweepOne, Results

LEMMA EffectRead ==
    ASSUME EffectInv, NEW t \in Thread, Read(t)
    PROVE  Shape(t)' /\ Effect(t)'
<1>1. /\ call[t].op = "getAll" /\ call[t].pc = "read" /\ call[t].rs = <<>>
      /\ t \notin Failing => \A n \in steady[t] : n \in call[t].names \/ \E g \in call[t].got : g.name = n
    BY DEF Read, At, EffectInv, Shape, Effect, ListSteps
<1>2. hash' = hash /\ file' = file /\ steady' = steady
    BY DEF Read, ReadOne, Quiet
<1>3. \A n \in steady[t] : file[n] # NoFile
    BY DEF EffectInv, SteadyPresent, Present
<1>4. ASSUME /\ call'[t].op = "getAll" /\ call'[t].pc = "read" /\ call'[t].rs = <<>>
             /\ t \notin Failing => \A n \in steady[t] :
                               n \in call'[t].names \/ \E g \in call'[t].got : g.name = n
      PROVE  Shape(t)' /\ Effect(t)'
    <2>1. Shape(t)'
        BY <1>4 DEF Shape, ListSteps
    <2>2. Effect(t)'
        BY <1>2, <1>4 DEF Effect, At
    <2> QED
        BY <2>1, <2>2
<1>5. ASSUME NEW n \in Name, file[n] \in Model,
             call' = [call EXCEPT ![t].names = @ \ {n},
                                  ![t].got = @ \cup {[name |-> n, model |-> file[n]]}]
      PROVE  Shape(t)' /\ Effect(t)'
    <2> DEFINE g == [name |-> n, model |-> file[n]]
    <2>1. g.name = n
        OBVIOUS
    <2> HIDE DEF g
    <2>2. call' = [call EXCEPT ![t].names = @ \ {n}, ![t].got = @ \cup {g}]
        BY <1>5 DEF g
    <2>3. /\ call'[t].op = "getAll" /\ call'[t].pc = "read" /\ call'[t].rs = <<>>
          /\ call'[t].got = call[t].got \cup {g} /\ call'[t].names = call[t].names \ {n}
        BY <1>1, <2>2, GotFields DEF EffectInv
    <2> QED
        BY <1>1, <1>4, <2>1, <2>3
<1>6. ASSUME NEW n \in Name, t \in Failing \/ file[n] = NoFile,
             call' = [call EXCEPT ![t].names = @ \ {n}]
      PROVE  Shape(t)' /\ Effect(t)'
    <2>1. /\ call'[t].op = "getAll" /\ call'[t].pc = "read" /\ call'[t].rs = <<>>
          /\ call'[t].got = call[t].got /\ call'[t].names = call[t].names \ {n}
        BY <1>1, <1>6, NamesFields DEF EffectInv
    <2> QED
        BY <1>1, <1>3, <1>4, <1>6, <2>1
<1>7. ASSUME NEW n \in Name, file[n] = Garbage,
             call' = [call EXCEPT ![t].got = {}, ![t].rs = <<"error">>, ![t].pc = "done"]
      PROVE  Shape(t)' /\ Effect(t)'
    <2>1. call'[t].op = "getAll" /\ call'[t].rs = <<"error">> /\ call'[t].pc = "done"
        BY <1>1, <1>7, NothingGotFields DEF EffectInv
    <2>2. Legacy # {} /\ call'[t].rs # <<"success">>
        BY <1>7, <2>1 DEF EffectInv, NoGarbage
    <2>3. Shape(t)'
        BY <2>1 DEF Shape, ListSteps
    <2>4. Effect(t)'
        BY <2>1, <2>2 DEF Effect, At
    <2> QED
        BY <2>3, <2>4
<1>8. CASE call[t].names = {} /\ Returns(t, "success")
    <2>1. /\ call'[t].op = "getAll" /\ call'[t].rs = <<"success">> /\ call'[t].pc = "done"
          /\ call'[t].got = call[t].got
        BY <1>1, <1>8, ReturnsFields DEF EffectInv
    <2>2. Shape(t)'
        BY <2>1 DEF Shape, ListSteps
    <2>3. Effect(t)'
        BY <1>1, <1>2, <1>8, <2>1 DEF Effect, At
    <2> QED
        BY <2>2, <2>3
<1> QED
    BY <1>5, <1>6, <1>7, <1>8 DEF Read, ReadOne

LEMMA EffectStep ==
    ASSUME EffectInv, [Next]_vars
    PROVE  \A u \in Thread : Shape(u)' /\ Effect(u)'
<1>1. ASSUME NEW t \in Thread,
             \/ Create(t) \/ CreateMany(t) \/ Update(t)
             \/ Delete(t) \/ DeleteMany(t) \/ DeleteAll(t) \/ GetAll(t)
      PROVE  \A u \in Thread : Shape(u)' /\ Effect(u)'
    <2>1. Others(t) /\ Shape(t)' /\ Effect(t)'
        BY <1>1, StepOthers, EffectBegin DEF EffectInv
    <2>2. hash' = hash /\ \A u \in Thread : u # t => steady'[u] = steady[u]
        BY <1>1 DEF Create, CreateMany, Update, Delete, DeleteMany, DeleteAll, GetAll, Begin,
                    EffectInv, TypeOK
    <2>3. \A u \in Thread : u # t => Shape(u)' /\ Effect(u)'
        BY <2>1, <2>2, EffectOther DEF EffectInv, Others
    <2> QED
        BY <2>1, <2>3
<1>2. ASSUME NEW t \in Thread, Step(t)
      PROVE  \A u \in Thread : Shape(u)' /\ Effect(u)'
    <2>1. Others(t)
        BY <1>2, StepOthers DEF EffectInv
    <2>2. Shape(t)' /\ Effect(t)'
        BY <1>2, EffectCreate, EffectDelete, EffectList, EffectSweep, EffectRead DEF Step
    <2>3. hash' = hash
        BY <1>2 DEF Step, CreateDirectory, CheckExists, RemoveOld, CreateFile, FindFile,
                    RemoveFile, ListDirectory, Sweep, SweepOne, Read, ReadOne, Quiet
    <2>4. steady' = steady \/ Watch
        BY <1>2 DEF Step, CreateDirectory, CheckExists, RemoveOld, CreateFile, FindFile,
                    RemoveFile, ListDirectory, Sweep, SweepOne, Read, ReadOne, Quiet
    <2>5. \A u \in Thread : steady'[u] \subseteq steady[u]
        BY <2>4 DEF Watch
    <2>6. \A u \in Thread : u # t => Shape(u)' /\ Effect(u)'
        BY <2>1, <2>3, <2>5, EffectOther DEF EffectInv, Others
    <2> QED
        BY <2>2, <2>6
<1>3. CASE Restart
    <2>1. \A u \in Thread : call'[u].pc = "done" /\ call'[u].op = "none"
        BY <1>3, IdleType DEF Restart
    <2> QED
        BY <2>1 DEF Shape, Effect, At, ListSteps
<1>4. CASE UNCHANGED vars
    BY <1>4 DEF vars, EffectInv, Shape, Effect, At
<1> QED
    BY <1>1, <1>2, <1>3, <1>4 DEF Next

LEMMA EffectInit == Init => EffectInv
<1> SUFFICES ASSUME Init PROVE EffectInv
    OBVIOUS
<1>1. \A t \in Thread : call[t].pc = "done" /\ call[t].op = "none" /\ steady[t] = {}
    BY IdleType DEF Init
<1>2. \A t \in Thread : Shape(t) /\ Effect(t)
    BY <1>1 DEF Shape, Effect, At, ListSteps
<1>3. DirectoryMade /\ NoGarbage /\ SteadyPresent
    BY <1>1, ConstantsOK DEF Init, DirectoryMade, NoGarbage, SteadyPresent, Present
<1> QED
    BY <1>2, <1>3, TypeInit DEF EffectInv

LEMMA EffectAlways == Spec => []EffectInv
<1>1. EffectInv /\ [Next]_vars => EffectInv'
    BY TypeStep, GlobalStep, EffectStep DEF EffectInv
<1> QED
    BY <1>1, EffectInit, PTL DEF Spec

\* A file named in a delete that reports success was gone at some moment of the call;
\* without failures of the FileManager, so was one it reports an error for.
THEOREM DeletesTakeEffect == Spec => []DeleteTakesEffect
<1>1. EffectInv => DeleteTakesEffect
    BY DEF EffectInv, Effect, DeleteTakesEffect
<1> QED
    BY <1>1, EffectAlways, PTL

\* After a deleteAll that returns nil nothing has been there throughout.
THEOREM DeleteAllsTakeEffect == Spec => []DeleteAllTakesEffect
<1>1. EffectInv => DeleteAllTakesEffect
    BY DEF EffectInv, Effect, DeleteAllTakesEffect
<1> QED
    BY <1>1, EffectAlways, PTL

\* getAll misses no object whose file was there for the whole call.
THEOREM GetAllsComplete == Spec => []GetAllComplete
<1>1. EffectInv => GetAllComplete
    BY DEF EffectInv, Effect, GetAllComplete
<1> QED
    BY <1>1, EffectAlways, PTL
=============================================================================
