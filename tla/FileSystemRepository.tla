------------------------ MODULE FileSystemRepository ------------------------
(***************************************************************************)
(* FileSystemRepository<Model> keeps one JSON file per object in one       *)
(* directory; the file's name is the hash value of the object's id.        *)
(* Nothing is locked: an operation is a sequence of FileManager calls, and *)
(* the calls of operations running on different threads interleave.  One   *)
(* action below is one FileManager call, with the code up to the next one. *)
(*                                                                         *)
(* A JSON file is represented by the model it decodes to.                  *)
(***************************************************************************)
EXTENDS Naturals, Sequences

CONSTANTS
    Thread,       \* threads that call the repository
    Id,           \* Model.Id
    Val,          \* what a model holds beside its id
    Unencodable,  \* the values JSONEncoder refuses (a non-finite number, say)
    Name,         \* file names: the hash values of ids
    Hashes,       \* the functions Id -> Name that a process may find hashValue to be
    Batch,        \* the arrays handed to create(_:) and delete(_:)
    Failing,      \* the threads whose calls of FileManager may fail
    Crashes,      \* TRUE: the process may be killed and started again
    Legacy,       \* names of files, left by an earlier release, that do not decode
    NoFile,       \* no file of this name
    Garbage       \* a file that does not decode

Model == [id : Id, val : Val]

ASSUME ConstantsOK ==
    /\ Hashes # {} /\ Hashes \subseteq [Id -> Name]
    /\ Unencodable \subseteq Val
    /\ Batch \subseteq Seq(Model) \ {<<>>}
    /\ Legacy \subseteq Name
    /\ Failing \subseteq Thread /\ Crashes \in BOOLEAN
    /\ NoFile \notin Model /\ Garbage \notin Model /\ NoFile # Garbage

VARIABLES
    dir,     \* the repository's directory exists
    file,    \* what each name of the directory holds
    hash,    \* hashValue in the running process
    call,    \* the call each thread is in, or its last one
    steady,  \* history: the names with a file from the begin of a thread's call until now
    owed     \* history: the models written last for their id, and where, and not deleted since

vars == <<dir, file, hash, call, steady, owed>>

Results == {"success", "error"}   \* .success and .error; for a delete, nil and an Error

ElementSteps == {"mkdir", "check", "remove", "write", "find", "unlink"}
ListSteps    == {"list", "sweep", "read"}
Steps        == ElementSteps \cup ListSteps \cup {"done"}
Ops          == {"none", "create", "createMany", "delete", "deleteAll", "getAll"}

(***************************************************************************)
(* arg is the array a call works through, rs the results of the elements   *)
(* done so far, names what is left of a directory listing, got what getAll *)
(* has decoded.                                                            *)
(***************************************************************************)
Call == [op : Ops, pc : Steps, arg : Seq(Model), rs : Seq(Results),
         names : SUBSET Name, got : SUBSET [name : Name, model : Model]]

NewCall(op, pc, arg) ==
    [op |-> op, pc |-> pc, arg |-> arg, rs |-> <<>>, names |-> {}, got |-> {}]

Idle == NewCall("none", "done", <<>>)

Init ==
    /\ file = [n \in Name |-> IF n \in Legacy THEN Garbage ELSE NoFile]
    /\ dir = (Legacy # {})
    /\ hash \in Hashes
    /\ call = [t \in Thread |-> Idle]
    /\ steady = [t \in Thread |-> {}]
    /\ owed = {}

-----------------------------------------------------------------------------

Present == {n \in Name : file[n] # NoFile}

\* The element of its array that the call of t is at; ItemName is the name of its file.
Item(t) == call[t].arg[Len(call[t].rs) + 1]

ItemName(t) == hash[Item(t).id]

\* getElement(withId:): one read of one file.
GetElement(i) == IF file[hash[i]] \in Model THEN {file[hash[i]]} ELSE {}

\* create(_: [Model]): the element that "firstError" picks is the first success.
CreateManyResult(rs) ==
    LET firstError == SelectSeq(rs, LAMBDA r : r = "success")
    IN  IF firstError # <<>> /\ Head(firstError) = "error" THEN "error" ELSE "success"

\* delete(_: [Model]): the first error there is.
DeleteManyResult(rs) ==
    LET errors == SelectSeq(rs, LAMBDA r : r = "error")
    IN  IF errors # <<>> THEN Head(errors) ELSE "success"

Result(c) ==
    CASE c.op = "createMany" -> CreateManyResult(c.rs)
      [] c.op = "delete"     -> DeleteManyResult(c.rs)
      [] OTHER               -> c.rs[1]

-----------------------------------------------------------------------------
(* The parts steps are made of.                                            *)

At(t, pc) == call[t].pc = pc

Goto(t, pc) == call' = [call EXCEPT ![t].pc = pc]

\* Mutant: the loop over the array runs once too often.
ItemReturnsOnceMore(t, r) ==
    call' = [call EXCEPT
        ![t].rs = Append(@, r),
        ![t].pc = IF Len(call[t].rs) = Len(call[t].arg) THEN "done"
                  ELSE IF call[t].op = "delete" THEN "find" ELSE "mkdir"]

\* The closure that map applies returns r: on to the next element, or out.
ItemReturns(t, r) ==
    call' = [call EXCEPT
        ![t].rs = Append(@, r),
        ![t].pc = IF Len(call[t].rs) + 1 = Len(call[t].arg) THEN "done"
                  ELSE IF call[t].op = "delete" THEN "find" ELSE "mkdir"]

Returns(t, r) == call' = [call EXCEPT ![t].rs = <<r>>, ![t].pc = "done"]

Put(n, f) == file' = [file EXCEPT ![n] = f]

\* What a step other than the begin of a call leaves of the steady names.
Watch == steady' = [t \in Thread |-> {n \in steady[t] : file'[n] # NoFile}]

Quiet == UNCHANGED <<dir, file, hash, steady, owed>>

\* What is owed after a removal of these files, and of the files that creates were to write.
Forget(names) == owed' = {o \in owed : o.name \notin names}
Lose(names)   == owed' = {o \in owed : o.name \notin names \/ file[o.name] = o.model}

Owe(t) == owed' = {o \in owed : o.model.id # Item(t).id}
                  \cup {[name |-> ItemName(t), model |-> Item(t)]}

-----------------------------------------------------------------------------
(* A thread calls an operation.                                            *)

Begin(t, op, pc, arg) ==
    /\ At(t, "done")
    /\ call' = [call EXCEPT ![t] = NewCall(op, pc, arg)]
    /\ steady' = [steady EXCEPT ![t] = Present]
    /\ UNCHANGED <<dir, file, hash, owed>>

Create(t)     == \E m \in Model : Begin(t, "create", "mkdir", <<m>>)
CreateMany(t) == \E ms \in Batch : Begin(t, "createMany", "mkdir", ms)
Update(t)     == Create(t)
Delete(t)     == \E m \in Model : Begin(t, "delete", "find", <<m>>)
DeleteMany(t) == \E ms \in Batch : Begin(t, "delete", "find", ms)
DeleteAll(t)  == Begin(t, "deleteAll", "list", <<>>)
GetAll(t)     == Begin(t, "getAll", "list", <<>>)

-----------------------------------------------------------------------------
(* create                                                                  *)

\* Mutant: the old file goes before the new model is encoded.
RemoveThenEncode(t) ==
    /\ At(t, "mkdir")
    /\ dir' = TRUE
    /\ Put(ItemName(t), NoFile)
    /\ Watch
    /\ IF Item(t).val \in Unencodable THEN ItemReturns(t, "error") ELSE Goto(t, "check")
    /\ UNCHANGED <<hash, owed>>

CreateDirectory(t) ==
    /\ At(t, "mkdir")
    /\ \/ /\ dir' = TRUE
          /\ IF Item(t).val \in Unencodable THEN ItemReturns(t, "error")
                                            ELSE Goto(t, "check")
       \/ t \in Failing /\ ItemReturns(t, "error") /\ UNCHANGED dir
    /\ UNCHANGED <<file, hash, steady, owed>>

CheckExists(t) ==
    /\ At(t, "check")
    /\ Goto(t, IF file[ItemName(t)] # NoFile THEN "remove" ELSE "write")
    /\ Quiet

RemoveOld(t) ==
    /\ At(t, "remove")
    /\ \/ /\ file[ItemName(t)] # NoFile
          /\ Put(ItemName(t), NoFile)
          /\ Watch
          /\ Goto(t, "write")
          /\ UNCHANGED <<dir, hash, owed>>
       \/ /\ t \in Failing \/ file[ItemName(t)] = NoFile
          /\ ItemReturns(t, "error")
          /\ Quiet

\* Mutant: a file that has appeared since the check is not overwritten.
CreateFileIfAbsent(t) ==
    /\ At(t, "write")
    /\ ItemReturns(t, "success")
    /\ Put(ItemName(t), IF file[ItemName(t)] = NoFile THEN Item(t) ELSE file[ItemName(t)])
    /\ Owe(t)
    /\ UNCHANGED <<dir, hash, steady>>

\* createFile answers with a Bool that nobody looks at.
CreateFile(t) ==
    /\ At(t, "write")
    /\ ItemReturns(t, "success")
    /\ \/ /\ Put(ItemName(t), Item(t))
          /\ Owe(t)
       \/ /\ t \in Failing
          /\ Lose({ItemName(t)})
          /\ UNCHANGED file
    /\ UNCHANGED <<dir, hash, steady>>

-----------------------------------------------------------------------------
(* delete                                                                  *)

\* Mutant: the test for the file is inverted.
FindFileInverted(t) ==
    /\ At(t, "find")
    /\ IF file[ItemName(t)] = NoFile THEN Goto(t, "unlink") ELSE ItemReturns(t, "success")
    /\ Quiet

FindFile(t) ==
    /\ At(t, "find")
    /\ IF file[ItemName(t)] # NoFile THEN Goto(t, "unlink") ELSE ItemReturns(t, "success")
    /\ Quiet

RemoveFile(t) ==
    /\ At(t, "unlink")
    /\ \/ /\ file[ItemName(t)] # NoFile
          /\ Put(ItemName(t), NoFile)
          /\ Watch
          /\ Forget({ItemName(t)})
          /\ ItemReturns(t, "success")
          /\ UNCHANGED <<dir, hash>>
       \/ /\ t \in Failing \/ file[ItemName(t)] = NoFile
          /\ ItemReturns(t, "error")
          /\ Quiet

-----------------------------------------------------------------------------
(* deleteAll and getAll: a listing of the directory, then one file a step. *)

ListDirectory(t) ==
    /\ At(t, "list")
    /\ \/ /\ dir
          /\ call' = [call EXCEPT ![t].names = Present,
                                  ![t].pc = IF call[t].op = "getAll" THEN "read" ELSE "sweep"]
       \/ (t \in Failing \/ ~dir) /\ Returns(t, "error")
    /\ Quiet

\* Mutant: the loop ends, and not with an error, at a file that cannot be removed.
SweepOneOrStop(t, n) ==
    /\ n \in call[t].names
    /\ \/ /\ file[n] # NoFile
          /\ Put(n, NoFile)
          /\ Watch
          /\ Forget({n})
          /\ call' = [call EXCEPT ![t].names = @ \ {n}]
          /\ UNCHANGED <<dir, hash>>
       \/ (t \in Failing \/ file[n] = NoFile) /\ Returns(t, "success") /\ Quiet

SweepOne(t, n) ==
    /\ n \in call[t].names
    /\ \/ /\ file[n] # NoFile
          /\ Put(n, NoFile)
          /\ Watch
          /\ Forget({n})
          /\ call' = [call EXCEPT ![t].names = @ \ {n}]
          /\ UNCHANGED <<dir, hash>>
       \/ /\ t \in Failing \/ file[n] = NoFile
          /\ Returns(t, "error")
          /\ Quiet

Sweep(t) ==
    /\ At(t, "sweep")
    /\ \/ \E n \in Name : SweepOne(t, n)
       \/ call[t].names = {} /\ Returns(t, "success") /\ Quiet

\* Mutant: a listed file that is gone ends the loop.
ReadOneOrStop(t, n) ==
    /\ n \in call[t].names
    /\ IF file[n] \in Model
       THEN call' = [call EXCEPT ![t].names = @ \ {n},
                                 ![t].got = @ \cup {[name |-> n, model |-> file[n]]}]
       ELSE Returns(t, "success")
    /\ Quiet

\* A file that cannot be read is skipped, one that does not decode empties the answer.
ReadOne(t, n) ==
    /\ n \in call[t].names
    /\ \/ /\ file[n] \in Model
          /\ call' = [call EXCEPT ![t].names = @ \ {n},
                                  ![t].got = @ \cup {[name |-> n, model |-> file[n]]}]
       \/ /\ t \in Failing \/ file[n] = NoFile
          /\ call' = [call EXCEPT ![t].names = @ \ {n}]
       \/ /\ file[n] = Garbage
          /\ call' = [call EXCEPT ![t].got = {}, ![t].rs = <<"error">>, ![t].pc = "done"]
    /\ Quiet

Read(t) ==
    /\ At(t, "read")
    /\ \/ \E n \in Name : ReadOne(t, n)
       \/ call[t].names = {} /\ Returns(t, "success") /\ Quiet

-----------------------------------------------------------------------------

\* The process dies in the middle of whatever it does and is launched again.  A
\* create between its removeItem and its createFile has then lost its object.
Restart ==
    /\ Crashes
    /\ call' = [t \in Thread |-> Idle]
    /\ steady' = [t \in Thread |-> {}]
    /\ hash' \in Hashes
    /\ Lose({ItemName(t) : t \in {u \in Thread : At(u, "write")}})
    /\ UNCHANGED <<dir, file>>

Step(t) ==
    \/ CreateDirectory(t) \/ CheckExists(t) \/ RemoveOld(t) \/ CreateFile(t)
    \/ FindFile(t) \/ RemoveFile(t)
    \/ ListDirectory(t) \/ Sweep(t) \/ Read(t)

Next ==
    \/ \E t \in Thread :
         \/ Create(t) \/ CreateMany(t) \/ Update(t)
         \/ Delete(t) \/ DeleteMany(t) \/ DeleteAll(t) \/ GetAll(t)
         \/ Step(t)
    \/ Restart

Spec == Init /\ [][Next]_vars

-----------------------------------------------------------------------------

CallsOK ==
    /\ call \in [Thread -> Call]
    /\ \A t \in Thread : call[t].pc \in ElementSteps => Len(call[t].rs) < Len(call[t].arg)

\* The values of the variables have their types, and a call inside an element of its
\* array has an element left: map never applies the closure past the end.
TypeOK ==
    /\ dir \in BOOLEAN
    /\ file \in [Name -> Model \cup {NoFile, Garbage}]
    /\ hash \in Hashes
    /\ CallsOK
    /\ steady \in [Thread -> SUBSET Name]
    /\ owed \subseteq [name : Name, model : Model]

\* A create is between its removeItem and its createFile of this file.
Writing(n) == \E t \in Thread : At(t, "write") /\ ItemName(t) = n

\* In this launch or in another one, another id has the hash value that names o's file.
Shared(o) == \E j \in Id \ {o.model.id}, h \in Hashes : h[j] = o.name

\* What was written last for an id and not deleted since is still in the directory,
\* unless a create is about to write that file again: whatever creates, deletes and
\* restarts run together, an object is lost only in the window between removeItem and
\* createFile (create, lines 91-94), or to another id with the same hash value.
NoLoss ==
    \A o \in owed : (\E n \in Name : file[n] = o.model) \/ Writing(o.name) \/ Shared(o)

\* getElement(withId:) is right as far as hashValue is, which is seeded anew at every
\* launch since Swift 4.2 and may be one for two ids: it returns the object of another
\* id only if their hash values meet, in one launch or over two; it finds what was
\* written last if this launch hashes the id as the one that wrote it did, or else the
\* file is in a create's window or was lost to another id; and it returns nothing that
\* has been deleted or overwritten, if the launches agree about this id.
LookupById ==
    \A i \in Id :
        /\ \A m \in GetElement(i) : m.id # i => \E h \in Hashes : h[m.id] = hash[i]
        /\ \A o \in owed : o.model.id = i /\ o.name = hash[i] =>
              GetElement(i) = {o.model} \/ Writing(o.name) \/ Shared(o)
        /\ \A m \in GetElement(i) : m.id = i =>
              [name |-> hash[i], model |-> m] \in owed \/ \E h \in Hashes : h[i] # hash[i]

\* getAll returns every object whose file was there for the whole call, whatever else
\* was created and deleted during it, unless a file it met did not decode.
GetAllComplete ==
    \A t \in Thread :
        (/\ call[t].op = "getAll" /\ At(t, "done")
         /\ t \notin Failing
         /\ call[t].rs = <<"success">> \/ Legacy = {})
        => \A n \in steady[t] : \E g \in call[t].got : g.name = n

\* A delete that reports success (and, when FileManager does not fail, even one that
\* lost a race and reports an error) leaves no object it was asked to delete in place
\* all along: at some moment of the call its file was gone.
DeleteTakesEffect ==
    \A t \in Thread : call[t].op = "delete" =>
        \A k \in 1 .. Len(call[t].rs) :
            call[t].rs[k] = "success" \/ t \notin Failing => hash[call[t].arg[k].id] \notin steady[t]

\* The same of deleteAll: when it returns nil, no file was there for the whole call.
DeleteAllTakesEffect ==
    \A t \in Thread :
        call[t].op = "deleteAll" /\ call[t].rs = <<"success">> => steady[t] = {}

\* create(_: [Model]) reports an error when the creation of one of the models failed,
\* as its constant "firstError" and the branch that returns it say.
BatchErrorReported ==
    \A t \in Thread :
        /\ call[t].op = "createMany" /\ At(t, "done")
        /\ \E k \in 1 .. Len(call[t].rs) : call[t].rs[k] = "error"
        => Result(call[t]) = "error"

=============================================================================
