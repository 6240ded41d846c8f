----------------------------- MODULE RealmRepository -----------------------------
(***************************************************************************)
(* RealmRepository on several threads.  A Realm is confined to its thread, *)
(* so each thread has a repository with a Realm of its own; the Realms are *)
(* of one file.  A Realm shows one version of the file; realm.write waits  *)
(* for the file's write lock, moves to the newest version, runs its block  *)
(* and commits.                                                            *)
(*                                                                         *)
(* The class has a primary key, and an object is represented by its key    *)
(* and the rest of it.  What an operation does to the objects is its       *)
(* change here; RealmCascade says how it comes about.                      *)
(***************************************************************************)
EXTENDS Naturals

CONSTANTS
    Thread,    \* threads with a repository
    Key,       \* primary keys
    Val,       \* what an object holds beside its key
    IOErrors,  \* TRUE: a commit may fail
    None,      \* no object with this key
    Nobody     \* the write lock is free

Version == [Key -> Val \cup {None}]

\* What an operation puts under some of the keys.
Change == UNION {[D -> Val \cup {None}] : D \in SUBSET Key}

Ops == {"create", "delete", "deleteAll", "perform"}

ASSUME ConstantsOK ==
    /\ IOErrors \in BOOLEAN
    /\ None \notin Val
    /\ Nobody \notin Thread \cup [op : Ops, change : Change]

VARIABLES
    file,    \* the newest version: the object under each key
    view,    \* what the Realm of each thread shows
    gone,    \* the keys whose object there another thread has deleted since
    writer,  \* the thread in a write transaction
    call,    \* what each thread is doing
    result,  \* how its last operation ended
    dead,    \* an uncaught exception has ended the process
    own      \* history: the keys that the open write transaction has touched

vars == <<file, view, gone, writer, call, result, dead, own>>

(***************************************************************************)
(* begin: before realm.write; closure: in the closure of a performTransc-  *)
(* ation; commit: after the block of realm.write.                          *)
(***************************************************************************)
Call == [op : {"none"} \cup Ops,
         pc : {"idle", "begin", "closure", "commit"},
         change : Change]

NoChange == [k \in {} |-> None]
Idle     == [op |-> "none", pc |-> "idle", change |-> NoChange]

Empty == [k \in Key |-> None]

Init ==
    /\ file \in Version
    /\ view = [t \in Thread |-> file]
    /\ gone = [t \in Thread |-> {}]
    /\ writer = Nobody
    /\ call = [t \in Thread |-> Idle]
    /\ result = [t \in Thread |-> "none"]
    /\ dead = FALSE
    /\ own = {}

-----------------------------------------------------------------------------

At(t, pc) == call[t].pc = pc

Begin(t, op, change) ==
    /\ At(t, "idle")
    /\ call' = [call EXCEPT ![t] = [op |-> op, pc |-> "begin", change |-> change]]
    /\ UNCHANGED <<file, view, gone, writer, result, dead, own>>

Returns(t, r) ==
    /\ call' = [call EXCEPT ![t] = Idle]
    /\ result' = [result EXCEPT ![t] = r]

\* What the version v becomes in the block that t hands to realm.write.
Effect(t, v) ==
    CASE call[t].op = "deleteAll" -> Empty
      [] call[t].op = "perform"   -> v
      [] OTHER -> [k \in Key |-> IF k \in DOMAIN call[t].change THEN call[t].change[k] ELSE v[k]]

\* Mutant: what has been deleted since the Realm's version goes unnoticed.
LostNever(t) == FALSE

\* An object that t is to delete has been deleted by another thread, before or after
\* the call, since the version that t has it from.  Its accessor is detached in the
\* newest version, even if the key is in use again.
Lost(t) == call[t].op = "delete" /\ DOMAIN call[t].change \cap gone[t] # {}

\* The keys it touches.
Touched(t) == IF call[t].op = "deleteAll" THEN Key ELSE DOMAIN call[t].change

-----------------------------------------------------------------------------
(* The operations, up to realm.write.                                      *)

\* create of a model or an array; with primary keys a stored object is overwritten.
Create(t) == \E D \in SUBSET Key \ {{}} : \E c \in [D -> Val] : Begin(t, "create", c)

\* delete of objects that the thread's Realm shows, with all that they lead to.
Delete(t) ==
    \E D \in SUBSET {k \in Key : view[t][k] # None} \ {{}} :
        Begin(t, "delete", [k \in D |-> None])

DeleteAll(t) == Begin(t, "deleteAll", NoChange)

PerformTransaction(t) == Begin(t, "perform", NoChange)

\* update goes on only if the thread's Realm shows no object with the model's key.
Update(t, k, v) ==
    /\ At(t, "idle")
    /\ \/ view[t][k] = None /\ Begin(t, "create", [j \in {k} |-> v])
       \/ /\ view[t][k] # None
          /\ Returns(t, "noOriginalObject")
          /\ UNCHANGED <<file, view, gone, writer, dead, own>>

-----------------------------------------------------------------------------
(* realm.write.                                                            *)

\* The process ends, and is launched again with what the file holds.
Die == /\ dead' = TRUE
       /\ UNCHANGED <<file, view, gone, writer, call, result, own>>

Enters(t) ==
    /\ At(t, "begin") /\ writer = Nobody
    /\ ~Lost(t)
    /\ writer' = t
    /\ own' = Touched(t)
    /\ gone' = [gone EXCEPT ![t] = {}]
    /\ call' = [call EXCEPT ![t].pc = IF call[t].op = "perform" THEN "closure" ELSE "commit"]

\* Mutant: the block sees what the thread saw before.
WriteStale(t) ==
    /\ Enters(t)
    /\ view' = [view EXCEPT ![t] = Effect(t, view[t])]
    /\ UNCHANGED <<file, result, dead>>

\* Mutant: the write lock is not waited for.
WriteUnlocked(t) ==
    /\ At(t, "begin") /\ ~Lost(t)
    /\ writer' = t
    /\ own' = Touched(t)
    /\ gone' = [gone EXCEPT ![t] = {}]
    /\ call' = [call EXCEPT ![t].pc = IF call[t].op = "perform" THEN "closure" ELSE "commit"]
    /\ view' = [view EXCEPT ![t] = Effect(t, file)]
    /\ UNCHANGED <<file, result, dead>>

\* beginWrite, and the block of every operation but performTranscation.
Write(t) ==
    /\ Enters(t)
    /\ view' = [view EXCEPT ![t] = Effect(t, file)]
    /\ UNCHANGED <<file, result, dead>>

\* The block meets a deleted object: its hash, or a property, throws.
WriteLost(t) ==
    /\ At(t, "begin") /\ writer = Nobody
    /\ Lost(t)
    /\ Die

\* beginWrite does not nest.
WriteNested(t) ==
    /\ At(t, "begin") /\ writer = t
    /\ Die

\* In a closure, an operation of the repository calls realm.write again.
CallInClosure(t) ==
    /\ At(t, "closure")
    /\ Die

\* The program assigns a property of a stored object: in the closure of a
\* performTranscation, or while a transaction that could not be committed is open.
SetProperty(t, k, v) ==
    /\ writer = t /\ call[t].pc \in {"closure", "idle"}
    /\ view[t][k] # None
    /\ view' = [view EXCEPT ![t][k] = v]
    /\ own' = own \cup {k}
    /\ UNCHANGED <<file, gone, writer, call, result, dead>>

EndClosure(t) ==
    /\ At(t, "closure")
    /\ call' = [call EXCEPT ![t].pc = "commit"]
    /\ UNCHANGED <<file, view, gone, writer, result, dead, own>>

\* The objects that this commit deletes are gone for the Realms of the other threads.
Takes(t) ==
    gone' = [u \in Thread |-> IF u = t THEN {}
                              ELSE gone[u] \cup {k \in Key : file[k] # None /\ view[t][k] = None}]

\* Mutant: the thread keeps the write lock after a successful commit.
CommitLocked(t) ==
    /\ At(t, "commit")
    /\ \/ /\ file' = view[t]
          /\ Takes(t)
          /\ Returns(t, "success")
          /\ own' = {}
       \/ IOErrors /\ Returns(t, "error") /\ UNCHANGED <<file, gone, own>>
    /\ UNCHANGED <<view, writer, dead>>

\* commitWrite.  One that fails leaves the transaction open, and the repository too.
Commit(t) ==
    /\ At(t, "commit")
    /\ \/ /\ file' = view[t]
          /\ writer' = Nobody
          /\ Takes(t)
          /\ Returns(t, "success")
          /\ own' = {}
       \/ IOErrors /\ Returns(t, "error") /\ UNCHANGED <<file, gone, writer, own>>
    /\ UNCHANGED <<view, dead>>

\* The run loop, or the program, moves a Realm to the newest version.
Refresh(t) ==
    /\ writer # t /\ At(t, "idle")
    /\ view' = [view EXCEPT ![t] = file]
    /\ gone' = [gone EXCEPT ![t] = {}]
    /\ UNCHANGED <<file, writer, call, result, dead, own>>

Relaunch ==
    /\ dead
    /\ dead' = FALSE
    /\ view' = [t \in Thread |-> file]
    /\ gone' = [t \in Thread |-> {}]
    /\ writer' = Nobody
    /\ call' = [t \in Thread |-> Idle]
    /\ result' = [t \in Thread |-> "none"]
    /\ own' = {}
    /\ UNCHANGED file

Step(t) == Write(t) \/ WriteLost(t) \/ WriteNested(t) \/ EndClosure(t) \/ Commit(t)

Next ==
    \/ /\ ~dead
       /\ \E t \in Thread :
             \/ Create(t) \/ Delete(t) \/ DeleteAll(t) \/ PerformTransaction(t)
             \/ \E k \in Key, v \in Val : Update(t, k, v) \/ SetProperty(t, k, v)
             \/ Step(t) \/ CallInClosure(t) \/ Refresh(t)
    \/ Relaunch

Spec == Init /\ [][Next]_vars

\* A thread in realm.write runs on, and closures return.
FairSpec == Spec /\ \A t \in Thread : WF_vars(~dead /\ Step(t))

-----------------------------------------------------------------------------

\* The variables have their types, and the thread between the block of realm.write and
\* its commit is the writer.
TypeOK ==
    /\ file \in Version
    /\ view \in [Thread -> Version]
    /\ gone \in [Thread -> SUBSET Key]
    /\ writer \in Thread \cup {Nobody}
    /\ call \in [Thread -> Call]
    /\ result \in [Thread -> {"none", "success", "error", "noOriginalObject"}]
    /\ dead \in BOOLEAN
    /\ own \subseteq Key
    /\ \A t \in Thread : call[t].pc \in {"closure", "commit"} => writer = t

\* A commit stores what its own operation changed and nothing else: neither what the
\* thread saw before others committed, nor what an operation left behind that failed.
OnlyOwnChangesCommitted == [][\A k \in Key : file'[k] # file[k] => k \in own]_vars

\* When a deleteAll returns nil, no object is stored, not even one that another thread
\* has stored since deleteAll was called.
DeleteAllClears ==
    [][\A t \in Thread :
         (/\ call[t].op = "deleteAll" /\ At(t, "commit")
          /\ result'[t] = "success" /\ At(t, "idle")')
         => file' = Empty]_vars

\* A delete that returns nil has found in the file every object it was given: of one that
\* another thread has deleted, before the call or while it waited for the write lock, no
\* delete reports success (it ends the process, as the object is hashed).
DeletesWhatIsStored ==
    [][\A t \in Thread :
         (/\ call[t].op = "delete" /\ At(t, "commit")
          /\ result'[t] = "success" /\ At(t, "idle")')
         => \A k \in DOMAIN call[t].change : file[k] # None]_vars

\* An operation that has the write lock gives it back, or reports an error, or ends the
\* process: only a failed commit can leave the other threads waiting for ever.
LockReleased ==
    \A t \in Thread :
        (writer = t /\ ~At(t, "idle")) ~> (writer # t \/ result[t] = "error" \/ dead)

-----------------------------------------------------------------------------

\* The operation of t as a caller sees it: a dead process is in none.
Operation(t) ==
    IF dead \/ At(t, "idle") THEN Nobody ELSE [op |-> call[t].op, change |-> call[t].change]

Abstract == INSTANCE Repository WITH
    Client <- Thread, Nothing <- Nobody, objects <- file,
    pending <- [t \in Thread |-> Operation(t)],
    result <- [t \in Thread |-> IF dead THEN "none" ELSE result[t]]

\* The repositories of all threads together implement one atomic repository, in spite
\* of the versions their Realms are behind, commits that fail and exceptions that end
\* the process: an operation takes effect as a whole when its commit succeeds, on what
\* is stored at that moment, and one that returns an error has no effect.
ImplementsRepository == Abstract!Spec
===============================================================================
