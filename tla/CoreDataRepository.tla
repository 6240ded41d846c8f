-------------------------- MODULE CoreDataRepository --------------------------
(***************************************************************************)
(* CoreDataRepository: callers on several threads share one managed object *)
(* context over a persistent store.  Most operations run on the context's  *)
(* queue (performAndWait), which one caller holds at a time and may enter  *)
(* again; delete(_: [Object]) and the setters of the objects do not.       *)
(* Only save carries what is pending in the context, whoever left it       *)
(* there, into the store.                                                  *)
(***************************************************************************)
EXTENDS Naturals

CONSTANTS
    Caller,    \* threads that share the repository
    Obj,       \* managed objects
    Val,       \* what their required attributes may be set to
    MaxDepth,  \* bound: performTranscations inside each other
    IOErrors,  \* TRUE: the store may refuse a fetch or a save
    Crashes,   \* TRUE: the process may be killed and started again
    NoCaller,  \* the queue is free
    None,      \* no such object
    Blank      \* an inserted object whose required attributes are not set

ASSUME ConstantsOK ==
    /\ MaxDepth \in Nat \ {0}
    /\ IOErrors \in BOOLEAN /\ Crashes \in BOOLEAN
    /\ NoCaller \notin Caller
    /\ None \notin Val /\ Blank \notin Val /\ None # Blank

VARIABLES
    store,   \* the persistent store
    ctx,     \* what the context shows: the store and the pending changes
    owner,   \* the caller that holds the context's queue
    depth,   \* the performTranscations it is in
    call,    \* the delete that each caller is in, and the objects left to delete
    result,  \* how the last operation of each caller ended
    held,    \* the objects that the program has been given, deleted ones included
    txStore, \* history: the store when the outermost transaction began
    txSaved, \* history: something was saved from inside that transaction
    acked,   \* history: objects a create has stored and nobody has deleted since
    gone     \* history: objects that a delete outside any transaction has deleted

history == <<acked, gone>>
vars == <<store, ctx, owner, depth, call, result, held, txStore, txSaved, history>>

NoCall == [op |-> "none", todo |-> {}]

Init ==
    /\ store \in [Obj -> Val \cup {None}]
    /\ ctx = store
    /\ owner = NoCaller /\ depth = 0
    /\ call = [c \in Caller |-> NoCall]
    /\ result = [c \in Caller |-> "none"]
    /\ txStore = store /\ txSaved = FALSE
    /\ held = {o \in Obj : store[o] # None}
    /\ acked = {} /\ gone = {}

-----------------------------------------------------------------------------

\* c calls something that needs the queue and gets it.
Queue(c) == owner \in {NoCaller, c}

Idle(c) == call[c].op = "none"

Ends(c, r) == result' = [result EXCEPT ![c] = r]

Visible == {o \in Obj : ctx[o] # None}
Pending == {o \in Obj : ctx[o] # store[o]}
Valid   == \A o \in Obj : ctx[o] # Blank

\* context.save(): everything pending is validated and written, or nothing is.
SaveSucceeds(c) ==
    /\ Valid
    /\ store' = ctx
    /\ txSaved' = (txSaved \/ (owner = c /\ Pending # {}))

SaveFails ==
    /\ Pending # {}
    /\ ~Valid \/ IOErrors
    /\ UNCHANGED <<store, txSaved>>

\* context.delete(o), called by c.
Remove(c, o) ==
    /\ ctx' = [ctx EXCEPT ![o] = None]
    /\ acked' = acked \ {o}
    /\ gone' = IF owner = c /\ depth > 0 THEN gone ELSE gone \cup {o}

Transaction == <<owner, depth, txStore>>
Persistent  == <<store, txStore, txSaved>>

NewObject(o) ==
    /\ o \notin held /\ ctx[o] = None /\ store[o] = None
    /\ held' = held \cup {o}
    /\ ctx' = [ctx EXCEPT ![o] = Blank]
    /\ acked' = acked \ {o} /\ gone' = gone \ {o}

-----------------------------------------------------------------------------
(* The operations.                                                         *)

\* Mutant: the object is inserted without waiting for the queue.
MakeEntityAnywhere(c, o) ==
    /\ Idle(c)
    /\ NewObject(o)
    /\ UNCHANGED <<Persistent, owner, depth, call, result>>

\* makeEntity()
MakeEntity(c, o) ==
    /\ Idle(c) /\ Queue(c)
    /\ NewObject(o)
    /\ UNCHANGED <<Persistent, owner, depth, call, result>>

\* The program assigns the attributes of an object, on any thread at any time.
SetAttributes(o, v) ==
    /\ ctx[o] # None
    /\ ctx' = [ctx EXCEPT ![o] = v]
    /\ UNCHANGED <<Persistent, owner, depth, call, result, held, history>>

SaveAndReport(c, ms) ==
    \/ SaveSucceeds(c) /\ Ends(c, "success") /\ acked' = acked \cup (ms \cap Visible)
    \/ SaveFails /\ Ends(c, "error") /\ UNCHANGED acked

\* Mutant: create saves without waiting for the queue.
CreateAnywhere(c, ms) ==
    /\ Idle(c)
    /\ SaveAndReport(c, ms)
    /\ UNCHANGED <<Transaction, ctx, call, held, gone>>

\* create of one model or an array: a save, whatever the argument.
Create(c, ms) ==
    /\ Idle(c) /\ Queue(c)
    /\ SaveAndReport(c, ms)
    /\ UNCHANGED <<Transaction, ctx, call, held, gone>>

Update(c, m) == Create(c, {m})

\* delete(_: Object): one deletion, on the queue; nothing is saved.
Delete(c, o) ==
    /\ Idle(c) /\ Queue(c)
    /\ Remove(c, o)
    /\ Ends(c, "success")
    /\ UNCHANGED <<Persistent, owner, depth, call, held>>

\* delete(_: [Object]) starts, off the queue.
DeleteMany(c, ms) ==
    /\ Idle(c)
    /\ call' = [call EXCEPT ![c] = [op |-> "delete", todo |-> ms]]
    /\ UNCHANGED <<store, ctx, owner, depth, result, txStore, txSaved, held, history>>

\* deleteAll() takes the queue and fetches the objects, those not yet saved included.
DeleteAll(c) ==
    /\ Idle(c) /\ Queue(c)
    /\ \/ /\ call' = [call EXCEPT ![c] = [op |-> "deleteAll", todo |-> Visible]]
          /\ owner' = c
          /\ UNCHANGED result
       \/ IOErrors /\ Ends(c, "error") /\ UNCHANGED <<call, owner>>
    /\ UNCHANGED <<store, ctx, depth, txStore, txSaved, held, history>>

\* forEach(context.delete), in both.
DeleteNext(c, o) ==
    /\ o \in call[c].todo
    /\ Remove(c, o)
    /\ call' = [call EXCEPT ![c].todo = @ \ {o}]
    /\ UNCHANGED <<Persistent, owner, depth, result, held>>

\* Mutant: deleteAll gives the queue up, also inside a transaction.
DeleteReturnsFreeing(c) ==
    /\ ~Idle(c) /\ call[c].todo = {}
    /\ call' = [call EXCEPT ![c] = NoCall]
    /\ Ends(c, "success")
    /\ owner' = IF call[c].op = "deleteAll" THEN NoCaller ELSE owner
    /\ UNCHANGED <<store, ctx, depth, txStore, txSaved, held, history>>

DeleteReturns(c) ==
    /\ ~Idle(c) /\ call[c].todo = {}
    /\ call' = [call EXCEPT ![c] = NoCall]
    /\ Ends(c, "success")
    /\ owner' = IF call[c].op = "deleteAll" /\ depth = 0 THEN NoCaller ELSE owner
    /\ UNCHANGED <<store, ctx, depth, txStore, txSaved, held, history>>

\* performTranscation(_:) up to the call of its closure, which may do all of the above.
BeginTransaction(c) ==
    /\ Idle(c) /\ Queue(c)
    /\ depth < MaxDepth
    /\ owner' = c /\ depth' = depth + 1
    /\ txStore' = IF depth = 0 THEN store ELSE txStore
    /\ txSaved' = (depth > 0 /\ txSaved)
    /\ UNCHANGED <<store, ctx, call, result, held, history>>

\* Mutant: a failure undoes what the transaction itself did, also what it has saved.
EndTransactionUndone(c) ==
    /\ Idle(c) /\ owner = c /\ depth > 0
    /\ \/ SaveSucceeds(c) /\ Ends(c, "success") /\ UNCHANGED ctx
       \/ SaveFails /\ Ends(c, "error") /\ ctx' = txStore
    /\ depth' = depth - 1
    /\ owner' = IF depth = 1 THEN NoCaller ELSE c
    /\ UNCHANGED <<call, held, txStore, history>>

\* The closure has returned: save, or roll the context back to the store.
EndTransaction(c) ==
    /\ Idle(c) /\ owner = c /\ depth > 0
    /\ \/ SaveSucceeds(c) /\ Ends(c, "success") /\ UNCHANGED ctx
       \/ SaveFails /\ Ends(c, "error") /\ ctx' = store
    /\ depth' = depth - 1
    /\ owner' = IF depth = 1 THEN NoCaller ELSE c
    /\ UNCHANGED <<call, held, txStore, history>>

\* What was pending dies with the process.
Crash ==
    /\ Crashes
    /\ ctx' = store
    /\ owner' = NoCaller /\ depth' = 0
    /\ call' = [c \in Caller |-> NoCall]
    /\ result' = [c \in Caller |-> "none"]
    /\ held' = {o \in Obj : store[o] # None}
    /\ UNCHANGED <<Persistent, history>>

Next ==
    \/ \E c \in Caller :
         \/ \E o \in Obj : MakeEntity(c, o) \/ DeleteNext(c, o)
         \/ \E o \in held : Delete(c, o) \/ Update(c, o)
         \/ \E ms \in SUBSET held : Create(c, ms) \/ DeleteMany(c, ms)
         \/ DeleteAll(c) \/ DeleteReturns(c) \/ BeginTransaction(c) \/ EndTransaction(c)
    \/ \E o \in Obj, v \in Val : SetAttributes(o, v)
    \/ Crash

Spec == Init /\ [][Next]_vars

-----------------------------------------------------------------------------

\* The variables have their types; the queue is held exactly by a caller in a
\* transaction or in deleteAll.
TypeOK ==
    /\ store \in [Obj -> Val \cup {None}]
    /\ ctx \in [Obj -> Val \cup {None, Blank}]
    /\ owner \in Caller \cup {NoCaller}
    /\ depth \in 0 .. MaxDepth
    /\ call \in [Caller -> [op : {"none", "delete", "deleteAll"}, todo : SUBSET Obj]]
    /\ result \in [Caller -> {"none", "success", "error"}]
    /\ txStore \in [Obj -> Val \cup {None}] /\ txSaved \in BOOLEAN
    /\ held \subseteq Obj
    /\ acked \subseteq Obj /\ gone \subseteq Obj
    /\ owner = NoCaller => depth = 0
    /\ \A c \in Caller : call[c].op = "deleteAll" => owner = c

\* A transaction that fails, and saved nothing on the way, leaves the store and the
\* context as the store was when it began: no other caller's call reaches the store
\* while the closure runs.
FailedTransactionLeavesNoTrace ==
    [][\A c \in Caller :
         (owner = c /\ depth = 1 /\ depth' = 0 /\ result'[c] = "error" /\ ~txSaved)
         => store' = txStore /\ ctx' = txStore]_vars

\* When deleteAll returns nil, getAll returns nothing: nobody has got an object in, or
\* rolled a deletion back, since deleteAll made its list.
DeleteAllClears ==
    [][\A c \in Caller :
         (call[c].op = "deleteAll" /\ call'[c].op = "none" /\ result'[c] = "success")
         => Visible' = {}]_vars

\* What a create has stored is there, in the store and in the context, until somebody
\* deletes it, through everybody's failed transactions and through crashes.
AckedSurvives == \A o \in acked : store[o] # None /\ ctx[o] # None

\* What a delete outside any transaction has deleted does not come back by itself.
DeletedStaysDeleted == \A o \in gone : ctx[o] = None
===============================================================================
