------------------------ MODULE CoreDataRepositoryProofs ------------------------
(***************************************************************************)
(* Proofs about CoreDataRepository, for any callers, objects and depth of  *)
(* transactions, with failing saves and crashes.                           *)
(***************************************************************************)
EXTENDS CoreDataRepository, TLAPS

\* The steps, once: what the proofs below split on.
StepCases ==
    \E c \in Caller :
        \/ \E o \in Obj : MakeEntity(c, o) \/ DeleteNext(c, o) \/ Delete(c, o)
        \/ \E ms \in SUBSET Obj : Create(c, ms) \/ DeleteMany(c, ms)
        \/ DeleteAll(c) \/ DeleteReturns(c) \/ BeginTransaction(c) \/ EndTransaction(c)

LEMMA NextCases ==
    ASSUME held \subseteq Obj, Next
    PROVE  StepCases \/ (\E o \in Obj, v \in Val : SetAttributes(o, v)) \/ Crash
<1>1. ASSUME NEW c \in Caller, NEW o \in held, Update(c, o) PROVE StepCases
    <2>1. {o} \in SUBSET Obj /\ Create(c, {o})
        BY <1>1 DEF Update
    <2> QED
        BY <2>1 DEF StepCases
<1>2. ASSUME NEW c \in Caller, NEW o \in held, Delete(c, o) PROVE StepCases
    BY <1>2 DEF StepCases
<1>3. ASSUME NEW c \in Caller, NEW ms \in SUBSET held, Create(c, ms) \/ DeleteMany(c, ms)
      PROVE  StepCases
    BY <1>3 DEF StepCases
<1>4. ASSUME NEW c \in Caller, NEW o \in Obj, MakeEntity(c, o) \/ DeleteNext(c, o)
      PROVE  StepCases
    BY <1>4 DEF StepCases
<1>5. ASSUME NEW c \in Caller,
             DeleteAll(c) \/ DeleteReturns(c) \/ BeginTransaction(c) \/ EndTransaction(c)
      PROVE  StepCases
    BY <1>5 DEF StepCases
<1> QED
    BY <1>1, <1>2, <1>3, <1>4, <1>5 DEF Next

-----------------------------------------------------------------------------
(* Types, and who may hold the queue.                                      *)

LEMMA TypeInit == Init => TypeOK
<1> USE ConstantsOK
<1> SUFFICES ASSUME Init PROVE TypeOK
    OBVIOUS
<1>1. NoCall \in [op : {"none", "delete", "deleteAll"}, todo : SUBSET Obj]
    BY DEF NoCall
<1>2. \A c \in Caller : call[c] = NoCall
    BY DEF Init
<1>3. \A c \in Caller : call[c].op # "deleteAll"
    <2>1. NoCall.op = "none"
        BY DEF NoCall
    <2> QED
        BY <1>2, <2>1
<1>4. ctx \in [Obj -> Val \cup {None, Blank}] /\ held \subseteq Obj
    BY DEF Init
<1>5. call \in [Caller -> [op : {"none", "delete", "deleteAll"}, todo : SUBSET Obj]]
    BY <1>1 DEF Init
<1>6. depth \in 0 .. MaxDepth /\ owner \in Caller \cup {NoCaller}
    BY DEF Init
<1>7. result \in [Caller -> {"none", "success", "error"}]
    BY DEF Init
<1> QED
    BY <1>3, <1>4, <1>5, <1>6, <1>7 DEF Init, TypeOK

\* A save leaves no blank object in the store.
LEMMA SaveType ==
    ASSUME TypeOK, NEW c \in Caller, SaveSucceeds(c)
    PROVE  store' \in [Obj -> Val \cup {None}] /\ txSaved' \in BOOLEAN
BY DEF TypeOK, SaveSucceeds, Valid

LEMMA TypeStep == TypeOK /\ [Next]_vars => TypeOK'
<1> USE ConstantsOK
<1> SUFFICES ASSUME TypeOK, [Next]_vars PROVE TypeOK'
    OBVIOUS
<1> DEFINE S == [Obj -> Val \cup {None}]
           C == [Obj -> Val \cup {None, Blank}]
<1>1. ASSUME NEW c \in Caller, NEW o \in Obj, MakeEntity(c, o) PROVE TypeOK'
    BY <1>1 DEF TypeOK, MakeEntity, NewObject, Persistent
<1>2. ASSUME NEW c \in Caller, NEW o \in Obj, DeleteNext(c, o) PROVE TypeOK'
    <2>1. acked' \subseteq Obj /\ gone' \subseteq Obj /\ ctx' \in C
        BY <1>2 DEF TypeOK, DeleteNext, Remove
    <2>2. /\ call' \in [Caller -> [op : {"none", "delete", "deleteAll"}, todo : SUBSET Obj]]
          /\ \A d \in Caller : call'[d].op = call[d].op
        BY <1>2 DEF TypeOK, DeleteNext
    <2> QED
        BY <1>2, <2>1, <2>2 DEF TypeOK, DeleteNext, Persistent
<1>3. ASSUME NEW c \in Caller, NEW o \in Obj, Delete(c, o) PROVE TypeOK'
    BY <1>3 DEF TypeOK, Delete, Remove, Persistent, Ends
<1>4. ASSUME NEW c \in Caller, NEW ms \in SUBSET Obj, Create(c, ms) PROVE TypeOK'
    <2>1. store' \in S /\ txSaved' \in BOOLEAN /\ acked' \subseteq Obj
        BY <1>4, SaveType DEF Create, SaveAndReport, SaveFails, TypeOK
    <2>2. result' \in [Caller -> {"none", "success", "error"}]
        BY <1>4 DEF Create, SaveAndReport, Ends, TypeOK
    <2> QED
        BY <1>4, <2>1, <2>2 DEF TypeOK, Create, Transaction
<1>5. ASSUME NEW c \in Caller, NEW ms \in SUBSET Obj, DeleteMany(c, ms) PROVE TypeOK'
    BY <1>5 DEF TypeOK, DeleteMany, Idle, history
<1>6. ASSUME NEW c \in Caller, DeleteAll(c) PROVE TypeOK'
    BY <1>6 DEF TypeOK, DeleteAll, Idle, Queue, Visible, Ends, history
<1>7. ASSUME NEW c \in Caller, DeleteReturns(c) PROVE TypeOK'
    BY <1>7 DEF TypeOK, DeleteReturns, Idle, NoCall, Ends, history
<1>8. ASSUME NEW c \in Caller, BeginTransaction(c) PROVE TypeOK'
    BY <1>8 DEF TypeOK, BeginTransaction, Idle, Queue, history
<1>9. ASSUME NEW c \in Caller, EndTransaction(c) PROVE TypeOK'
    <2>1. store' \in S /\ txSaved' \in BOOLEAN /\ ctx' \in C
        BY <1>9, SaveType DEF EndTransaction, SaveFails, TypeOK
    <2>2. result' \in [Caller -> {"none", "success", "error"}]
        BY <1>9 DEF EndTransaction, Ends, TypeOK
    <2>3. /\ owner' \in Caller \cup {NoCaller} /\ depth' \in 0 .. MaxDepth
          /\ owner' = NoCaller => depth' = 0
          /\ \A d \in Caller : call[d].op = "deleteAll" => owner' = d
        BY <1>9 DEF EndTransaction, TypeOK, Idle
    <2> QED
        BY <1>9, <2>1, <2>2, <2>3 DEF TypeOK, EndTransaction, history
<1>10. ASSUME NEW o \in Obj, NEW v \in Val, SetAttributes(o, v) PROVE TypeOK'
    BY <1>10 DEF TypeOK, SetAttributes, Persistent, history
<1>11. CASE Crash
    BY <1>11 DEF TypeOK, Crash, NoCall, Persistent, history
<1>12. CASE UNCHANGED vars
    BY <1>12 DEF TypeOK, vars, history
<1>13. held \subseteq Obj
    BY DEF TypeOK
<1> QED
    BY <1>1, <1>2, <1>3, <1>4, <1>5, <1>6, <1>7, <1>8, <1>9, <1>10, <1>11, <1>12, <1>13,
       NextCases DEF StepCases

\* The variables keep their types, and the queue is held exactly while its holder is in
\* a transaction or in deleteAll.
THEOREM TypeCorrect == Spec => []TypeOK
<1> QED
    BY TypeInit, TypeStep, PTL DEF Spec

-----------------------------------------------------------------------------
(* Stored objects.                                                         *)

LEMMA SurvivesStep == TypeOK /\ AckedSurvives /\ [Next]_vars => AckedSurvives'
<1> USE ConstantsOK
<1> SUFFICES ASSUME TypeOK, AckedSurvives, [Next]_vars PROVE AckedSurvives'
    OBVIOUS
\* Removing an object, or making one, takes it out of acked.
<1>1. ASSUME NEW c \in Caller, NEW o \in Obj, MakeEntity(c, o) PROVE AckedSurvives'
    BY <1>1 DEF AckedSurvives, TypeOK, MakeEntity, NewObject, Persistent
<1>2. ASSUME NEW c \in Caller, NEW o \in Obj, Remove(c, o), UNCHANGED store
      PROVE  AckedSurvives'
    BY <1>2 DEF AckedSurvives, TypeOK, Remove
<1>3. ASSUME NEW c \in Caller, NEW ms \in SUBSET Obj, Create(c, ms) PROVE AckedSurvives'
    BY <1>3 DEF AckedSurvives, TypeOK, Create, SaveAndReport, SaveSucceeds, SaveFails, Visible
<1>4. ASSUME NEW c \in Caller, EndTransaction(c) PROVE AckedSurvives'
    BY <1>4 DEF AckedSurvives, EndTransaction, SaveSucceeds, SaveFails, history
<1>5. ASSUME NEW o \in Obj, NEW v \in Val, SetAttributes(o, v) PROVE AckedSurvives'
    BY <1>5 DEF AckedSurvives, TypeOK, SetAttributes, Persistent, history
<1>6. CASE Crash
    BY <1>6 DEF AckedSurvives, Crash, Persistent, history
<1>7. CASE UNCHANGED <<store, ctx, acked>>
    BY <1>7 DEF AckedSurvives
<1>8. ASSUME NEW c \in Caller, NEW o \in Obj, Delete(c, o) \/ DeleteNext(c, o)
      PROVE  AckedSurvives'
    BY <1>2, <1>8 DEF Delete, DeleteNext, Persistent
<1>9. ASSUME NEW c \in Caller, NEW ms \in SUBSET Obj, DeleteMany(c, ms)
      PROVE  AckedSurvives'
    BY <1>7, <1>9 DEF DeleteMany, history
<1>10. ASSUME NEW c \in Caller, DeleteAll(c) \/ DeleteReturns(c) \/ BeginTransaction(c)
       PROVE  AckedSurvives'
    BY <1>7, <1>10 DEF DeleteAll, DeleteReturns, BeginTransaction, history
<1>11. CASE UNCHANGED vars
    BY <1>7, <1>11 DEF vars, history
<1>12. held \subseteq Obj
    BY DEF TypeOK
<1> QED
    BY <1>1, <1>3, <1>4, <1>5, <1>6, <1>8, <1>9, <1>10, <1>11, <1>12, NextCases
    DEF StepCases

\* What a create has stored stays, in the store and in what the context shows, until
\* somebody deletes it: no rollback and no crash takes it away.
THEOREM StoredObjectsSurvive == Spec => []AckedSurvives
<1>1. Init => AckedSurvives
    BY DEF Init, AckedSurvives
<1> QED
    BY <1>1, SurvivesStep, TypeCorrect, PTL DEF Spec

-----------------------------------------------------------------------------
(* Transactions.                                                           *)

\* As long as nothing is saved from inside it, a transaction sees the store it began with.
StoreKept == depth > 0 /\ ~txSaved => store = txStore

LEMMA KeptStep == TypeOK /\ StoreKept /\ [Next]_vars => StoreKept'
<1> USE ConstantsOK
<1> SUFFICES ASSUME TypeOK, StoreKept, [Next]_vars PROVE StoreKept'
    OBVIOUS
\* A save from outside the transaction does not get the queue; one from inside it that
\* is not counted had nothing to write.
<1>1. ASSUME NEW c \in Caller, SaveSucceeds(c), depth > 0, owner = c, ~txSaved'
      PROVE  store' = store /\ ~txSaved
    <2>1. Pending = {} /\ ~txSaved /\ store' = ctx
        BY <1>1 DEF SaveSucceeds, TypeOK
    <2>2. \A o \in Obj : ctx[o] = store[o]
        BY <2>1 DEF Pending
    <2> QED
        BY <2>1, <2>2 DEF TypeOK
<1>2. ASSUME NEW c \in Caller, NEW ms \in SUBSET Obj, Create(c, ms) PROVE StoreKept'
    <2> SUFFICES ASSUME depth' > 0, ~txSaved' PROVE store' = txStore'
        BY DEF StoreKept
    <2>1. depth > 0 /\ owner = c /\ txStore' = txStore
        BY <1>2 DEF Create, Transaction, Queue, TypeOK
    <2>2. store' = store /\ ~txSaved
        BY <1>1, <1>2, <2>1 DEF Create, SaveAndReport, SaveFails
    <2> QED
        BY <2>1, <2>2 DEF StoreKept
<1>3. ASSUME NEW c \in Caller, EndTransaction(c) PROVE StoreKept'
    <2> SUFFICES ASSUME depth' > 0, ~txSaved' PROVE store' = txStore'
        BY DEF StoreKept
    <2>1. depth > 0 /\ owner = c /\ txStore' = txStore
        BY <1>3 DEF EndTransaction
    <2>2. store' = store /\ ~txSaved
        BY <1>1, <1>3, <2>1 DEF EndTransaction, SaveFails
    <2> QED
        BY <2>1, <2>2 DEF StoreKept
<1>4. ASSUME NEW c \in Caller, BeginTransaction(c) PROVE StoreKept'
    BY <1>4 DEF StoreKept, BeginTransaction, TypeOK
<1>5. CASE Crash
    BY <1>5 DEF StoreKept, Crash
<1>6. CASE UNCHANGED <<store, depth, txStore, txSaved>>
    BY <1>6 DEF StoreKept
<1>7. ASSUME NEW c \in Caller, NEW o \in Obj,
             MakeEntity(c, o) \/ Delete(c, o) \/ DeleteNext(c, o)
      PROVE  StoreKept'
    BY <1>6, <1>7 DEF MakeEntity, Delete, DeleteNext, Persistent
<1>8. ASSUME NEW c \in Caller, NEW ms \in SUBSET Obj, DeleteMany(c, ms) PROVE StoreKept'
    BY <1>6, <1>8 DEF DeleteMany
<1>9. ASSUME NEW c \in Caller, DeleteAll(c) \/ DeleteReturns(c) PROVE StoreKept'
    BY <1>6, <1>9 DEF DeleteAll, DeleteReturns
<1>10. ASSUME NEW o \in Obj, NEW v \in Val, SetAttributes(o, v) PROVE StoreKept'
    BY <1>6, <1>10 DEF SetAttributes, Persistent
<1>11. CASE UNCHANGED vars
    BY <1>6, <1>11 DEF vars
<1>12. held \subseteq Obj
    BY DEF TypeOK
<1> QED
    BY <1>2, <1>3, <1>4, <1>5, <1>7, <1>8, <1>9, <1>10, <1>11, <1>12, NextCases DEF StepCases

\* A step that ends the outermost transaction with an error is a failed save and its
\* rollback.
LEMMA FailedEnd ==
    ASSUME TypeOK, StoreKept, [Next]_vars,
           NEW c \in Caller, owner = c, depth = 1, depth' = 0, result'[c] = "error", ~txSaved
    PROVE  store' = txStore /\ ctx' = txStore
<1> USE ConstantsOK
<1>1. ~Crash
    BY DEF Crash
<1>2. ~UNCHANGED depth
    OBVIOUS
<1>3. ASSUME NEW d \in Caller, EndTransaction(d) PROVE store' = txStore /\ ctx' = txStore
    <2>1. d = c
        BY <1>3 DEF EndTransaction
    <2>2. SaveFails /\ ctx' = store
        BY <1>3, <2>1 DEF EndTransaction, Ends, TypeOK
    <2> QED
        BY <2>2 DEF SaveFails, StoreKept
<1>4. ASSUME NEW d \in Caller, BeginTransaction(d) PROVE FALSE
    BY <1>4 DEF BeginTransaction
<1>5. ASSUME NEW d \in Caller, NEW o \in Obj,
             MakeEntity(d, o) \/ Delete(d, o) \/ DeleteNext(d, o)
      PROVE  FALSE
    BY <1>2, <1>5 DEF MakeEntity, Delete, DeleteNext
<1>6. ASSUME NEW d \in Caller, NEW ms \in SUBSET Obj, Create(d, ms) \/ DeleteMany(d, ms)
      PROVE  FALSE
    BY <1>2, <1>6 DEF Create, Transaction, DeleteMany
<1>7. ASSUME NEW d \in Caller, DeleteAll(d) \/ DeleteReturns(d) PROVE FALSE
    BY <1>2, <1>7 DEF DeleteAll, DeleteReturns
<1>8. ASSUME NEW o \in Obj, NEW v \in Val, SetAttributes(o, v) PROVE FALSE
    BY <1>2, <1>8 DEF SetAttributes
<1>9. ~UNCHANGED vars
    BY <1>2 DEF vars
<1>10. held \subseteq Obj
    BY DEF TypeOK
<1> QED
    BY <1>1, <1>3, <1>4, <1>5, <1>6, <1>7, <1>8, <1>9, <1>10, NextCases DEF StepCases

\* A performTranscation that fails without having saved anything undoes what its closure
\* did, and nobody's save slips in between.
THEOREM FailedTransactionsLeaveNoTrace == Spec => FailedTransactionLeavesNoTrace
<1>1. Init => StoreKept
    BY DEF Init, StoreKept
<1>2. TypeOK /\ StoreKept /\ [Next]_vars =>
        [\A c \in Caller :
            (owner = c /\ depth = 1 /\ depth' = 0 /\ result'[c] = "error" /\ ~txSaved)
            => store' = txStore /\ ctx' = txStore]_vars
    BY FailedEnd
<1> QED
    BY <1>1, <1>2, KeptStep, TypeCorrect, PTL DEF Spec, FailedTransactionLeavesNoTrace

-----------------------------------------------------------------------------
(* deleteAll.                                                              *)

\* While a deleteAll runs, all that the context shows is on its list.
Listed == \A c \in Caller : call[c].op = "deleteAll" => Visible \subseteq call[c].todo

LEMMA ListedStep == TypeOK /\ Listed /\ [Next]_vars => Listed'
<1> USE ConstantsOK
<1> SUFFICES ASSUME TypeOK, Listed, [Next]_vars,
                    NEW d \in Caller, call'[d].op = "deleteAll"
             PROVE  Visible' \subseteq call'[d].todo
    BY DEF Listed
\* Only the holder of the queue can be in a deleteAll; it does nothing else meanwhile.
<1>1. ASSUME NEW c \in Caller, Idle(c), owner \in {NoCaller, c} PROVE call[d].op # "deleteAll"
    BY <1>1 DEF Idle, TypeOK
<1>2. ASSUME call' = call, Visible' \subseteq Visible PROVE Visible' \subseteq call'[d].todo
    BY <1>2 DEF Listed
<1>3. ASSUME NEW c \in Caller, NEW o \in Obj, MakeEntity(c, o)
      PROVE  Visible' \subseteq call'[d].todo
    BY <1>1, <1>3 DEF MakeEntity, Queue
<1>4. ASSUME NEW c \in Caller, NEW o \in Obj, Remove(c, o) PROVE Visible' = Visible \ {o}
    BY <1>4 DEF Remove, Visible, TypeOK
<1>5. ASSUME NEW c \in Caller, NEW o \in Obj, Delete(c, o)
      PROVE  Visible' \subseteq call'[d].todo
    BY <1>2, <1>4, <1>5 DEF Delete
<1>6. ASSUME NEW c \in Caller, NEW o \in Obj, DeleteNext(c, o)
      PROVE  Visible' \subseteq call'[d].todo
    <2>1. Visible' = Visible \ {o}
        BY <1>4, <1>6 DEF DeleteNext
    <2>2. call'[d].op = call[d].op /\ call[d].todo \ {o} \subseteq call'[d].todo
        BY <1>6 DEF DeleteNext, TypeOK
    <2> QED
        BY <2>1, <2>2 DEF Listed
<1>7. ASSUME NEW c \in Caller, NEW ms \in SUBSET Obj, Create(c, ms)
      PROVE  Visible' \subseteq call'[d].todo
    BY <1>2, <1>7 DEF Create, Visible
<1>8. ASSUME NEW c \in Caller, NEW ms \in SUBSET Obj, DeleteMany(c, ms)
      PROVE  Visible' \subseteq call'[d].todo
    BY <1>8 DEF DeleteMany, Listed, Visible, TypeOK
<1>9. ASSUME NEW c \in Caller, DeleteAll(c) PROVE Visible' \subseteq call'[d].todo
    BY <1>9 DEF DeleteAll, Listed, Visible, TypeOK
<1>10. ASSUME NEW c \in Caller, DeleteReturns(c) PROVE Visible' \subseteq call'[d].todo
    BY <1>10 DEF DeleteReturns, NoCall, Listed, Visible, TypeOK
<1>11. ASSUME NEW c \in Caller, BeginTransaction(c) PROVE Visible' \subseteq call'[d].todo
    BY <1>2, <1>11 DEF BeginTransaction, Visible
<1>12. ASSUME NEW c \in Caller, EndTransaction(c) PROVE Visible' \subseteq call'[d].todo
    BY <1>1, <1>12 DEF EndTransaction
<1>13. ASSUME NEW o \in Obj, NEW v \in Val, SetAttributes(o, v)
       PROVE  Visible' \subseteq call'[d].todo
    BY <1>2, <1>13 DEF SetAttributes, Visible, TypeOK
<1>14. ~Crash
    BY DEF Crash, NoCall
<1>15. CASE UNCHANGED vars
    BY <1>2, <1>15 DEF vars, Visible
<1>16. held \subseteq Obj
    BY DEF TypeOK
<1> QED
    BY <1>3, <1>5, <1>6, <1>7, <1>8, <1>9, <1>10, <1>11, <1>12, <1>13, <1>14, <1>15, <1>16,
       NextCases DEF StepCases

\* A step in which a deleteAll returns.
LEMMA DeleteAllReturns ==
    ASSUME TypeOK, Listed, [Next]_vars, NEW c \in Caller,
           call[c].op = "deleteAll", call'[c].op = "none", result'[c] = "success"
    PROVE  Visible' = {}
<1> USE ConstantsOK
<1>1. ~Crash
    BY DEF Crash
<1>2. call'[c].op # call[c].op
    OBVIOUS
<1>3. ASSUME NEW d \in Caller, DeleteReturns(d) PROVE Visible' = {}
    <2>1. d = c
        BY <1>2, <1>3 DEF DeleteReturns, TypeOK
    <2> QED
        BY <1>3, <2>1 DEF DeleteReturns, Listed, Visible
<1>4. ASSUME NEW d \in Caller, NEW o \in Obj,
             MakeEntity(d, o) \/ Delete(d, o) \/ DeleteNext(d, o)
      PROVE  FALSE
    BY <1>2, <1>4 DEF MakeEntity, Delete, DeleteNext, TypeOK
<1>5. ASSUME NEW d \in Caller, NEW ms \in SUBSET Obj, Create(d, ms) \/ DeleteMany(d, ms)
      PROVE  FALSE
    BY <1>2, <1>5 DEF Create, DeleteMany, Idle, TypeOK
<1>6. ASSUME NEW d \in Caller, DeleteAll(d) \/ BeginTransaction(d) \/ EndTransaction(d)
      PROVE  FALSE
    BY <1>2, <1>6 DEF DeleteAll, BeginTransaction, EndTransaction, Idle, TypeOK
<1>7. ASSUME NEW o \in Obj, NEW v \in Val, SetAttributes(o, v) PROVE FALSE
    BY <1>2, <1>7 DEF SetAttributes
<1>8. ~UNCHANGED vars
    BY <1>2 DEF vars
<1>9. held \subseteq Obj
    BY DEF TypeOK
<1> QED
    BY <1>1, <1>3, <1>4, <1>5, <1>6, <1>7, <1>8, <1>9, NextCases DEF StepCases

\* A deleteAll that returns nil leaves nothing for getAll to return.
THEOREM DeleteAllsClear == Spec => DeleteAllClears
<1>1. Init => Listed
    BY DEF Init, Listed, NoCall
<1>2. TypeOK /\ Listed /\ [Next]_vars =>
        [\A c \in Caller :
            (call[c].op = "deleteAll" /\ call'[c].op = "none" /\ result'[c] = "success")
            => Visible' = {}]_vars
    BY DeleteAllReturns
<1> QED
    BY <1>1, <1>2, ListedStep, TypeCorrect, PTL DEF Spec, DeleteAllClears
===============================================================================
