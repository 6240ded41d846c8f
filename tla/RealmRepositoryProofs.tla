------------------------- MODULE RealmRepositoryProofs -------------------------
(***************************************************************************)
(* Proofs about RealmRepository, for any threads, keys and values, with    *)
(* commits that fail.                                                      *)
(***************************************************************************)
EXTENDS RealmRepository, TLAPS

LEMMA ChangeType ==
    ASSUME NEW D \in SUBSET Key, NEW c \in [D -> Val \cup {None}] PROVE c \in Change
BY DEF Change

LEMMA ChangeIs ==
    ASSUME NEW c \in Change
    PROVE  DOMAIN c \in SUBSET Key /\ \A k \in DOMAIN c : c[k] \in Val \cup {None}
BY DEF Change

LEMMA NoChangeType == NoChange \in Change
<1>1. NoChange \in [{} -> Val \cup {None}]
    BY DEF NoChange
<1> QED
    BY <1>1, ChangeType

LEMMA IdleType == Idle \in Call
BY NoChangeType DEF Idle, Call

\* The block of realm.write makes a version of a version, and changes what it touches.
LEMMA EffectType ==
    ASSUME TypeOK, NEW t \in Thread, NEW v \in Version
    PROVE  /\ Effect(t, v) \in Version
           /\ Touched(t) \subseteq Key
           /\ \A k \in Key \ Touched(t) : Effect(t, v)[k] = v[k]
<1>1. call[t] \in Call
    BY DEF TypeOK
<1>2. /\ DOMAIN call[t].change \in SUBSET Key
      /\ \A k \in DOMAIN call[t].change : call[t].change[k] \in Val \cup {None}
    BY <1>1, ChangeIs DEF Call
<1>3. CASE call[t].op = "deleteAll"
    BY <1>3 DEF Effect, Touched, Empty, Version
<1>4. CASE call[t].op = "perform"
    BY <1>2, <1>4 DEF Effect, Touched
<1>5. CASE call[t].op \notin {"deleteAll", "perform"}
    <2>1. Effect(t, v) = [k \in Key |-> IF k \in DOMAIN call[t].change
                                        THEN call[t].change[k] ELSE v[k]]
        BY <1>5 DEF Effect
    <2> QED
        BY <1>2, <1>5, <2>1 DEF Touched, Version
<1> QED
    BY <1>3, <1>4, <1>5

-----------------------------------------------------------------------------
(* The steps.                                                              *)

\* What a thread deletes, its Realm shows.
Shown(t, op, c) == op = "delete" => \A k \in DOMAIN c : view[t][k] # None

\* An operation that is called changes nothing but its thread's call.
LEMMA Calls ==
    ASSUME TypeOK, NEW t \in Thread,
           Create(t) \/ Delete(t) \/ DeleteAll(t) \/ PerformTransaction(t)
    PROVE  \E op \in {"create", "delete", "deleteAll", "perform"}, c \in Change :
                Begin(t, op, c) /\ Shown(t, op, c)
<1> USE DEF Shown
<1>1. CASE Create(t)
    <2>1. PICK D \in SUBSET Key : \E c \in [D -> Val] : Begin(t, "create", c)
        BY <1>1 DEF Create
    <2>2. PICK c \in [D -> Val] : Begin(t, "create", c)
        BY <2>1
    <2>3. c \in Change
        BY ChangeType
    <2> QED
        BY <2>2, <2>3
<1>2. CASE Delete(t)
    <2>1. PICK D \in SUBSET Key : /\ Begin(t, "delete", [k \in D |-> None])
                                  /\ \A k \in D : view[t][k] # None
        BY <1>2 DEF Delete
    <2>2. [k \in D |-> None] \in Change
        BY ChangeType
    <2> QED
        BY <2>1, <2>2
<1>3. CASE DeleteAll(t) \/ PerformTransaction(t)
    BY <1>3, NoChangeType DEF DeleteAll, PerformTransaction
<1> QED
    BY <1>1, <1>2, <1>3

LEMMA Updates ==
    ASSUME NEW t \in Thread, NEW k \in Key, NEW v \in Val, Update(t, k, v)
    PROVE  \/ \E c \in Change : Begin(t, "create", c)
           \/ /\ At(t, "idle") /\ Returns(t, "noOriginalObject")
              /\ UNCHANGED <<file, view, gone, writer, dead, own>>
<1>1. [j \in {k} |-> v] \in Change
    BY ChangeType
<1> QED
    BY <1>1 DEF Update

\* The steps, once: what the proofs below split on.
StepCases(t) ==
    \/ \E op \in {"create", "delete", "deleteAll", "perform"}, c \in Change :
            Begin(t, op, c) /\ Shown(t, op, c)
    \/ /\ At(t, "idle") /\ Returns(t, "noOriginalObject")
       /\ UNCHANGED <<file, view, gone, writer, dead, own>>
    \/ \E k \in Key, v \in Val : SetProperty(t, k, v)
    \/ Write(t) \/ Die \/ EndClosure(t) \/ Commit(t) \/ Refresh(t)

LEMMA NextCases ==
    ASSUME TypeOK, [Next]_vars
    PROVE  (\E t \in Thread : StepCases(t)) \/ Relaunch \/ UNCHANGED vars
<1>1. ASSUME NEW t \in Thread,
             Create(t) \/ Delete(t) \/ DeleteAll(t) \/ PerformTransaction(t)
      PROVE  StepCases(t)
    BY <1>1, Calls DEF StepCases
<1>2. ASSUME NEW t \in Thread, NEW k \in Key, NEW v \in Val, Update(t, k, v)
      PROVE  StepCases(t)
    BY <1>2, Updates DEF StepCases, Shown
<1>3. ASSUME NEW t \in Thread, NEW k \in Key, NEW v \in Val, SetProperty(t, k, v)
      PROVE  StepCases(t)
    BY <1>3 DEF StepCases
<1>4. ASSUME NEW t \in Thread, Step(t) \/ CallInClosure(t) \/ Refresh(t)
      PROVE  StepCases(t)
    BY <1>4 DEF StepCases, Step, WriteLost, WriteNested, CallInClosure
<1> QED
    BY <1>1, <1>2, <1>3, <1>4 DEF Next

-----------------------------------------------------------------------------
(* Types.                                                                  *)

LEMMA TypeInit == Init => TypeOK
<1> SUFFICES ASSUME Init PROVE TypeOK
    OBVIOUS
<1>1. call \in [Thread -> Call]
    BY IdleType DEF Init
<1>2. \A t \in Thread : call[t].pc = "idle"
    BY DEF Init, Idle
<1>3. view \in [Thread -> Version] /\ result \in [Thread -> {"none"}]
    BY DEF Init
<1> QED
    BY <1>1, <1>2, <1>3 DEF Init, TypeOK

LEMMA TypeStep == TypeOK /\ [Next]_vars => TypeOK'
<1> USE ConstantsOK
<1> SUFFICES ASSUME TypeOK, [Next]_vars PROVE TypeOK'
    OBVIOUS
<1>1. ASSUME NEW t \in Thread, NEW op \in {"create", "delete", "deleteAll", "perform"},
             NEW c \in Change, Begin(t, op, c)
      PROVE  TypeOK'
    <2>1. [op |-> op, pc |-> "begin", change |-> c] \in Call
        BY DEF Call, Ops
    <2>2. call' \in [Thread -> Call]
        BY <1>1, <2>1 DEF Begin, TypeOK
    <2>3. \A u \in Thread : call'[u].pc \in {"closure", "commit"} => call[u].pc = call'[u].pc
        BY <1>1 DEF Begin, TypeOK
    <2> QED
        BY <1>1, <2>2, <2>3 DEF Begin, TypeOK
<1>2. ASSUME NEW t \in Thread, NEW r \in {"success", "error", "noOriginalObject"}, Returns(t, r)
      PROVE  /\ call' \in [Thread -> Call]
             /\ result' \in [Thread -> {"none", "success", "error", "noOriginalObject"}]
             /\ \A u \in Thread :
                    call'[u].pc \in {"closure", "commit"} => call[u].pc = call'[u].pc
    <2>1. call' \in [Thread -> Call]
        BY <1>2, IdleType DEF Returns, TypeOK
    <2>2. \A u \in Thread : call'[u] = call[u] \/ call'[u].pc = "idle"
        BY <1>2 DEF Returns, TypeOK, Idle
    <2> QED
        BY <1>2, <2>1, <2>2 DEF Returns, TypeOK
<1>3. ASSUME NEW t \in Thread, Returns(t, "noOriginalObject"),
             UNCHANGED <<file, view, gone, writer, dead, own>>
      PROVE  TypeOK'
    BY <1>2, <1>3 DEF TypeOK
<1>4. ASSUME NEW t \in Thread, NEW k \in Key, NEW v \in Val, SetProperty(t, k, v)
      PROVE  TypeOK'
    <2>1. view' \in [Thread -> Version]
        BY <1>4 DEF SetProperty, TypeOK, Version
    <2> QED
        BY <1>4, <2>1 DEF SetProperty, TypeOK
<1>5. ASSUME NEW t \in Thread, Write(t) PROVE TypeOK'
    <2>1. view' \in [Thread -> Version] /\ own' \subseteq Key
        BY <1>5, EffectType DEF Write, Enters, TypeOK
    <2>2. call' \in [Thread -> Call]
        BY <1>5 DEF Write, Enters, TypeOK, Call
    <2>3. \A u \in Thread : u # t => call'[u].pc \notin {"closure", "commit"}
        BY <1>5 DEF Write, Enters, TypeOK
    <2> QED
        BY <1>5, <2>1, <2>2, <2>3 DEF Write, Enters, TypeOK
<1>6. CASE Die
    BY <1>6 DEF Die, TypeOK
<1>7. ASSUME NEW t \in Thread, EndClosure(t) PROVE TypeOK'
    <2>1. call' \in [Thread -> Call]
        BY <1>7 DEF EndClosure, TypeOK, Call
    <2> QED
        BY <1>7, <2>1 DEF EndClosure, At, TypeOK
<1>8. ASSUME NEW t \in Thread, Commit(t) PROVE TypeOK'
    <2>1. CASE Takes(t) /\ Returns(t, "success") /\ writer' = Nobody /\ file' = view[t] /\ own' = {}
        <3>1. gone' \in [Thread -> SUBSET Key]
            BY <2>1 DEF Takes, TypeOK
        <3>2. ASSUME NEW u \in Thread PROVE call'[u].pc \notin {"closure", "commit"}
            <4>1. CASE u = t
                BY <2>1, <4>1 DEF Returns, Idle, TypeOK
            <4>2. CASE u # t
                BY <1>8, <2>1, <4>2 DEF Commit, Returns, At, TypeOK
            <4> QED
                BY <4>1, <4>2
        <3> QED
            BY <1>2, <1>8, <2>1, <3>1, <3>2 DEF Commit, TypeOK
    <2>2. CASE Returns(t, "error") /\ UNCHANGED <<file, gone, writer, own>>
        BY <1>2, <1>8, <2>2 DEF Commit, TypeOK
    <2> QED
        BY <1>8, <2>1, <2>2 DEF Commit
<1>9. ASSUME NEW t \in Thread, Refresh(t) PROVE TypeOK'
    BY <1>9 DEF Refresh, TypeOK
<1>10. CASE Relaunch
    <2>1. call' \in [Thread -> Call] /\ \A u \in Thread : call'[u].pc = "idle"
        BY <1>10, IdleType DEF Relaunch, Idle
    <2> QED
        BY <1>10, <2>1 DEF Relaunch, TypeOK
<1>11. CASE UNCHANGED vars
    BY <1>11 DEF vars, TypeOK
<1> QED
    BY <1>1, <1>3, <1>4, <1>5, <1>6, <1>7, <1>8, <1>9, <1>10, <1>11, NextCases DEF StepCases

\* The variables keep their types, and only the writer is inside realm.write.
THEOREM TypeCorrect == Spec => []TypeOK
<1> QED
    BY TypeInit, TypeStep, PTL DEF Spec

-----------------------------------------------------------------------------
(* What is committed.                                                      *)

\* The writer's Realm differs from the file in the keys that it has touched only.
Isolated == \A t \in Thread : writer = t => \A k \in Key \ own : view[t][k] = file[k]

LEMMA IsolatedStep == TypeOK /\ Isolated /\ [Next]_vars => Isolated'
<1> USE ConstantsOK
<1> SUFFICES ASSUME TypeOK, Isolated, [Next]_vars PROVE Isolated'
    OBVIOUS
<1>1. ASSUME NEW t \in Thread, Write(t) PROVE Isolated'
    <2>1. writer' = t /\ view'[t] = Effect(t, file) /\ own' = Touched(t) /\ file' = file
        BY <1>1 DEF Write, Enters, TypeOK
    <2>2. \A k \in Key \ Touched(t) : Effect(t, file)[k] = file[k]
        BY EffectType DEF TypeOK
    <2> QED
        BY <2>1, <2>2 DEF Isolated
<1>2. ASSUME NEW t \in Thread, NEW k \in Key, NEW v \in Val, SetProperty(t, k, v)
      PROVE  Isolated'
    BY <1>2 DEF SetProperty, Isolated, TypeOK, Version
<1>3. ASSUME NEW t \in Thread, Commit(t) PROVE Isolated'
    BY <1>3 DEF Commit, Isolated
<1>4. ASSUME NEW t \in Thread, Refresh(t) PROVE Isolated'
    BY <1>4 DEF Refresh, Isolated, TypeOK
<1>5. CASE Relaunch
    BY <1>5 DEF Relaunch, Isolated
<1>6. CASE UNCHANGED <<file, view, writer, own>>
    BY <1>6 DEF Isolated
<1>7. ASSUME NEW t \in Thread, NEW op, NEW c, Begin(t, op, c) PROVE Isolated'
    BY <1>6, <1>7 DEF Begin
<1>8. CASE UNCHANGED vars \/ Die \/ \E t \in Thread : EndClosure(t)
    BY <1>6, <1>8 DEF vars, Die, EndClosure
<1> QED
    BY <1>1, <1>2, <1>3, <1>4, <1>5, <1>6, <1>7, <1>8, NextCases DEF StepCases

\* The file changes in a commit only.
LEMMA FileChanges ==
    ASSUME TypeOK, [Next]_vars, file' # file
    PROVE  \E t \in Thread : Commit(t) /\ file' = view[t] /\ writer = t
<1>1. \A t \in Thread : Commit(t) => file' = view[t] /\ writer = t
    BY DEF Commit, At, TypeOK
<1>2. \A t \in Thread : StepCases(t) => Commit(t)
    BY DEF StepCases, Begin, SetProperty, Write, Die, EndClosure, Refresh
<1>3. ~Relaunch /\ ~UNCHANGED vars
    BY DEF Relaunch, vars
<1> QED
    BY <1>1, <1>2, <1>3, NextCases

\* A commit stores what its operation changed, on top of all that others have stored.
THEOREM CommitsAreOwn == Spec => OnlyOwnChangesCommitted
<1>1. Init => Isolated
    BY ConstantsOK DEF Init, Isolated
<1>2. TypeOK /\ Isolated /\ [Next]_vars => [\A k \in Key : file'[k] # file[k] => k \in own]_vars
    <2> SUFFICES ASSUME TypeOK, Isolated, [Next]_vars, NEW k \in Key, file'[k] # file[k]
                 PROVE  k \in own
        OBVIOUS
    <2>1. PICK t \in Thread : file' = view[t] /\ writer = t
        BY FileChanges
    <2> QED
        BY <2>1 DEF Isolated
<1> QED
    BY <1>1, <1>2, IsolatedStep, TypeCorrect, PTL DEF Spec, OnlyOwnChangesCommitted

-----------------------------------------------------------------------------
(* deleteAll.                                                              *)

\* Between deleteAll's block and its commit, its Realm shows no object; closures are
\* those of performTranscation.
Cleared ==
    \A t \in Thread :
        /\ call[t].op = "deleteAll" /\ call[t].pc = "commit" => view[t] = Empty
        /\ call[t].pc = "closure" => call[t].op = "perform"

LEMMA ClearedStep == TypeOK /\ Cleared /\ [Next]_vars => Cleared'
<1> USE ConstantsOK
<1> DEFINE Ok(t) == /\ call[t].op = "deleteAll" /\ call[t].pc = "commit" => view[t] = Empty
                    /\ call[t].pc = "closure" => call[t].op = "perform"
<1> SUFFICES ASSUME TypeOK, Cleared, [Next]_vars, NEW t \in Thread PROVE Ok(t)'
    BY DEF Cleared
<1>0. Ok(t) /\ call[t] \in Call
    BY DEF Cleared, TypeOK
\* Steps that leave what the call of t is at alone.
<1>1. ASSUME call'[t].op = call[t].op, call'[t].pc = call[t].pc, view'[t] = view[t]
      PROVE  Ok(t)'
    BY <1>0, <1>1
<1>2. ASSUME call'[t].pc \in {"idle", "begin"} PROVE Ok(t)'
    BY <1>2
<1>3. ASSUME NEW u \in Thread, Write(u) PROVE Ok(t)'
    <2>1. CASE u = t
        BY <1>0, <1>3, <2>1 DEF Write, Enters, TypeOK, Effect, Call
    <2>2. CASE u # t
        BY <1>1, <1>3, <2>2 DEF Write, Enters, TypeOK
    <2> QED
        BY <2>1, <2>2
<1>4. ASSUME NEW u \in Thread, NEW k \in Key, NEW v \in Val, SetProperty(u, k, v)
      PROVE  Ok(t)'
    BY <1>0, <1>4 DEF SetProperty, TypeOK
<1>5. ASSUME NEW u \in Thread, NEW r, Returns(u, r), UNCHANGED view PROVE Ok(t)'
    BY <1>1, <1>2, <1>5 DEF Returns, Idle, TypeOK
<1>6. ASSUME NEW u \in Thread, Commit(u) PROVE Ok(t)'
    BY <1>5, <1>6 DEF Commit
<1>7. ASSUME NEW u \in Thread, Refresh(u) PROVE Ok(t)'
    BY <1>0, <1>7 DEF Refresh, At, TypeOK
<1>8. CASE Relaunch
    BY <1>2, <1>8 DEF Relaunch, Idle
<1>9. ASSUME NEW u \in Thread, NEW op, NEW c, Begin(u, op, c) PROVE Ok(t)'
    BY <1>1, <1>2, <1>9 DEF Begin, TypeOK
<1>10. ASSUME NEW u \in Thread, EndClosure(u) PROVE Ok(t)'
    BY <1>0, <1>10 DEF EndClosure, At, TypeOK, Call
<1>11. CASE Die \/ UNCHANGED vars
    BY <1>1, <1>11 DEF Die, vars
<1> QED
    BY <1>3, <1>4, <1>5, <1>6, <1>7, <1>8, <1>9, <1>10, <1>11, NextCases DEF StepCases

\* A step in which a deleteAll returns nil.
LEMMA DeleteAllReturns ==
    ASSUME TypeOK, Cleared, [Next]_vars, NEW t \in Thread,
           call[t].op = "deleteAll", call[t].pc = "commit",
           call'[t].pc = "idle", result'[t] = "success"
    PROVE  file' = Empty
<1> USE ConstantsOK
<1>1. writer = t /\ view[t] = Empty
    BY DEF TypeOK, Cleared
<1>2. ASSUME NEW u \in Thread, Commit(u) PROVE file' = Empty
    <2>1. u = t
        BY <1>1, <1>2 DEF Commit, At, TypeOK
    <2>2. ~Returns(t, "error")
        BY DEF Returns, TypeOK
    <2> QED
        BY <1>1, <1>2, <2>1, <2>2 DEF Commit
<1>3. ASSUME NEW u \in Thread, NEW op, NEW c, Begin(u, op, c) PROVE FALSE
    BY <1>3 DEF Begin, At, TypeOK
<1>4. ASSUME NEW u \in Thread, Returns(u, "noOriginalObject") PROVE FALSE
    BY <1>4 DEF Returns, TypeOK
<1>5. ASSUME NEW u \in Thread, NEW k \in Key, NEW v \in Val, SetProperty(u, k, v)
      PROVE  FALSE
    BY <1>5 DEF SetProperty
<1>6. ASSUME NEW u \in Thread, Write(u) \/ EndClosure(u) \/ Refresh(u) PROVE FALSE
    BY <1>1, <1>6 DEF Write, Enters, EndClosure, Refresh, At, TypeOK
<1>7. ~Die /\ ~UNCHANGED vars /\ ~Relaunch
    BY DEF Die, vars, Relaunch
<1> QED
    BY <1>2, <1>3, <1>4, <1>5, <1>6, <1>7, NextCases DEF StepCases

\* A deleteAll that returns nil leaves no object in the file, not even one that another
\* thread stored while it waited for the write lock.
THEOREM DeleteAllsClear == Spec => DeleteAllClears
<1>1. Init => Cleared
    <2>1. Idle.pc = "idle"
        BY DEF Idle
    <2>2. ASSUME Init, NEW t \in Thread PROVE call[t].pc = "idle"
        BY <2>1, <2>2 DEF Init
    <2> QED
        BY <2>2 DEF Cleared
<1>2. TypeOK /\ Cleared /\ [Next]_vars =>
        [\A t \in Thread :
            (/\ call[t].op = "deleteAll" /\ At(t, "commit")
             /\ result'[t] = "success" /\ At(t, "idle")')
            => file' = Empty]_vars
    BY DeleteAllReturns DEF At
<1> QED
    BY <1>1, <1>2, ClearedStep, TypeCorrect, PTL DEF Spec, DeleteAllClears

-----------------------------------------------------------------------------
(* delete.                                                                 *)

\* What a Realm shows and nobody has deleted since is in the file; what its thread is
\* about to delete, it shows.  The Realm of a writer shows its own changes as well.
Seen ==
    \A t \in Thread : writer # t =>
        /\ \A k \in Key \ gone[t] : view[t][k] # None => file[k] # None
        /\ call[t].pc = "begin" => Shown(t, call[t].op, call[t].change)

\* Between delete's block and its commit, the file holds what it is deleting.
Found ==
    \A t \in Thread :
        call[t].pc = "commit" /\ call[t].op = "delete"
            => \A k \in DOMAIN call[t].change : file[k] # None

LEMMA SeenStep == TypeOK /\ Seen /\ [Next]_vars => Seen'
<1> USE ConstantsOK
<1> DEFINE Ok(t) == writer # t =>
                /\ \A k \in Key \ gone[t] : view[t][k] # None => file[k] # None
                /\ call[t].pc = "begin" => Shown(t, call[t].op, call[t].change)
<1> SUFFICES ASSUME TypeOK, Seen, [Next]_vars, NEW t \in Thread PROVE Ok(t)'
    BY DEF Seen
<1>0. Ok(t) /\ call[t] \in Call
    BY DEF Seen, TypeOK
<1>1. ASSUME view'[t] = view[t], gone'[t] = gone[t], file' = file, writer' = writer,
             call'[t] = call[t] \/ call'[t].pc # "begin"
      PROVE  Ok(t)'
    BY <1>0, <1>1 DEF Shown
<1>2. ASSUME NEW u \in Thread, NEW op, NEW c, Begin(u, op, c), Shown(u, op, c) PROVE Ok(t)'
    <2>1. CASE u = t
        BY <1>0, <1>2, <2>1 DEF Begin, TypeOK, Shown
    <2>2. CASE u # t
        BY <1>1, <1>2, <2>2 DEF Begin, TypeOK
    <2> QED
        BY <2>1, <2>2
<1>3. ASSUME NEW u \in Thread, Write(u) PROVE Ok(t)'
    <2>1. u # t => UNCHANGED <<view[t], gone[t], call[t], file>> /\ writer # t
        BY <1>3 DEF Write, Enters, TypeOK
    <2> QED
        BY <1>0, <1>3, <2>1 DEF Write, Enters, Shown
<1>4. ASSUME NEW u \in Thread, NEW k \in Key, NEW v \in Val, SetProperty(u, k, v)
      PROVE  Ok(t)'
    BY <1>0, <1>4 DEF SetProperty, TypeOK, Shown
<1>5. ASSUME NEW u \in Thread, Commit(u) PROVE Ok(t)'
    <2>1. CASE Returns(u, "error") /\ UNCHANGED <<file, gone, writer, own>>
        BY <1>1, <1>5, <2>1 DEF Commit, Returns, Idle, TypeOK
    <2>2. CASE Takes(u) /\ Returns(u, "success") /\ file' = view[u] /\ u = t
        BY <1>5, <2>2 DEF Commit, Takes, Returns, Idle, TypeOK
    <2>3. CASE Takes(u) /\ Returns(u, "success") /\ file' = view[u] /\ u # t
        <3>1. /\ call'[t] = call[t] /\ view' = view /\ writer # t
              /\ gone'[t] = gone[t] \cup {k \in Key : file[k] # None /\ view[u][k] = None}
            BY <1>5, <2>3 DEF Commit, At, Takes, Returns, TypeOK
        <3> QED
            BY <1>0, <2>3, <3>1 DEF Shown
    <2> QED
        BY <1>5, <2>1, <2>2, <2>3 DEF Commit
<1>6. ASSUME NEW u \in Thread, Refresh(u) PROVE Ok(t)'
    <2>1. CASE u = t
        BY <1>0, <1>6, <2>1 DEF Refresh, At, TypeOK
    <2>2. CASE u # t
        BY <1>1, <1>6, <2>2 DEF Refresh, TypeOK
    <2> QED
        BY <2>1, <2>2
<1>7. CASE Relaunch
    BY <1>7 DEF Relaunch, Idle
<1>8. ASSUME NEW u \in Thread, EndClosure(u) \/ Returns(u, "noOriginalObject"),
             UNCHANGED <<file, view, gone, writer>>
      PROVE  Ok(t)'
    <2>1. call'[t] = call[t] \/ call'[t].pc # "begin"
        <3>1. CASE EndClosure(u)
            BY <3>1 DEF EndClosure, TypeOK, Call
        <3>2. CASE Returns(u, "noOriginalObject")
            BY <3>2 DEF Returns, Idle, TypeOK
        <3> QED
            BY <1>8, <3>1, <3>2
    <2> QED
        BY <1>1, <1>8, <2>1
<1>9. CASE Die \/ UNCHANGED vars
    BY <1>1, <1>9 DEF Die, vars
<1> QED
    BY <1>2, <1>3, <1>4, <1>5, <1>6, <1>7, <1>8, <1>9, NextCases DEF StepCases, EndClosure

LEMMA FoundStep == TypeOK /\ Cleared /\ Seen /\ Found /\ [Next]_vars => Found'
<1> USE ConstantsOK
<1> DEFINE Ok(t) == call[t].pc = "commit" /\ call[t].op = "delete"
                        => \A k \in DOMAIN call[t].change : file[k] # None
<1> SUFFICES ASSUME TypeOK, Cleared, Seen, Found, [Next]_vars, NEW t \in Thread PROVE Ok(t)'
    BY DEF Found
<1>0. Ok(t) /\ call[t] \in Call
    BY DEF Found, TypeOK
<1>1. ASSUME file' = file, call'[t] = call[t] \/ call'[t].pc # "commit" PROVE Ok(t)'
    BY <1>0, <1>1
<1>2. ASSUME NEW u \in Thread, Write(u) PROVE Ok(t)'
    <2>1. CASE u = t
        <3>1. /\ call'[t].op = call[t].op /\ call'[t].change = call[t].change
              /\ file' = file /\ writer # t /\ call[t].pc = "begin" /\ ~Lost(t)
            BY <1>0, <1>2, <2>1 DEF Write, Enters, At, TypeOK, Call
        <3>2. Shown(t, call[t].op, call[t].change)
            BY <3>1 DEF Seen
        <3>3. DOMAIN call[t].change \in SUBSET Key
            BY <1>0, ChangeIs DEF Call
        <3> QED
            BY <3>1, <3>2, <3>3 DEF Seen, Shown, Lost
    <2>2. CASE u # t
        BY <1>1, <1>2, <2>2 DEF Write, Enters, TypeOK
    <2> QED
        BY <2>1, <2>2
<1>3. ASSUME NEW u \in Thread, Commit(u) PROVE Ok(t)'
    <2>1. CASE u = t
        BY <1>3, <2>1 DEF Commit, Returns, Idle, TypeOK
    <2>2. CASE u # t
        BY <1>3, <2>2 DEF Commit, Returns, At, TypeOK
    <2> QED
        BY <2>1, <2>2
<1>4. ASSUME NEW u \in Thread, NEW op, NEW c, Begin(u, op, c) PROVE Ok(t)'
    BY <1>1, <1>4 DEF Begin, TypeOK
<1>5. ASSUME NEW u \in Thread, EndClosure(u) PROVE Ok(t)'
    <2>1. CASE u = t
        BY <1>0, <1>5, <2>1 DEF EndClosure, At, TypeOK, Call, Cleared
    <2>2. CASE u # t
        BY <1>1, <1>5, <2>2 DEF EndClosure, TypeOK
    <2> QED
        BY <2>1, <2>2
<1>6. CASE Relaunch
    BY <1>1, <1>6 DEF Relaunch, Idle
<1>7. ASSUME NEW u \in Thread, Returns(u, "noOriginalObject"), UNCHANGED file PROVE Ok(t)'
    BY <1>1, <1>7 DEF Returns, Idle, TypeOK
<1>8. ASSUME call' = call, file' = file PROVE Ok(t)'
    BY <1>1, <1>8
<1> QED
    BY <1>2, <1>3, <1>4, <1>5, <1>6, <1>7, <1>8, NextCases
    DEF StepCases, SetProperty, Refresh, Die, vars

\* A delete that returns nil has found every object it was given in the file, wherever
\* the version was that the caller's Realm showed and however long it waited.
THEOREM DeletesFindTheirObjects == Spec => DeletesWhatIsStored
<1>1. Init => Cleared /\ Seen /\ Found
    <2>1. Idle.pc = "idle"
        BY DEF Idle
    <2>2. ASSUME Init, NEW t \in Thread PROVE call[t].pc = "idle" /\ view[t] = file
        BY <2>1, <2>2 DEF Init
    <2> QED
        BY <2>2 DEF Cleared, Seen, Found
<1>2. TypeOK /\ Found /\ [Next]_vars =>
        [\A t \in Thread :
            (/\ call[t].op = "delete" /\ At(t, "commit")
             /\ result'[t] = "success" /\ At(t, "idle")')
            => \A k \in DOMAIN call[t].change : file[k] # None]_vars
    BY DEF Found, At
<1> QED
    BY <1>1, <1>2, ClearedStep, SeenStep, FoundStep, TypeCorrect, PTL
       DEF Spec, DeletesWhatIsStored

-----------------------------------------------------------------------------
(* The refinement.                                                         *)

\* A thread between the block and the commit of create, delete or deleteAll shows what
\* the operation makes of what is stored.
Decided ==
    \A t \in Thread :
        /\ call[t].pc # "idle" => call[t].op \in Ops
        /\ call[t].pc = "commit" /\ call[t].op # "perform" => view[t] = Effect(t, file)

LEMMA DecidedInit == Init => Decided
<1>1. Idle.pc = "idle"
    BY DEF Idle
<1>2. ASSUME Init, NEW t \in Thread PROVE call[t].pc = "idle"
    BY <1>1, <1>2 DEF Init
<1> QED
    BY <1>2 DEF Decided

LEMMA DecidedStep == TypeOK /\ Decided /\ Cleared /\ [Next]_vars => Decided'
<1> USE ConstantsOK
<1> DEFINE Ok(t) == /\ call[t].pc # "idle" => call[t].op \in Ops
                    /\ call[t].pc = "commit" /\ call[t].op # "perform"
                        => view[t] = Effect(t, file)
<1> SUFFICES ASSUME TypeOK, Decided, Cleared, [Next]_vars, NEW t \in Thread PROVE Ok(t)'
    BY DEF Decided
<1>0. Ok(t) /\ call[t] \in Call
    BY DEF Decided, TypeOK
<1>1. ASSUME call'[t].op = call[t].op, call'[t].pc = call[t].pc,
             call'[t].change = call[t].change, view'[t] = view[t],
             file' = file \/ call[t].pc # "commit"
      PROVE  Ok(t)'
    BY <1>0, <1>1 DEF Effect
<1>2. ASSUME call'[t].pc = "idle" PROVE Ok(t)'
    BY <1>2
<1>3. ASSUME NEW u \in Thread, Write(u) PROVE Ok(t)'
    <2>1. CASE u = t
        <3>1. /\ call'[t].op = call[t].op /\ call'[t].change = call[t].change
              /\ view'[t] = Effect(t, file) /\ file' = file
            BY <1>0, <1>3, <2>1 DEF Write, Enters, TypeOK, Call
        <3>2. call[t].op \in Ops
            BY <1>0, <1>3, <2>1 DEF Write, Enters, At
        <3> QED
            BY <3>1, <3>2 DEF Effect
    <2>2. CASE u # t
        BY <1>1, <1>3, <2>2 DEF Write, Enters, TypeOK
    <2> QED
        BY <2>1, <2>2
<1>4. ASSUME NEW u \in Thread, NEW k \in Key, NEW v \in Val, SetProperty(u, k, v)
      PROVE  Ok(t)'
    <2>1. CASE u = t
        BY <1>0, <1>4, <2>1 DEF SetProperty
    <2>2. CASE u # t
        BY <1>1, <1>4, <2>2 DEF SetProperty, TypeOK
    <2> QED
        BY <2>1, <2>2
<1>5. ASSUME NEW u \in Thread, NEW r, Returns(u, r), UNCHANGED <<file, view>> PROVE Ok(t)'
    BY <1>1, <1>2, <1>5 DEF Returns, Idle, TypeOK
<1>6. ASSUME NEW u \in Thread, Commit(u) PROVE Ok(t)'
    <2>1. CASE Returns(u, "error") /\ file' = file
        BY <1>5, <1>6, <2>1 DEF Commit
    <2>2. CASE Returns(u, "success") /\ u # t
        <3>1. call[t].pc # "commit" /\ call'[t] = call[t]
            BY <1>6, <2>2 DEF Commit, Returns, At, TypeOK
        <3> QED
            BY <1>1, <1>6, <3>1 DEF Commit
    <2>3. CASE Returns(u, "success") /\ u = t
        BY <1>2, <2>3 DEF Returns, Idle, TypeOK
    <2> QED
        BY <1>6, <2>1, <2>2, <2>3 DEF Commit
<1>7. ASSUME NEW u \in Thread, Refresh(u) PROVE Ok(t)'
    BY <1>0, <1>7 DEF Refresh, At, TypeOK, Effect
<1>8. CASE Relaunch
    BY <1>2, <1>8 DEF Relaunch, Idle
<1>9. ASSUME NEW u \in Thread, NEW op \in Ops, NEW c, Begin(u, op, c) PROVE Ok(t)'
    BY <1>1, <1>9 DEF Begin, TypeOK
<1>10. ASSUME NEW u \in Thread, EndClosure(u) PROVE Ok(t)'
    <2>1. CASE u = t
        BY <1>0, <1>10, <2>1 DEF EndClosure, At, TypeOK, Call, Cleared
    <2>2. CASE u # t
        BY <1>1, <1>10, <2>2 DEF EndClosure, TypeOK
    <2> QED
        BY <2>1, <2>2
<1>11. CASE Die \/ UNCHANGED vars
    BY <1>1, <1>11 DEF Die, vars
<1>12. ASSUME NEW u \in Thread, At(u, "idle") /\ Returns(u, "noOriginalObject"),
              UNCHANGED <<file, view, gone, writer, dead, own>>
       PROVE  Ok(t)'
    BY <1>5, <1>12
<1> QED
    BY <1>3, <1>4, <1>6, <1>7, <1>8, <1>9, <1>10, <1>11, <1>12, NextCases DEF StepCases, Ops

\* What the abstract repository sees of the calls and of the results.
Pending == [t \in Thread |-> Operation(t)]
Told    == [t \in Thread |-> IF dead THEN "none" ELSE result[t]]

\* A step that changes neither what is stored nor an operation or its result is no
\* step of the abstract repository.
LEMMA Stutters ==
    ASSUME TypeOK, dead' = dead, file' = file, result' = result,
           \A t \in Thread : /\ call'[t].op = call[t].op
                             /\ call'[t].change = call[t].change
                             /\ call'[t].pc = "idle" <=> call[t].pc = "idle"
    PROVE  UNCHANGED Abstract!vars
<1>1. \A t \in Thread : Operation(t)' = Operation(t)
    BY DEF Operation, At
<1>2. Pending' = Pending /\ Told' = Told
    BY <1>1 DEF Pending, Told
<1> QED
    BY <1>2 DEF Abstract!vars, Pending, Told

LEMMA BeginIsCall ==
    ASSUME TypeOK, dead = FALSE, NEW t \in Thread, NEW op \in Ops, NEW c \in Change,
           Begin(t, op, c)
    PROVE  Abstract!Call(t, op, c)
<1>1. /\ call'[t].pc = "begin" /\ call'[t].op = op /\ call'[t].change = c
      /\ \A u \in Thread \ {t} : call'[u] = call[u]
      /\ dead' = FALSE /\ result' = result /\ file' = file
    BY DEF Begin, TypeOK
<1>2. Operation(t) = Nobody
    BY DEF Begin, Operation
<1>3. Operation(t)' = [op |-> op, change |-> c]
    BY <1>1 DEF Operation, At
<1>4. \A u \in Thread \ {t} : Operation(u)' = Operation(u)
    BY <1>1 DEF Operation, At
<1>5. Pending' = [Pending EXCEPT ![t] = [op |-> op, change |-> c]]
    BY <1>3, <1>4 DEF Pending
<1>6. Told' = Told
    BY <1>1 DEF Told
<1> QED
    BY <1>1, <1>2, <1>5, <1>6 DEF Abstract!Call, Pending, Told

\* How a call ends, be it with a success or an error.
LEMMA ReturnIsReturn ==
    ASSUME TypeOK, dead = FALSE, dead' = FALSE, NEW t \in Thread, NEW r,
           result' = [result EXCEPT ![t] = r],
           call'[t] = Idle,
           \A u \in Thread \ {t} : /\ call'[u].op = call[u].op
                                   /\ call'[u].change = call[u].change
                                   /\ call'[u].pc = call[u].pc
    PROVE  Abstract!Returns(t, r)
<1>1. Operation(t)' = Nobody
    BY DEF Operation, At, Idle
<1>2. \A u \in Thread \ {t} : Operation(u)' = Operation(u)
    BY DEF Operation, At
<1>3. Pending' = [Pending EXCEPT ![t] = Nobody]
    BY <1>1, <1>2 DEF Pending
<1>4. Told' = [Told EXCEPT ![t] = r]
    BY DEF Told, TypeOK
<1> QED
    BY <1>3, <1>4 DEF Abstract!Returns, Pending, Told

\* An operation that runs is one of the abstract repository's.
LEMMA Runs ==
    ASSUME TypeOK, Decided, dead = FALSE, NEW t \in Thread, call[t].pc # "idle"
    PROVE  /\ Operation(t) = [op |-> call[t].op, change |-> call[t].change]
           /\ Operation(t) # Nobody
<1>1. Operation(t) = [op |-> call[t].op, change |-> call[t].change]
    BY DEF Operation, At
<1>2. call[t].op \in Ops /\ call[t].change \in Change
    BY DEF Decided, TypeOK, Call
<1> QED
    BY <1>1, <1>2, ConstantsOK

LEMMA CommitIsReturn ==
    ASSUME TypeOK, Decided, dead = FALSE, NEW t \in Thread, Commit(t)
    PROVE  Abstract!Succeed(t) \/ Abstract!Fail(t)
<1>1. /\ call[t].pc = "commit" /\ dead' = FALSE
      /\ Pending[t] = [op |-> call[t].op, change |-> call[t].change]
      /\ Pending[t] # Nobody
    BY Runs DEF Commit, At, Pending
<1>2. CASE Returns(t, "error") /\ file' = file
    <2>1. /\ result' = [result EXCEPT ![t] = "error"] /\ call'[t] = Idle
          /\ \A u \in Thread \ {t} : call'[u] = call[u]
        BY <1>2 DEF Returns, TypeOK
    <2>2. Abstract!Returns(t, "error")
        BY <1>1, <2>1, ReturnIsReturn
    <2> QED
        BY <1>1, <1>2, <2>2 DEF Abstract!Fail, Pending
<1>3. CASE file' = view[t] /\ Returns(t, "success")
    <2>1. /\ result' = [result EXCEPT ![t] = "success"] /\ call'[t] = Idle
          /\ \A u \in Thread \ {t} : call'[u] = call[u]
        BY <1>3 DEF Returns, TypeOK
    <2>2. Abstract!Returns(t, "success")
        BY <1>1, <1>3, <2>1, ReturnIsReturn
    <2>3. view[t] \in Version
        BY DEF TypeOK
    <2>4. ASSUME call[t].op = "perform" PROVE file' \in Abstract!Outcomes(Pending[t])
        BY <1>1, <1>3, <2>3, <2>4 DEF Abstract!Outcomes, Abstract!Contents, Version, Pending
    <2>5. ASSUME call[t].op # "perform" PROVE file' \in Abstract!Outcomes(Pending[t])
        <3>1. file' = Effect(t, file)
            BY <1>1, <1>3, <2>5 DEF Decided
        <3>2. Effect(t, file) \in Abstract!Outcomes(Pending[t])
            BY <1>1, <2>5 DEF Effect, Abstract!Outcomes, Abstract!Empty, Empty
        <3> QED
            BY <3>1, <3>2
    <2>6. file' \in Abstract!Outcomes(Pending[t])
        BY <2>4, <2>5
    <2> QED
        BY <1>1, <2>2, <2>6 DEF Abstract!Succeed, Pending
<1> QED
    BY <1>2, <1>3 DEF Commit

\* Every step of the threads is a step of the abstract repository or none.
LEMMA Simulates ==
    TypeOK /\ Decided /\ [Next]_vars => [Abstract!Next]_(Abstract!vars)
<1> SUFFICES ASSUME TypeOK, Decided, [Next]_vars
             PROVE  Abstract!Next \/ UNCHANGED Abstract!vars
    OBVIOUS
<1>1. CASE UNCHANGED vars
    <2>1. Pending' = Pending /\ Told' = Told
        BY <1>1 DEF vars, Pending, Told, Operation, At
    <2> QED
        BY <1>1, <2>1 DEF vars, Abstract!vars, Pending, Told
<1>2. CASE Relaunch
    <2>1. Pending' = Pending
        BY <1>2 DEF Relaunch, Pending, Operation, At, Idle
    <2>2. Told' = Told
        BY <1>2 DEF Relaunch, Told
    <2> QED
        BY <1>2, <2>1, <2>2 DEF Relaunch, Abstract!vars, Pending, Told
<1>3. CASE Die
    <2>1. Pending' = [t \in Thread |-> Nobody] /\ Told' = [t \in Thread |-> "none"]
        BY <1>3 DEF Die, Pending, Told, Operation
    <2>2. Abstract!Crash
        BY <1>3, <2>1 DEF Die, Abstract!Crash, Pending, Told
    <2> QED
        BY <2>2 DEF Abstract!Next
<1>4. CASE dead /\ ~Relaunch /\ ~UNCHANGED vars
    BY <1>4 DEF Next
<1>5. ASSUME dead = FALSE, NEW t \in Thread, NEW op \in Ops, NEW c \in Change, Begin(t, op, c)
      PROVE  Abstract!Next
    BY <1>5, BeginIsCall DEF Abstract!Next, Abstract!Change, Change, Ops
<1>6. ASSUME dead = FALSE, NEW t \in Thread, At(t, "idle"), Returns(t, "noOriginalObject"),
             UNCHANGED <<file, view, gone, writer, dead, own>>
      PROVE  Abstract!Next
    <2>1. \A u \in Thread : Operation(u)' = Operation(u)
        BY <1>6 DEF Returns, Operation, At, Idle, TypeOK
    <2>2. Pending' = Pending /\ Pending[t] = Nobody
        BY <1>6, <2>1 DEF Pending, Operation
    <2>3. Told' = [Told EXCEPT ![t] = "noOriginalObject"]
        BY <1>6 DEF Returns, Told, TypeOK
    <2>4. Abstract!Refuse(t)
        BY <1>6, <2>2, <2>3 DEF Abstract!Refuse, Pending, Told
    <2> QED
        BY <2>4 DEF Abstract!Next
<1>7. ASSUME dead = FALSE, NEW t \in Thread,
             (\E k \in Key, v \in Val : SetProperty(t, k, v)) \/ Refresh(t)
      PROVE  UNCHANGED Abstract!vars
    <2>1. dead' = dead /\ file' = file /\ result' = result /\ call' = call
        BY <1>7 DEF SetProperty, Refresh
    <2> QED
        BY <2>1, Stutters
<1>8. ASSUME dead = FALSE, NEW t \in Thread, Write(t) \/ EndClosure(t)
      PROVE  UNCHANGED Abstract!vars
    <2>1. dead' = dead /\ file' = file /\ result' = result
        BY <1>8 DEF Write, Enters, EndClosure
    <2>2. ASSUME NEW u \in Thread
          PROVE  /\ call'[u].op = call[u].op /\ call'[u].change = call[u].change
                 /\ call'[u].pc = "idle" <=> call[u].pc = "idle"
        BY <1>8 DEF Write, Enters, EndClosure, At, TypeOK, Call
    <2> QED
        BY <2>1, <2>2, Stutters
<1>9. ASSUME dead = FALSE, NEW t \in Thread, Commit(t) PROVE Abstract!Next
    BY <1>9, CommitIsReturn DEF Abstract!Next
<1>10. dead \in BOOLEAN
    BY DEF TypeOK
<1> QED
    BY <1>1, <1>2, <1>3, <1>4, <1>5, <1>6, <1>7, <1>8, <1>9, <1>10, NextCases
       DEF StepCases, Ops

\* The repositories of all threads implement the abstract repository.
THEOREM Implements == Spec => ImplementsRepository
<1>1. Init => Abstract!Init
    <2> SUFFICES ASSUME Init PROVE Abstract!Init
        OBVIOUS
    <2>1. Pending = [t \in Thread |-> Nobody] /\ Told = [t \in Thread |-> "none"]
        BY DEF Init, Pending, Told, Operation, At, Idle
    <2> QED
        BY <2>1 DEF Init, Abstract!Init, Abstract!Contents, Version, Pending, Told
<1>2. Init => Cleared
    <2>1. Init => Decided /\ \A t \in Thread : call[t].pc = "idle"
        BY DecidedInit DEF Init, Idle
    <2> QED
        BY <2>1 DEF Cleared
<1> QED
    BY <1>1, <1>2, DecidedInit, DecidedStep, ClearedStep, Simulates, TypeCorrect, PTL
       DEF Spec, ImplementsRepository, Abstract!Spec
===============================================================================
