------------------------- MODULE CollectionNotifierProofs -------------------------
(***************************************************************************)
(* For any number of versions and callbacks:                               *)
(*                                                                         *)
(* TypeOK and NothingTwice, whatever is Allowed.  The strengthening NTInv  *)
(* orders the versions that the worker deals with, and says of the changes *)
(* in a callback how far they go.                                          *)
(*                                                                         *)
(* NothingLost, InStep and SparedNotTold, if nothing is Allowed.  The      *)
(* strengthening DeliveryInv adds what the notifier and the thread that    *)
(* writes know of each other, which version a callback skips next, and     *)
(* what each callback has got when a round of calls has come to its place. *)
(***************************************************************************)
EXTENDS CollectionNotifier, FiniteSetTheorems, TLAPS

\* The worker goes forward: from the notifier's version to the one to be skipped to the
\* one it has collected; a version that is still to be skipped comes after these.
Forward ==
    /\ notifier.version <= latest
    /\ worker.pc # "idle" =>
          /\ worker.version \in Version /\ worker.version <= latest
          /\ notifier.version <= worker.version
    /\ worker.pc = "skip" =>
          /\ worker.skip \in Version /\ worker.skip <= worker.version
          /\ notifier.version <= worker.skip
    /\ skip # 0 =>
          /\ skip <= latest /\ notifier.version <= skip
          /\ worker.pc # "idle" => worker.version <= skip

\* The changes in a callback are old ones, none in two places; while callbacks are called
\* those that gather are newer than those that are told.
Apart(t) ==
    /\ callbacks[t].accumulated \subseteq 1 .. notifier.version
    /\ callbacks[t].toDeliver \subseteq 1 .. notifier.version
    /\ callbacks[t].accumulated \cap callbacks[t].toDeliver = {}
    /\ callbacks[t].initial =>
          /\ told[t] \subseteq 1 .. notifier.version
          /\ told[t] \cap callbacks[t].accumulated = {}
          /\ told[t] \cap callbacks[t].toDeliver = {}
    /\ thread.pc = "round" =>
          thread.to <= notifier.version /\ callbacks[t].accumulated \cap 1 .. thread.to = {}

NTInv == TypeOK /\ Forward /\ \A t \in Token : Apart(t)

-----------------------------------------------------------------------------

LEMMA VersionIsNat ==
    /\ MaxVersion \in Nat /\ 1 \in Version
    /\ \A v \in Version : v \in Nat /\ 1 <= v /\ v <= MaxVersion
BY ConstantsOK DEF Version

LEMMA OnCounts == Cardinality(On) \in Int
<1>1. IsFiniteSet(Token)
  BY FS_Interval, ConstantsOK DEF Token
<1>2. IsFiniteSet(On)
  BY <1>1, FS_Subset DEF On
<1> QED BY <1>2, FS_CardinalityType

LEMMA NTInvInit == Init => NTInv
<1> SUFFICES ASSUME Init PROVE NTInv
  OBVIOUS
<1>0. NoCallback \in Callback
  BY DEF NoCallback, Callback
<1>1. TypeOK
  <2>1. IdleThread \in Thread /\ IdleWorker \in Worker /\ 0 \in 0 .. MaxVersion
    BY VersionIsNat DEF Thread, IdleThread, Worker, IdleWorker
  <2>2. [version |-> 1, hasRun |-> FALSE, registered |-> FALSE] \in Notifier
    BY VersionIsNat DEF Notifier
  <2>3. 0 \in 0 .. MaxToken /\ 1 \in 1 .. MaxToken + 1 /\ -1 \in Int
    BY ConstantsOK
  <2> QED BY <1>0, <2>1, <2>2, <2>3, VersionIsNat DEF Init, TypeOK
<1>2. Forward
  BY DEF Init, Forward, IdleWorker
<1>3. ASSUME NEW t \in Token PROVE Apart(t)
  BY <1>3 DEF Init, Apart, NoCallback, IdleThread
<1> QED BY <1>1, <1>2, <1>3 DEF NTInv

-----------------------------------------------------------------------------

\* What the worker and the commits leave alone.
LEMMA ForwardStays ==
    ASSUME Forward, UNCHANGED <<latest, workerVars, skip>>
    PROVE  Forward'
BY DEF Forward, workerVars

\* A callback that nothing is done to.
LEMMA ApartStays ==
    ASSUME NEW t \in Token, Apart(t), UNCHANGED notifier,
           callbacks'[t] = callbacks[t], told'[t] = told[t],
           thread'.pc = "round" => thread'.pc = thread.pc /\ thread'.to = thread.to
    PROVE  Apart(t)'
BY DEF Apart

\* package_for_delivery before a round that goes to the notifier's version.
LEMMA Packaged ==
    ASSUME NTInv, Package, UNCHANGED <<notifier, told>>,
           thread'.pc = "round" => thread'.to = notifier.version
    PROVE  /\ callbacks' \in [Token -> Callback] /\ count' \in Int
           /\ \A t \in Token : Apart(t)'
<1>1. callbacks' \in [Token -> Callback]
  BY DEF Package, NTInv, TypeOK, Callback
<1>2. ASSUME NEW t \in Token PROVE Apart(t)'
  <2>1. /\ callbacks'[t].accumulated = {}
        /\ callbacks'[t].toDeliver = callbacks[t].accumulated
        /\ callbacks'[t].initial = callbacks[t].initial
    BY DEF Package, NTInv, TypeOK, Callback
  <2>2. notifier.version \in Int
    BY VersionIsNat DEF NTInv, TypeOK, Notifier
  <2>3. notifier.version <= notifier.version
    BY <2>2
  <2> QED BY <2>1, <2>3 DEF NTInv, Apart
<1> QED BY <1>1, <1>2, OnCounts DEF Package

\* RunTo moves the notifier forward.
LEMMA Ran ==
    ASSUME NTInv, NEW v \in Version, notifier.version <= v, RunTo(v), UNCHANGED <<thread, told>>
    PROVE  /\ callbacks' \in [Token -> Callback] /\ notifier' \in Notifier
           /\ notifier'.version = v
           /\ \A t \in Token : Apart(t)'
<1>1. notifier' \in Notifier /\ notifier'.version = v /\ notifier.version \in Version
  BY DEF RunTo, NTInv, TypeOK, Notifier
<1> DEFINE changes == IF notifier.hasRun THEN notifier.version + 1 .. v ELSE {}
<1>2. changes \subseteq Version /\ changes \subseteq 1 .. v /\ changes \cap 1 .. notifier.version = {}
  BY <1>1, VersionIsNat, ConstantsOK DEF Version
<1>3. ASSUME NEW t \in Token
      PROVE  /\ callbacks'[t] \in Callback
             /\ callbacks'[t].toDeliver = callbacks[t].toDeliver
             /\ callbacks'[t].initial = callbacks[t].initial
             /\ \/ callbacks'[t].accumulated = callbacks[t].accumulated
                \/ callbacks'[t].accumulated = callbacks[t].accumulated \cup changes
  <2>1. callbacks[t] \in Callback
    BY DEF NTInv, TypeOK
  <2>2. callbacks'[t] =
            IF callbacks[t].skipNext THEN [callbacks[t] EXCEPT !.skipNext = FALSE]
            ELSE IF callbacks[t].on
                 THEN [callbacks[t] EXCEPT !.accumulated = callbacks[t].accumulated \cup changes]
                 ELSE callbacks[t]
    BY DEF RunTo
  <2> QED BY <1>2, <2>1, <2>2 DEF Callback
<1>4. callbacks' \in [Token -> Callback]
  BY <1>3 DEF RunTo
<1>5. ASSUME NEW t \in Token PROVE Apart(t)'
  <2>1. 1 .. notifier.version \subseteq 1 .. v
    BY <1>1, VersionIsNat
  <2>2. /\ callbacks'[t].accumulated \subseteq 1 .. v /\ callbacks'[t].toDeliver \subseteq 1 .. v
        /\ callbacks'[t].accumulated \cap callbacks'[t].toDeliver = {}
    BY <1>2, <1>3, <2>1 DEF NTInv, Apart
  <2>3. callbacks'[t].initial =>
            /\ told[t] \subseteq 1 .. v
            /\ told[t] \cap callbacks'[t].accumulated = {}
            /\ told[t] \cap callbacks'[t].toDeliver = {}
    BY <1>2, <1>3, <2>1 DEF NTInv, Apart
  <2>4. ASSUME thread.pc = "round"
        PROVE  thread.to <= v /\ callbacks'[t].accumulated \cap 1 .. thread.to = {}
    <3>1. thread.to \in Int /\ thread.to <= notifier.version
      BY <2>4, ConstantsOK DEF NTInv, Apart, TypeOK, Thread
    <3>2. thread.to <= v /\ 1 .. thread.to \subseteq 1 .. notifier.version
      BY <1>1, <3>1, VersionIsNat
    <3> QED BY <1>2, <1>3, <2>4, <3>2 DEF NTInv, Apart
  <2> QED BY <1>1, <2>2, <2>3, <2>4 DEF Apart
<1> QED BY <1>1, <1>4, <1>5

-----------------------------------------------------------------------------

\* Steps that touch neither the callbacks nor what the worker has done.
LEMMA NothingDelivered ==
    ASSUME NTInv, TypeOK', Forward', UNCHANGED <<notifier, callbacks, told>>,
           thread'.pc = "round" => thread'.pc = thread.pc /\ thread'.to = thread.to
    PROVE  NTInv'
<1>1. ASSUME NEW t \in Token PROVE Apart(t)'
  BY ApartStays DEF NTInv
<1> QED BY <1>1 DEF NTInv

\* Steps that change nothing else about callbacks than one of them.
LEMMA OneCallback ==
    ASSUME NTInv, TypeOK', Forward', UNCHANGED <<notifier, thread>>, NEW t \in Token, Apart(t)',
           \A u \in Token \ {t} : callbacks'[u] = callbacks[u] /\ told'[u] = told[u]
    PROVE  NTInv'
<1>1. ASSUME NEW u \in Token PROVE Apart(u)'
  BY ApartStays DEF NTInv
<1> QED BY <1>1 DEF NTInv

LEMMA AddCallbackInv ==
    ASSUME NTInv, NEW t \in Token, AddCallback(t)
    PROVE  NTInv'
<1> DEFINE new == [NoCallback EXCEPT !.on = TRUE]
<1>1. new \in Callback /\ new.accumulated = {} /\ new.toDeliver = {} /\ ~new.initial
  BY DEF NoCallback, Callback
<1>2. callbacks' = [callbacks EXCEPT ![t] = new] /\ callbacks'[t] = new
  BY DEF AddCallback, NTInv, TypeOK
<1> HIDE DEF new
<1>3. next' \in 1 .. MaxToken + 1
  BY ConstantsOK DEF AddCallback, NTInv, TypeOK, Token
<1>4. callbacks' \in [Token -> Callback]
  BY <1>1, <1>2 DEF NTInv, TypeOK
<1>5. have' \in BOOLEAN /\ wake' \in BOOLEAN
  BY DEF AddCallback, NTInv, TypeOK
<1>6. TypeOK'
  BY <1>3, <1>4, <1>5 DEF AddCallback, NTInv, TypeOK, workerVars, history
<1>7. Forward'
  BY DEF AddCallback, NTInv, Forward, workerVars
<1>8. Apart(t)'
  BY <1>1, <1>2 DEF AddCallback, NTInv, Apart, workerVars, history
<1> QED BY <1>2, <1>6, <1>7, <1>8, OneCallback DEF AddCallback, workerVars, history

LEMMA RemoveCallbackInv ==
    ASSUME NTInv, NEW t \in Token, RemoveCallback(t)
    PROVE  NTInv'
<1>1. NoCallback \in Callback /\ NoCallback.accumulated = {} /\ NoCallback.toDeliver = {} /\ ~NoCallback.initial
  BY DEF NoCallback, Callback
<1>2. callbacks' = [callbacks EXCEPT ![t] = NoCallback] /\ callbacks'[t] = NoCallback
  BY DEF RemoveCallback, NTInv, TypeOK
<1>3. callbacks' \in [Token -> Callback]
  BY <1>1, <1>2 DEF NTInv, TypeOK
<1>4. count' \in Int /\ have' \in BOOLEAN
  BY DEF RemoveCallback, NTInv, TypeOK
<1>5. TypeOK'
  BY <1>3, <1>4 DEF RemoveCallback, NTInv, TypeOK, workerVars, history
<1>6. Forward'
  BY DEF RemoveCallback, NTInv, Forward, workerVars
<1>7. Apart(t)'
  BY <1>1, <1>2 DEF RemoveCallback, NTInv, Apart, workerVars, history
<1> QED BY <1>2, <1>5, <1>6, <1>7, OneCallback DEF RemoveCallback, workerVars, history

\* A round that begins is one of the notifier's version.
LEMMA RoundOK ==
    ASSUME NTInv, NEW v \in Version, Round(v)
    PROVE  thread' \in Thread /\ thread'.pc = "round" /\ thread'.to = v
<1>1. thread \in Thread
  BY DEF NTInv, TypeOK
<1>2. v \in 0 .. MaxVersion
  BY VersionIsNat
<1>3. thread' = [thread EXCEPT !.pc = "round", !.to = v]
  BY DEF Round
<1> QED BY <1>1, <1>2, <1>3 DEF Thread

LEMMA NotifyInv ==
    ASSUME NTInv, Notify
    PROVE  NTInv'
<1>1. /\ UNCHANGED <<notifier, worker, latest, skip, told>>
      /\ UNCHANGED <<spared, writing, asked, at, next, have, wake>>
  BY DEF Notify, workerVars, history
<1>2. thread.pc = "idle" /\ signal' = FALSE
  BY DEF Notify
<1>3. Forward'
  BY <1>1 DEF NTInv, Forward
<1>4. notifier.version \in Version /\ latest \in Version /\ shown \in Version
  BY DEF NTInv, TypeOK, Notifier
<1>5. CASE UNCHANGED <<callbacks, count, thread>> /\ shown' \in Version
  <2>1. TypeOK'
    BY <1>1, <1>2, <1>5 DEF NTInv, TypeOK
  <2> QED BY <1>1, <1>3, <1>5, <2>1, NothingDelivered
<1>6. CASE Package /\ Round(notifier.version) /\ shown' \in Version
  <2>1. thread' \in Thread /\ thread'.to = notifier.version
    BY <1>4, <1>6, RoundOK
  <2>2. callbacks' \in [Token -> Callback] /\ count' \in Int /\ \A t \in Token : Apart(t)'
    BY <1>1, <1>6, <2>1, Packaged
  <2>3. TypeOK'
    BY <1>1, <1>2, <1>6, <2>1, <2>2 DEF NTInv, TypeOK
  <2> QED BY <1>3, <2>2, <2>3 DEF NTInv
<1>7. CASE Package /\ UNCHANGED <<shown, thread>>
  <2>1. callbacks' \in [Token -> Callback] /\ count' \in Int /\ \A t \in Token : Apart(t)'
    BY <1>1, <1>2, <1>7, Packaged
  <2>2. TypeOK'
    BY <1>1, <1>2, <1>7, <2>1 DEF NTInv, TypeOK
  <2> QED BY <1>3, <2>1, <2>2 DEF NTInv
<1> QED BY <1>4, <1>5, <1>6, <1>7 DEF Notify, DeliverAvailable, AdvanceToReady

LEMMA WaitInv ==
    ASSUME NTInv, NEW op \in {"refresh", "begin"}, Wait(op)
    PROVE  NTInv'
<1>1. thread' \in Thread /\ thread'.pc # "round"
  BY VersionIsNat DEF Wait, Thread, NTInv, TypeOK
<1>2. wake' \in BOOLEAN
  BY DEF Wait, NTInv, TypeOK
<1>3. TypeOK'
  BY <1>1, <1>2 DEF Wait, NTInv, TypeOK, workerVars, history
<1>4. Forward'
  BY DEF Wait, NTInv, Forward, workerVars
<1> QED BY <1>1, <1>3, <1>4, NothingDelivered DEF Wait, workerVars, history

LEMMA ProceedInv ==
    ASSUME NTInv, Proceed
    PROVE  NTInv'
<1>1. /\ UNCHANGED <<notifier, worker, latest, skip, told>>
      /\ UNCHANGED <<spared, asked, at, next, have, wake, signal>>
      /\ thread.pc = "wait"
  BY DEF Proceed, workerVars, history
<1>2. Forward'
  BY <1>1 DEF NTInv, Forward
<1>3. writing' \in {"no", "outer", "inner"}
  BY DEF Proceed
<1>4. notifier.version \in Version /\ latest \in Version
  BY DEF NTInv, TypeOK, Notifier
<1>5. CASE notifier.hasRun
  <2>1. Package
    BY <1>5 DEF Proceed
  <2>2. /\ shown' \in Version /\ thread' \in Thread
        /\ thread'.pc = "round" => thread'.to = notifier.version
    <3>1. CASE notifier.version >= thread.to
      BY <1>4, <1>5, <3>1, RoundOK DEF Proceed
    <3>2. CASE ~(notifier.version >= thread.to)
      BY <1>4, <3>2, VersionIsNat DEF Proceed, IdleThread, Thread
    <3> QED BY <3>1, <3>2
  <2>3. callbacks' \in [Token -> Callback] /\ count' \in Int /\ \A t \in Token : Apart(t)'
    BY <1>1, <2>1, <2>2, Packaged
  <2>4. TypeOK'
    BY <1>1, <1>3, <2>2, <2>3 DEF NTInv, TypeOK
  <2> QED BY <1>2, <2>3, <2>4 DEF NTInv
<1>6. CASE ~notifier.hasRun
  <2>1. UNCHANGED <<callbacks, count>> /\ shown' \in Version /\ thread' = IdleThread
    BY <1>4, <1>6 DEF Proceed
  <2>2. thread' \in Thread /\ thread'.pc # "round"
    BY <2>1, VersionIsNat DEF IdleThread, Thread
  <2>3. TypeOK'
    BY <1>1, <1>3, <2>1, <2>2 DEF NTInv, TypeOK
  <2> QED BY <1>1, <1>2, <2>1, <2>2, <2>3, NothingDelivered
<1> QED BY <1>5, <1>6

LEMMA CallNextInv ==
    ASSUME NTInv, NEW t \in Token, CallNext(t)
    PROVE  NTInv'
<1> DEFINE cb == callbacks[t]
           news == IF cb.initial THEN told[t] \cup cb.toDeliver ELSE 1 .. thread.to
<1>1. cb \in Callback /\ thread.pc = "round" /\ Apart(t) /\ told[t] \subseteq Version
  BY DEF CallNext, NTInv, TypeOK
<1>2. /\ callbacks' = [callbacks EXCEPT ![t] = [cb EXCEPT !.initial = TRUE, !.toDeliver = {}]]
      /\ told' = [told EXCEPT ![t] = news]
  BY DEF CallNext, NTInv, TypeOK
<1>3. /\ callbacks'[t] \in Callback /\ callbacks'[t].accumulated = cb.accumulated
      /\ callbacks'[t].toDeliver = {} /\ told'[t] = news
  BY <1>1, <1>2 DEF Callback, NTInv, TypeOK
<1>4. thread.to \in Int /\ thread.to <= notifier.version /\ notifier.version \in Int
      /\ notifier.version <= MaxVersion
  BY <1>1, VersionIsNat DEF Apart, NTInv, TypeOK, Thread, Notifier
<1>5. 1 .. thread.to \subseteq 1 .. notifier.version /\ 1 .. thread.to \subseteq Version
  BY <1>4, ConstantsOK DEF Version
<1>6. news \subseteq Version /\ news \subseteq 1 .. notifier.version /\ news \cap cb.accumulated = {}
  BY <1>1, <1>5 DEF Apart, Callback
<1>7. spared' \in [Token -> SUBSET Version]
  BY DEF CallNext, NTInv, TypeOK
<1>8. callbacks' \in [Token -> Callback] /\ told' \in [Token -> SUBSET Version]
  BY <1>2, <1>3, <1>6 DEF NTInv, TypeOK
<1>9. at' \in 0 .. MaxToken
  BY ConstantsOK DEF CallNext, Token
<1>10. TypeOK'
  BY <1>7, <1>8, <1>9 DEF CallNext, NTInv, TypeOK, workerVars
<1>11. Forward'
  BY DEF CallNext, NTInv, Forward, workerVars
<1>12. Apart(t)'
  BY <1>1, <1>3, <1>6 DEF CallNext, Apart, workerVars
<1>13. UNCHANGED <<notifier, thread>>
  BY DEF CallNext, workerVars
<1>14. ASSUME NEW u \in Token \ {t}
       PROVE  callbacks'[u] = callbacks[u] /\ told'[u] = told[u]
  BY <1>2 DEF NTInv, TypeOK
<1> HIDE DEF cb, news
<1> QED BY <1>10, <1>11, <1>12, <1>13, <1>14, OneCallback

LEMMA FinishRoundInv ==
    ASSUME NTInv, FinishRound
    PROVE  NTInv'
<1>1. thread' \in Thread /\ thread'.pc # "round" /\ at' \in 0 .. MaxToken
  BY VersionIsNat, ConstantsOK DEF FinishRound, IdleThread, Thread
<1>2. TypeOK'
  BY <1>1 DEF FinishRound, NTInv, TypeOK, workerVars, history
<1>3. Forward'
  BY DEF FinishRound, NTInv, Forward, workerVars
<1> QED BY <1>1, <1>2, <1>3, NothingDelivered DEF FinishRound, workerVars, history

-----------------------------------------------------------------------------

LEMMA BeginInCallbackInv ==
    ASSUME NTInv, BeginInCallback
    PROVE  NTInv'
<1>1. TypeOK'
  BY DEF BeginInCallback, NTInv, TypeOK, workerVars, history
<1>2. Forward'
  BY DEF BeginInCallback, NTInv, Forward, workerVars
<1> QED BY <1>1, <1>2, NothingDelivered DEF BeginInCallback, workerVars, history

LEMMA SuppressInv ==
    ASSUME NTInv, NEW S \in SUBSET Token, Suppress(S)
    PROVE  NTInv'
<1>1. ASSUME NEW t \in Token
      PROVE  /\ callbacks'[t] \in Callback
             /\ callbacks'[t].accumulated = callbacks[t].accumulated
             /\ callbacks'[t].toDeliver = callbacks[t].toDeliver
             /\ callbacks'[t].initial = callbacks[t].initial
  <2>1. callbacks[t] \in Callback
    BY DEF NTInv, TypeOK
  <2>2. callbacks'[t] = IF t \in S THEN [callbacks[t] EXCEPT !.skipNext = TRUE] ELSE callbacks[t]
    BY DEF Suppress
  <2> QED BY <2>1, <2>2 DEF Callback
<1>2. callbacks' \in [Token -> Callback]
  BY <1>1 DEF Suppress
<1>3. TypeOK'
  BY <1>2 DEF Suppress, NTInv, TypeOK, workerVars, history
<1>4. Forward'
  BY DEF Suppress, NTInv, Forward, workerVars
<1>5. ASSUME NEW t \in Token PROVE Apart(t)'
  BY <1>1 DEF Suppress, NTInv, Apart, workerVars, history
<1> QED BY <1>3, <1>4, <1>5 DEF NTInv

LEMMA CancelInv ==
    ASSUME NTInv, Cancel
    PROVE  NTInv'
<1>1. TypeOK'
  BY DEF Cancel, NTInv, TypeOK, workerVars, history
<1>2. Forward'
  BY DEF Cancel, NTInv, Forward, workerVars
<1> QED BY <1>1, <1>2, NothingDelivered DEF Cancel, workerVars, history

\* A commit comes after everything the worker deals with.
LEMMA ForwardGrows ==
    ASSUME NTInv, latest < MaxVersion, latest' = latest + 1, UNCHANGED <<notifier, worker>>,
           skip' = skip \/ skip' = latest + 1
    PROVE  Forward' /\ latest' \in Version /\ skip' \in 0 .. MaxVersion
<1>1. /\ latest \in Nat /\ latest >= 1 /\ notifier.version \in Nat /\ MaxVersion \in Nat
      /\ skip \in 0 .. MaxVersion
      /\ worker.version \in 0 .. MaxVersion
  BY VersionIsNat DEF NTInv, TypeOK, Notifier, Worker
<1>2. latest' \in Version /\ skip' \in 0 .. MaxVersion
  BY <1>1 DEF Version
<1>3. Forward'
  BY <1>1 DEF NTInv, Forward
<1> QED BY <1>2, <1>3

LEMMA CommitInv ==
    ASSUME NTInv, Commit
    PROVE  NTInv'
<1>1. Forward' /\ latest' \in Version /\ skip' \in 0 .. MaxVersion
  BY ForwardGrows DEF Commit, SkipVersion, workerVars
<1>2. spared' \in [Token -> SUBSET Version]
  BY <1>1 DEF Commit, NTInv, TypeOK
<1>3. shown' \in Version /\ writing' \in {"no", "outer", "inner"} /\ asked' \subseteq Token
      /\ wake' \in BOOLEAN
  BY <1>1 DEF Commit
<1>4. /\ UNCHANGED <<thread, at, count, next, have, callbacks>>
      /\ UNCHANGED <<notifier, worker, signal, told>>
  BY DEF Commit, workerVars
<1>5. TypeOK'
  BY <1>1, <1>2, <1>3, <1>4 DEF NTInv, TypeOK
<1> QED BY <1>1, <1>4, <1>5, NothingDelivered

LEMMA OtherCommitInv ==
    ASSUME NTInv, OtherCommit
    PROVE  NTInv'
<1>1. Forward' /\ latest' \in Version /\ skip' \in 0 .. MaxVersion
  BY ForwardGrows DEF OtherCommit, SkipVersion, workerVars
<1>2. TypeOK'
  BY <1>1 DEF OtherCommit, NTInv, TypeOK, threadVars, workerVars, history
<1> QED BY <1>1, <1>2, NothingDelivered DEF OtherCommit, threadVars, workerVars, history

-----------------------------------------------------------------------------

LEMMA CollectInv ==
    ASSUME NTInv, Collect
    PROVE  NTInv'
<1>1. /\ notifier'.version = notifier.version /\ notifier' \in Notifier
  BY DEF Collect, NTInv, TypeOK, Notifier
<1>2. worker' \in Worker /\ worker'.version = latest /\ worker'.skip = skip
      /\ (worker'.pc = "skip" => skip # 0)
  BY VersionIsNat DEF Collect, NTInv, TypeOK, Worker
<1>3. skip' = 0 /\ UNCHANGED latest
  BY DEF Collect
<1>4. TypeOK'
  <2>1. UNCHANGED <<latest, shown, writing, asked, thread, at, count, next, have>>
    BY DEF Collect, threadVars
  <2>2. UNCHANGED <<callbacks, signal, told, spared>> /\ wake' = FALSE
    BY DEF Collect, history
  <2>3. skip' \in 0 .. MaxVersion
    BY <1>3, VersionIsNat
  <2> QED BY <1>1, <1>2, <2>1, <2>2, <2>3 DEF NTInv, TypeOK
<1>5. Forward'
  <2>1. latest \in Version /\ latest \in Nat /\ skip \in 0 .. MaxVersion
    BY VersionIsNat DEF NTInv, TypeOK
  <2>2. skip # 0 => skip \in Version
    BY <2>1 DEF Version
  <2> QED BY <1>1, <1>2, <1>3, <2>1, <2>2 DEF NTInv, Forward
<1>6. ASSUME NEW t \in Token PROVE Apart(t)'
  BY <1>1 DEF Collect, NTInv, Apart, threadVars, history
<1> QED BY <1>4, <1>5, <1>6 DEF NTInv

LEMMA RunToSkippedInv ==
    ASSUME NTInv, RunToSkipped
    PROVE  NTInv'
<1>1. worker.pc = "skip" /\ worker.skip \in Version /\ notifier.version <= worker.skip
  BY DEF RunToSkipped, NTInv, Forward
<1>2. /\ callbacks' \in [Token -> Callback] /\ notifier' \in Notifier
      /\ notifier'.version = worker.skip
      /\ \A t \in Token : Apart(t)'
  BY <1>1, Ran DEF RunToSkipped, threadVars, history
<1>3. worker' \in Worker /\ worker'.pc = "run" /\ worker'.version = worker.version
  BY DEF RunToSkipped, NTInv, TypeOK, Worker
<1>4. TypeOK'
  BY <1>2, <1>3 DEF RunToSkipped, NTInv, TypeOK, threadVars, history
<1>5. Forward'
  <2>1. worker.version \in Nat /\ worker.skip \in Nat /\ latest \in Nat /\ skip \in 0 .. MaxVersion
    BY <1>1, VersionIsNat DEF NTInv, TypeOK, Worker, Forward
  <2> QED BY <1>1, <1>2, <1>3, <2>1, VersionIsNat DEF RunToSkipped, NTInv, Forward
<1> QED BY <1>2, <1>4, <1>5 DEF NTInv

LEMMA RunToCollectedInv ==
    ASSUME NTInv, RunToCollected
    PROVE  NTInv'
<1>1. worker.pc = "run" /\ worker.version \in Version /\ notifier.version <= worker.version
  BY DEF RunToCollected, NTInv, Forward
<1>2. /\ callbacks' \in [Token -> Callback] /\ notifier' \in Notifier
      /\ notifier'.version = worker.version
      /\ \A t \in Token : Apart(t)'
  BY <1>1, Ran DEF RunToCollected, threadVars, history
<1>3. worker' \in Worker /\ worker'.pc = "idle"
  BY VersionIsNat DEF RunToCollected, IdleWorker, Worker
<1>4. TypeOK'
  BY <1>2, <1>3 DEF RunToCollected, NTInv, TypeOK, threadVars, history
<1>5. Forward'
  BY <1>1, <1>2, <1>3 DEF RunToCollected, NTInv, Forward
<1> QED BY <1>2, <1>4, <1>5 DEF NTInv

-----------------------------------------------------------------------------

LEMMA NTInvStep == NTInv /\ [Next]_vars => NTInv'
<1> SUFFICES ASSUME NTInv, [Next]_vars PROVE NTInv'
  OBVIOUS
<1>1. CASE UNCHANGED vars
  BY <1>1 DEF vars, threadVars, workerVars, history, NTInv, TypeOK, Forward, Apart
<1>2. ASSUME NEW t \in Token, AddCallback(t) \/ RemoveCallback(t) \/ CallNext(t)
      PROVE  NTInv'
  BY <1>2, AddCallbackInv, RemoveCallbackInv, CallNextInv
<1>3. ASSUME NEW S \in SUBSET Token, Suppress(S) PROVE NTInv'
  BY <1>3, SuppressInv
<1>4. ASSUME Refresh \/ BeginTransaction PROVE NTInv'
  BY <1>4, WaitInv DEF Refresh, BeginTransaction
<1>5. ASSUME BeginInCallback \/ Commit \/ Cancel \/ OtherCommit PROVE NTInv'
  BY <1>5, BeginInCallbackInv, CommitInv, CancelInv, OtherCommitInv
<1>6. ASSUME Notify \/ Proceed \/ FinishRound PROVE NTInv'
  BY <1>6, NotifyInv, ProceedInv, FinishRoundInv
<1>7. ASSUME WorkerStep PROVE NTInv'
  BY <1>7, CollectInv, RunToSkippedInv, RunToCollectedInv DEF WorkerStep
<1> QED BY <1>1, <1>2, <1>3, <1>4, <1>5, <1>6, <1>7 DEF Next, Calls

\* The variables have their types.
THEOREM NTTypeCorrect == Spec => []TypeOK
<1>1. NTInv => TypeOK
  BY DEF NTInv
<1> QED BY <1>1, NTInvInit, NTInvStep, PTL DEF Spec

\* No change is told to a callback twice, whatever the program does in callbacks and
\* however commits, tokens and the worker's runs interleave.
THEOREM ToldOnce == Spec => []NothingTwice
<1>1. NTInv => NothingTwice
  <2> SUFFICES ASSUME NTInv, NEW t \in On, callbacks[t].initial
               PROVE  told[t] \cap OnTheWay(t) = {}
    BY DEF NothingTwice
  <2>1. t \in Token /\ Apart(t)
    BY DEF On, NTInv
  <2>2. notifier.version \in Int /\ latest \in Int
    BY VersionIsNat DEF NTInv, TypeOK, Notifier
  <2>3. 1 .. notifier.version \cap (notifier.version + 1 .. latest) = {}
    BY <2>2
  <2> QED BY <2>1, <2>3 DEF Apart, OnTheWay
<1> QED BY <1>1, NTInvInit, NTInvStep, PTL DEF Spec
-----------------------------------------------------------------------------
(* NothingLost, InStep and SparedNotTold, if nothing is Allowed.           *)

\* The callbacks that the round of calls counts: Place(t) < count.
PlaceIn(S, t) == Cardinality({u \in S : u < t})
Counted(t) == PlaceIn(On, t) < count

\* What the notifier, the tokens and the threads know of each other.
Orderly ==
    /\ have <=> On # {}
    /\ notifier.hasRun \/ worker.pc # "idle" => notifier.registered
    /\ thread.pc = "round" => notifier.hasRun /\ count <= Cardinality(On)
    /\ thread.pc # "round" => at = 0
    /\ thread.pc = "wait" => writing = "no"
    /\ thread.pc = "wait" /\ thread.op = "begin" => thread.to = latest
    /\ writing = "inner" => InCallback
    /\ at < next
    /\ asked \subseteq On
    /\ asked # {} => writing # "no" /\ worker.pc = "idle"

\* Who writes has been told of everything.
WriterUpToDate ==
    writing # "no" /\ On # {} =>
        /\ notifier.hasRun /\ notifier.version = latest /\ shown = latest
        /\ \A t \in On : callbacks[t].accumulated = {}

\* A token that has not been given yet, and a callback that has not been called yet.
Unused(t) ==
    /\ t >= next => t \notin On /\ spared[t] = {} /\ told[t] = {}
    /\ t \in On /\ ~callbacks[t].initial => told[t] = {}
    /\ t \in On /\ callbacks[t].initial => notifier.hasRun

\* The next run of the worker is the one of the version that the callback is to skip.
SkipsNext(t) ==
    /\ callbacks[t].skipNext
    /\ t \notin asked
    /\ notifier.version + 1 \in spared[t]
    /\ \/ worker.pc = "idle" /\ notifier.registered /\ skip = notifier.version + 1
       \/ worker.pc = "skip" /\ worker.skip = notifier.version + 1

\* A version that a callback is not to be told of is the next one or never comes.
Spared(t) ==
    /\ spared[t] \subseteq 1 .. latest
    /\ spared[t] \cap (told[t] \cup callbacks[t].accumulated \cup callbacks[t].toDeliver) = {}
    /\ \A v \in spared[t] : v > notifier.version => v = notifier.version + 1 /\ SkipsNext(t)
    /\ t \in asked => callbacks[t].skipNext
    /\ callbacks[t].skipNext => t \in asked \/ SkipsNext(t)

\* Of the versions that the notifier has read none is lost.
Complete(t) ==
    callbacks[t].initial =>
        1 .. notifier.version
            \subseteq told[t] \cup spared[t] \cup callbacks[t].accumulated \cup callbacks[t].toDeliver

\* Outside of a round there is nothing to be delivered that the next one would overwrite, nor
\* is there anything to be discarded when the Realm is ahead of the notifier.
Delivered(t) ==
    /\ thread.pc # "round" /\ callbacks[t].initial => callbacks[t].toDeliver = {}
    /\ /\ callbacks[t].initial \/ (thread.pc = "round" /\ Counted(t))
       /\ notifier.version < shown
       => shown = notifier.version + 1 /\ callbacks[t].accumulated = {}

\* In a round, behind at are those that have been called, and all the others will be.
InRound(t) ==
    /\ Counted(t) => thread.to + 1 .. notifier.version \subseteq callbacks[t].accumulated \cup spared[t]
    /\ Counted(t) /\ t <= at => callbacks[t].initial
    /\ ~Counted(t) \/ t <= at => callbacks[t].toDeliver = {}
    /\ t <= at => Counted(t)
    /\ callbacks[t].toDeliver \subseteq 1 .. thread.to
    /\ callbacks[t].initial => told[t] \subseteq 1 .. thread.to

\* A callback will hear of what it has not heard of yet.
OnTrack(t) == Spared(t) /\ Complete(t) /\ Delivered(t) /\ (thread.pc = "round" => InRound(t))

DeliveryInv ==
    /\ NTInv /\ Orderly /\ WriterUpToDate
    /\ \A t \in Token : Unused(t)
    /\ \A t \in On : OnTrack(t)

-----------------------------------------------------------------------------

\* Tokens are finitely many, and places grow with the tokens.
LEMMA PlaceFacts ==
    ASSUME NEW S \in SUBSET Token
    PROVE  /\ IsFiniteSet(S) /\ Cardinality(S) \in Nat
           /\ \A t \in Token : PlaceIn(S, t) \in Nat
           /\ \A t \in S : PlaceIn(S, t) < Cardinality(S)
           /\ \A t \in S, u \in Token : t < u => PlaceIn(S, t) < PlaceIn(S, u)
<1>1. IsFiniteSet(Token) /\ Token \subseteq Int
  BY FS_Interval, ConstantsOK DEF Token
<1>2. \A R \in SUBSET S : IsFiniteSet(R) /\ Cardinality(R) \in Nat
  BY <1>1, FS_Subset, FS_CardinalityType
<1>3. ASSUME NEW R \in SUBSET S, NEW Q \in SUBSET R, NEW t \in R \ Q
      PROVE  Cardinality(Q) < Cardinality(R)
  <2>1. IsFiniteSet(R) /\ Q # R /\ Q \in SUBSET S
    BY <1>2, <1>3
  <2>2. Cardinality(Q) <= Cardinality(R) /\ (Cardinality(Q) = Cardinality(R) => Q = R)
    BY <2>1, FS_Subset
  <2>3. Cardinality(Q) \in Nat /\ Cardinality(R) \in Nat
    BY <1>2, <2>1
  <2> QED BY <2>1, <2>2, <2>3
<1>4. ASSUME NEW t \in S PROVE PlaceIn(S, t) < Cardinality(S)
  <2>1. t \notin {u \in S : u < t}
    BY <1>1
  <2> QED BY <1>3, <2>1 DEF PlaceIn
<1>5. ASSUME NEW t \in S, NEW u \in Token, t < u PROVE PlaceIn(S, t) < PlaceIn(S, u)
  <2> DEFINE R == {x \in S : x < u}
             Q == {x \in S : x < t}
  <2>1. ASSUME NEW x \in Q PROVE x \in R
    <3>1. x \in Int /\ t \in Int /\ u \in Int /\ x < t
      BY <1>1
    <3> QED BY <1>5, <3>1
  <2>2. ~(t < t)
    BY <1>1
  <2>3. R \in SUBSET S /\ Q \in SUBSET R /\ t \in R \ Q
    BY <1>5, <2>1, <2>2
  <2> QED BY <1>3, <2>3 DEF PlaceIn
<1> QED BY <1>2, <1>4, <1>5 DEF PlaceIn

\* A callback that is added comes last.
LEMMA PlaceAdded ==
    ASSUME NEW S \in SUBSET Token, NEW n \in Token, \A u \in S : u < n
    PROVE  /\ Cardinality(S \cup {n}) = Cardinality(S) + 1
           /\ PlaceIn(S \cup {n}, n) = Cardinality(S)
           /\ \A u \in S : PlaceIn(S \cup {n}, u) = PlaceIn(S, u)
<1>1. IsFiniteSet(S) /\ Token \subseteq Int /\ n \notin S
  BY PlaceFacts, ConstantsOK DEF Token
<1>2. Cardinality(S \cup {n}) = Cardinality(S) + 1
  BY <1>1, FS_AddElement
<1>3. {u \in S \cup {n} : u < n} = S
  <2>1. ~(n < n)
    BY <1>1
  <2> QED BY <2>1
<1>4. ASSUME NEW u \in S PROVE {x \in S \cup {n} : x < u} = {x \in S : x < u}
  <2>1. ~(n < u)
    BY <1>1
  <2> QED BY <2>1
<1> QED BY <1>2, <1>3, <1>4 DEF PlaceIn

\* A callback that is removed makes those behind it move up.
LEMMA PlaceRemoved ==
    ASSUME NEW S \in SUBSET Token, NEW r \in S
    PROVE  /\ Cardinality(S \ {r}) = Cardinality(S) - 1
           /\ \A u \in S \ {r} : PlaceIn(S \ {r}, u) =
                                    IF u < r THEN PlaceIn(S, u) ELSE PlaceIn(S, u) - 1
<1>1. IsFiniteSet(S) /\ Token \subseteq Int /\ Cardinality(S) \in Nat
  BY PlaceFacts, ConstantsOK DEF Token
<1>2. ASSUME NEW R \in SUBSET S, r \in R PROVE Cardinality(R \ {r}) = Cardinality(R) - 1
  <2>1. IsFiniteSet(R)
    BY <1>1, FS_Subset
  <2> QED BY <1>2, <2>1, FS_RemoveElement
<1>3. ASSUME NEW u \in S \ {r}
      PROVE  PlaceIn(S \ {r}, u) = IF u < r THEN PlaceIn(S, u) ELSE PlaceIn(S, u) - 1
  <2> DEFINE B == {x \in S : x < u}
  <2>1. CASE u < r
    <3>1. {x \in S \ {r} : x < u} = B
      BY <1>1, <2>1
    <3> QED BY <2>1, <3>1 DEF PlaceIn
  <2>2. CASE ~(u < r)
    <3>1. r \in B /\ {x \in S \ {r} : x < u} = B \ {r}
      BY <1>1, <2>2
    <3>2. Cardinality(B \ {r}) = Cardinality(B) - 1
      BY <1>2, <3>1
    <3> QED BY <2>2, <3>1, <3>2 DEF PlaceIn
  <2> QED BY <2>1, <2>2
<1> QED BY <1>2, <1>3

-----------------------------------------------------------------------------

\* The versions are numbers, and the notifier is not ahead of the file.
LEMMA Numbers ==
    ASSUME NTInv
    PROVE  /\ notifier.version \in Int /\ latest \in Int /\ shown \in Int /\ thread.to \in Int
           /\ 1 <= notifier.version /\ notifier.version <= latest
           /\ count \in Int /\ at \in Int /\ 0 <= at /\ next \in Int /\ 1 <= next
           /\ \A t \in Token : t \in Int /\ 1 <= t
BY VersionIsNat, ConstantsOK DEF NTInv, TypeOK, Forward, Notifier, Thread, Token

\* The callbacks are those that were there, each at its place.
LEMMA OnStays ==
    ASSUME \A t \in Token : callbacks'[t].on = callbacks[t].on
    PROVE  On' = On
BY DEF On

LEMMA CountedStays ==
    ASSUME On' = On, count' = count, NEW t \in Token
    PROVE  Counted(t)' <=> Counted(t)
BY DEF Counted, PlaceIn

\* A callback that nothing is done to.
LEMMA OnTrackStays ==
    ASSUME NEW t \in Token, OnTrack(t), NTInv, latest' \in Int, latest <= latest',
           callbacks'[t] = callbacks[t], told'[t] = told[t], spared'[t] = spared[t],
           notifier'.version = notifier.version, shown' = shown, at' = at, asked' = asked,
           SkipsNext(t) => SkipsNext(t)',
           thread'.pc = "round" <=> thread.pc = "round",
           thread.pc = "round" => thread'.to = thread.to /\ (Counted(t)' <=> Counted(t))
    PROVE  OnTrack(t)'
<1>1. latest \in Int
  BY Numbers
<1>2. 1 .. latest \subseteq 1 .. latest'
  BY <1>1
<1>3. Spared(t)'
  BY <1>2 DEF OnTrack, Spared
<1>4. Complete(t)'
  BY DEF OnTrack, Complete
<1>5. Delivered(t)'
  BY DEF OnTrack, Delivered
<1>6. (thread.pc = "round" => InRound(t))'
  BY DEF OnTrack, InRound
<1> QED BY <1>3, <1>4, <1>5, <1>6 DEF OnTrack

LEMMA UnusedStays ==
    ASSUME NEW t \in Token, Unused(t), On' = On, next' = next, callbacks'[t] = callbacks[t],
           spared'[t] = spared[t], told'[t] = told[t], notifier.hasRun => notifier'.hasRun
    PROVE  Unused(t)'
BY DEF Unused

LEMMA DeliveryInit == Init => DeliveryInv
<1> SUFFICES ASSUME Init PROVE DeliveryInv
  OBVIOUS
<1>1. NTInv
  BY NTInvInit
<1>2. \A t \in Token : callbacks[t] = NoCallback /\ told[t] = {} /\ spared[t] = {}
  BY DEF Init
<1>3. On = {}
  BY <1>2 DEF On, NoCallback
<1>4. Orderly
  BY <1>3 DEF Init, Orderly, IdleThread, IdleWorker
<1>5. WriterUpToDate
  BY <1>3 DEF WriterUpToDate
<1>6. \A t \in Token : Unused(t)
  BY <1>2, <1>3 DEF Unused
<1> QED BY <1>1, <1>3, <1>4, <1>5, <1>6 DEF DeliveryInv

-----------------------------------------------------------------------------

LEMMA AddCallbackDelivers ==
    ASSUME DeliveryInv, NEW t \in Token, AddCallback(t), NTInv'
    PROVE  DeliveryInv'
<1> DEFINE new == [NoCallback EXCEPT !.on = TRUE]
<1>0. NTInv /\ Orderly /\ Unused(t) /\ t = next /\ writing = "no"
  BY DEF DeliveryInv, AddCallback, Reading
<1>1. /\ UNCHANGED <<latest, shown, writing, asked, thread, at, count, notifier, worker, skip, signal, told, spared>>
      /\ next' = next + 1
  BY DEF AddCallback, workerVars, history
<1>2. /\ callbacks'[t] = new
      /\ \A u \in Token \ {t} : callbacks'[u] = callbacks[u]
  BY <1>0 DEF AddCallback, NTInv, TypeOK
<1>3. /\ new.on /\ new.accumulated = {} /\ new.toDeliver = {} /\ ~new.initial /\ ~new.skipNext
  BY DEF NoCallback
<1> HIDE DEF new
<1>4. t \notin On /\ told[t] = {} /\ spared[t] = {}
  BY <1>0, Numbers DEF Unused
<1>5. On' = On \cup {t}
  BY <1>2, <1>3 DEF On
<1>6. On \in SUBSET Token /\ t \in Int /\ next \in Int /\ count \in Int
  BY <1>0, Numbers DEF On
<1>7. \A u \in On : u < t
  BY <1>0, <1>6, Numbers DEF DeliveryInv, Unused
<1>8. /\ Cardinality(On') = Cardinality(On) + 1
      /\ PlaceIn(On', t) = Cardinality(On)
      /\ \A u \in On : PlaceIn(On', u) = PlaceIn(On, u)
  BY <1>5, <1>6, <1>7, PlaceAdded
<1>9. Cardinality(On) \in Nat
  BY <1>6, PlaceFacts
<1>10. Orderly'
  <2>1. (have <=> On # {})'
    BY <1>0, <1>5 DEF AddCallback, Sending, Orderly
  <2>2. (thread.pc = "round" => notifier.hasRun /\ count <= Cardinality(On))'
    BY <1>0, <1>1, <1>6, <1>8, <1>9 DEF Orderly
  <2>3. (at < next)'
    BY <1>0, <1>1, <1>6, Numbers DEF Orderly
  <2> QED BY <1>0, <1>1, <1>5, <2>1, <2>2, <2>3 DEF Orderly, InCallback
<1>11. WriterUpToDate'
  BY <1>0, <1>1 DEF WriterUpToDate
<1>12. ASSUME NEW u \in Token PROVE Unused(u)'
  <2>1. Unused(u) /\ u \in Int
    BY <1>0, Numbers DEF DeliveryInv
  <2>2. u >= next + 1 => u >= next /\ u # t
    BY <1>0, <1>6, <2>1
  <2> QED BY <1>1, <1>2, <1>3, <1>4, <1>5, <2>1, <2>2 DEF Unused
<1>13. ASSUME NEW u \in On PROVE OnTrack(u)'
  <2>1. u \in Token /\ OnTrack(u) /\ u # t
    BY <1>4 DEF On, DeliveryInv
  <2>2. Counted(u)' <=> Counted(u)
    BY <1>1, <1>8 DEF Counted
  <2>3. SkipsNext(u) => SkipsNext(u)'
    BY <1>1, <1>2, <2>1 DEF SkipsNext
  <2> QED BY <1>0, <1>1, <1>2, <2>1, <2>2, <2>3, OnTrackStays, Numbers
<1>14. OnTrack(t)'
  <2>1. t \notin asked
    BY <1>0, <1>4 DEF Orderly
  <2>2. Spared(t)'
    BY <1>1, <1>2, <1>3, <1>4, <2>1 DEF Spared
  <2>3. thread.pc = "round" => ~Counted(t)'
    BY <1>0, <1>1, <1>6, <1>8, <1>9 DEF Counted, Orderly
  <2>4. Complete(t)' /\ Delivered(t)'
    BY <1>1, <1>2, <1>3, <2>3 DEF Complete, Delivered
  <2>5. ~(t <= at)
    BY <1>0, <1>6, Numbers DEF Orderly
  <2>6. (thread.pc = "round" => InRound(t))'
    BY <1>1, <1>2, <1>3, <2>3, <2>5 DEF InRound
  <2> QED BY <2>2, <2>4, <2>6 DEF OnTrack
<1> QED BY <1>5, <1>10, <1>11, <1>12, <1>13, <1>14 DEF DeliveryInv

LEMMA RemoveCallbackDelivers ==
    ASSUME DeliveryInv, Allowed = {}, NEW t \in Token, RemoveCallback(t), NTInv'
    PROVE  DeliveryInv'
<1>0. /\ NTInv /\ Orderly /\ t \in On /\ t \notin asked
      /\ thread.pc = "round" => PlaceIn(On, t) < count
  BY DEF DeliveryInv, RemoveCallback, Place, PlaceIn
<1>1. /\ UNCHANGED <<latest, shown, writing, asked, thread, at, next, notifier, worker, skip, signal, told, spared>>
      /\ count' = count - 1 /\ have' = (On # {t})
  BY DEF RemoveCallback, workerVars, history
<1>2. /\ callbacks'[t] = NoCallback
      /\ \A u \in Token \ {t} : callbacks'[u] = callbacks[u]
  BY <1>0 DEF RemoveCallback, NTInv, TypeOK
<1>3. On' = On \ {t}
  BY <1>2 DEF On, NoCallback
<1>4. On \in SUBSET Token /\ count \in Int /\ Cardinality(On) \in Nat
      /\ \A u \in Token : u \in Int /\ PlaceIn(On, u) \in Nat
  BY <1>0, Numbers, PlaceFacts DEF On
<1>5. /\ Cardinality(On') = Cardinality(On) - 1
      /\ \A u \in On \ {t} : PlaceIn(On', u) = IF u < t THEN PlaceIn(On, u) ELSE PlaceIn(On, u) - 1
  BY <1>0, <1>3, <1>4, PlaceRemoved
<1>6. Orderly'
  <2>1. (have <=> On # {})'
    BY <1>0, <1>1, <1>3
  <2>2. (thread.pc = "round" => notifier.hasRun /\ count <= Cardinality(On))'
    BY <1>0, <1>1, <1>4, <1>5 DEF Orderly
  <2> QED BY <1>0, <1>1, <1>3, <2>1, <2>2 DEF Orderly, InCallback
<1>7. WriterUpToDate'
  BY <1>1, <1>2, <1>3 DEF DeliveryInv, WriterUpToDate, On
<1>8. ASSUME NEW u \in Token PROVE Unused(u)'
  BY <1>1, <1>2, <1>3 DEF DeliveryInv, Unused
<1>9. ASSUME NEW u \in On \ {t} PROVE OnTrack(u)'
  <2>1. u \in Token /\ OnTrack(u)
    BY DEF On, DeliveryInv
  <2>2. ASSUME thread.pc = "round" PROVE Counted(u)' <=> Counted(u)
    <3>1. u < t => PlaceIn(On, u) < PlaceIn(On, t)
      BY <1>0, <1>4, PlaceFacts
    <3>2. Counted(u)' <=> (IF u < t THEN PlaceIn(On, u) ELSE PlaceIn(On, u) - 1) < count - 1
      BY <1>1, <1>5 DEF Counted
    <3> QED BY <1>0, <1>4, <2>1, <2>2, <3>1, <3>2 DEF Counted
  <2>3. SkipsNext(u) => SkipsNext(u)'
    BY <1>1, <1>2, <2>1 DEF SkipsNext
  <2> QED BY <1>0, <1>1, <1>2, <2>1, <2>2, <2>3, OnTrackStays, Numbers
<1> QED BY <1>3, <1>6, <1>7, <1>8, <1>9 DEF DeliveryInv

-----------------------------------------------------------------------------

\* package_for_delivery: what has gathered is to be delivered.
LEMMA PackagedCallback ==
    ASSUME NTInv, Package, NEW t \in Token
    PROVE  /\ callbacks'[t].accumulated = {}
           /\ callbacks'[t].toDeliver = callbacks[t].accumulated
           /\ callbacks'[t].initial = callbacks[t].initial
           /\ callbacks'[t].on = callbacks[t].on
           /\ callbacks'[t].skipNext = callbacks[t].skipNext
<1>1. callbacks[t] \in Callback
  BY DEF NTInv, TypeOK
<1>2. callbacks'[t] = [callbacks[t] EXCEPT !.toDeliver = callbacks[t].accumulated, !.accumulated = {}]
  BY DEF Package
<1>3. /\ callbacks'[t].accumulated = {}
      /\ callbacks'[t].toDeliver = callbacks[t].accumulated
      /\ callbacks'[t].initial = callbacks[t].initial
      /\ callbacks'[t].on = callbacks[t].on
      /\ callbacks'[t].skipNext = callbacks[t].skipNext
  BY <1>1, <1>2 DEF Callback
<1> QED BY <1>3

\* A round begins at the notifier's version, with all callbacks to be called.
LEMMA RoundDelivers ==
    ASSUME DeliveryInv, thread.pc # "round", Package, Round(notifier.version),
           shown' = notifier.version,
           UNCHANGED <<latest, asked, at, next, have, notifier, worker, skip, told, spared>>
    PROVE  /\ On' = On /\ count' = Cardinality(On)
           /\ \A t \in Token : Unused(t)'
           /\ \A t \in On : OnTrack(t)' /\ callbacks'[t].accumulated = {}
<1>1. NTInv /\ Orderly /\ at = 0 /\ thread \in Thread
  BY DEF DeliveryInv, Orderly, NTInv, TypeOK
<1>2. ASSUME NEW t \in Token
      PROVE  /\ callbacks'[t].accumulated = {}
             /\ callbacks'[t].toDeliver = callbacks[t].accumulated
             /\ callbacks'[t].initial = callbacks[t].initial
             /\ callbacks'[t].on = callbacks[t].on
             /\ callbacks'[t].skipNext = callbacks[t].skipNext
    BY <1>1, PackagedCallback
<1>3. On' = On
  BY <1>2, OnStays
<1>4. count' = Cardinality(On)
  BY DEF Package
<1>5. thread'.pc = "round" /\ thread'.to = notifier.version
  BY <1>1 DEF Round, Thread
<1>6. ASSUME NEW t \in Token PROVE Unused(t)'
  BY <1>2, <1>3 DEF DeliveryInv, Unused
<1>7. ASSUME NEW t \in On PROVE OnTrack(t)'
  <2>1. /\ t \in Token /\ OnTrack(t) /\ Apart(t) /\ Unused(t) /\ t \in Int /\ ~(t <= at)
        /\ notifier.version \in Int
    BY <1>1, Numbers DEF On, DeliveryInv, NTInv
  <2>2. Counted(t)'
    <3>1. PlaceIn(On, t) < Cardinality(On)
      BY PlaceFacts DEF On
    <3> QED BY <1>3, <1>4, <3>1 DEF Counted, PlaceIn
  <2>3. Spared(t)'
    BY <1>2, <2>1 DEF OnTrack, Spared, SkipsNext
  <2>4. Complete(t)'
    BY <1>2, <2>1 DEF OnTrack, Complete, Delivered
  <2>5. Delivered(t)'
    BY <1>5, <2>1 DEF Delivered
  <2>6. notifier.version + 1 .. notifier.version = {}
    BY <2>1
  <2>7. InRound(t)'
    BY <1>2, <1>5, <2>1, <2>2, <2>6 DEF InRound, Apart
  <2> QED BY <2>3, <2>4, <2>5, <2>7 DEF OnTrack
<1> QED BY <1>2, <1>3, <1>4, <1>6, <1>7 DEF On

LEMMA NotifyDelivers ==
    ASSUME DeliveryInv, Notify, NTInv'
    PROVE  DeliveryInv'
<1>1. /\ UNCHANGED <<latest, writing, asked, at, next, have, notifier, worker, skip, wake, told, spared>>
      /\ NTInv /\ Orderly /\ WriterUpToDate /\ thread.pc = "idle" /\ at = 0
  BY DEF Notify, workerVars, history, DeliveryInv, Orderly
<1>2. CASE UNCHANGED <<shown, thread, count, callbacks>>
  <2>1. On' = On
    BY <1>2, OnStays
  <2>2. Orderly' /\ WriterUpToDate' /\ \A t \in Token : Unused(t)'
    BY <1>1, <1>2, <2>1 DEF DeliveryInv, Orderly, WriterUpToDate, Unused, InCallback
  <2>3. ASSUME NEW t \in On PROVE OnTrack(t)'
    BY <1>1, <1>2, Numbers, OnTrackStays DEF On, DeliveryInv, SkipsNext
  <2> QED BY <2>1, <2>2, <2>3 DEF DeliveryInv
<1>3. CASE writing = "no" /\ notifier.hasRun /\ Package /\ Round(notifier.version) /\ shown' = notifier.version
  <2>1. /\ On' = On /\ count' = Cardinality(On)
        /\ \A t \in Token : Unused(t)'
        /\ \A t \in On : OnTrack(t)' /\ callbacks'[t].accumulated = {}
    BY <1>1, <1>3, RoundDelivers
  <2>2. thread'.pc = "round"
    BY <1>1, <1>3 DEF Round, NTInv, TypeOK, Thread
  <2>3. Cardinality(On) \in Nat
    BY PlaceFacts DEF On
  <2>4. Orderly'
    BY <1>1, <1>3, <2>1, <2>2, <2>3 DEF Orderly, InCallback
  <2>5. WriterUpToDate'
    BY <1>1, <1>3 DEF WriterUpToDate
  <2> QED BY <2>1, <2>4, <2>5 DEF DeliveryInv
<1>4. CASE /\ writing = "no" /\ notifier.hasRun /\ Package /\ notifier.version < shown
           /\ UNCHANGED <<shown, thread>>
  <2>1. ASSUME NEW t \in Token
        PROVE  /\ callbacks'[t].accumulated = {}
               /\ callbacks'[t].toDeliver = callbacks[t].accumulated
               /\ callbacks'[t].initial = callbacks[t].initial
               /\ callbacks'[t].on = callbacks[t].on
               /\ callbacks'[t].skipNext = callbacks[t].skipNext
        BY <1>1, <1>4, PackagedCallback
  <2>2. On' = On
    BY <2>1, OnStays
  <2>3. Orderly' /\ WriterUpToDate'
    BY <1>1, <1>4, <2>2 DEF Orderly, WriterUpToDate, InCallback
  <2>4. ASSUME NEW t \in Token PROVE Unused(t)'
    BY <1>1, <2>1, <2>2 DEF DeliveryInv, Unused
  <2>5. ASSUME NEW t \in On PROVE OnTrack(t)'
    <3>1. t \in Token /\ OnTrack(t) /\ Apart(t)
      BY <1>1 DEF On, DeliveryInv, NTInv
    <3>2. Spared(t)'
      BY <1>1, <2>1, <3>1 DEF OnTrack, Spared, SkipsNext
    <3>3. callbacks[t].initial => callbacks[t].toDeliver = {} /\ callbacks[t].accumulated = {}
      BY <1>1, <1>4, <3>1 DEF OnTrack, Delivered
    <3>4. Complete(t)' /\ Delivered(t)'
      BY <1>1, <1>4, <2>1, <3>1, <3>3 DEF OnTrack, Complete, Delivered
    <3> QED BY <1>1, <1>4, <3>2, <3>4 DEF OnTrack
  <2> QED BY <2>2, <2>3, <2>4, <2>5 DEF DeliveryInv
<1>5. CASE ~notifier.hasRun /\ writing = "no" /\ UNCHANGED <<callbacks, count, thread>>
  <2>1. On' = On
    BY <1>5, OnStays
  <2>2. Orderly' /\ WriterUpToDate' /\ \A t \in Token : Unused(t)'
    BY <1>1, <1>5, <2>1 DEF DeliveryInv, Orderly, WriterUpToDate, Unused, InCallback
  <2>3. ASSUME NEW t \in On PROVE OnTrack(t)'
    <3>1. t \in Token /\ OnTrack(t) /\ ~callbacks[t].initial
      BY <1>5 DEF On, DeliveryInv, Unused
    <3>2. Spared(t)'
      BY <1>1, <1>5, <3>1 DEF OnTrack, Spared, SkipsNext
    <3>3. Complete(t)' /\ Delivered(t)'
      BY <1>1, <1>5, <3>1 DEF Complete, Delivered
    <3> QED BY <1>1, <1>5, <3>2, <3>3 DEF OnTrack
  <2> QED BY <2>1, <2>2, <2>3 DEF DeliveryInv
<1>6. notifier.version \in Int /\ shown \in Int
  BY <1>1, Numbers
<1> QED BY <1>1, <1>2, <1>3, <1>4, <1>5, <1>6 DEF Notify, DeliverAvailable, AdvanceToReady

LEMMA WaitDelivers ==
    ASSUME DeliveryInv, NEW op \in {"refresh", "begin"}, Wait(op), NTInv'
    PROVE  DeliveryInv'
<1>1. /\ UNCHANGED <<latest, shown, writing, asked, at, count, next, have, callbacks, notifier,
                     worker, skip, told, spared>>
      /\ NTInv /\ Orderly /\ WriterUpToDate /\ thread.pc = "idle" /\ writing = "no"
      /\ thread'.pc = "wait" /\ thread'.to = latest
  BY DEF Wait, workerVars, history, DeliveryInv
<1>2. On' = On
  BY <1>1, OnStays
<1>3. Orderly' /\ WriterUpToDate' /\ \A t \in Token : Unused(t)'
  BY <1>1, <1>2 DEF DeliveryInv, Orderly, WriterUpToDate, Unused, InCallback
<1>4. ASSUME NEW t \in On PROVE OnTrack(t)'
  BY <1>1, Numbers, OnTrackStays DEF On, DeliveryInv, SkipsNext
<1> QED BY <1>2, <1>3, <1>4 DEF DeliveryInv

LEMMA ProceedDelivers ==
    ASSUME DeliveryInv, Proceed, NTInv'
    PROVE  DeliveryInv'
<1>1. /\ UNCHANGED <<latest, asked, at, next, have, notifier, worker, skip, told, spared>>
      /\ NTInv /\ Orderly /\ thread.pc = "wait" /\ writing = "no" /\ at = 0
      /\ writing' = IF thread.op = "begin" THEN "outer" ELSE "no"
  BY DEF Proceed, workerVars, history, DeliveryInv, Orderly
<1>2. /\ notifier.version \in Int /\ latest \in Int /\ thread.to \in Int
      /\ notifier.version <= latest
  BY <1>1, Numbers
<1>3. asked = {}
  BY <1>1 DEF Orderly
<1>4. CASE notifier.hasRun /\ notifier.version >= thread.to
  <2>1. Package /\ Round(notifier.version) /\ shown' = notifier.version
    BY <1>4 DEF Proceed
  <2>2. /\ On' = On /\ count' = Cardinality(On)
        /\ \A t \in Token : Unused(t)'
        /\ \A t \in On : OnTrack(t)' /\ callbacks'[t].accumulated = {}
    BY <1>1, <2>1, RoundDelivers
  <2>3. thread'.pc = "round"
    BY <1>1, <2>1 DEF Round, NTInv, TypeOK, Thread
  <2>4. Cardinality(On) \in Nat
    BY PlaceFacts DEF On
  <2>5. Orderly'
    BY <1>1, <1>3, <1>4, <2>2, <2>3, <2>4 DEF Orderly, InCallback
  <2>6. WriterUpToDate'
    <3>1. thread.op = "begin" => notifier.version = latest
      BY <1>1, <1>2, <1>4 DEF Orderly
    <3> QED BY <1>1, <1>4, <2>1, <2>2, <3>1 DEF WriterUpToDate
  <2> QED BY <2>2, <2>5, <2>6 DEF DeliveryInv
<1>5. CASE ~(notifier.hasRun /\ notifier.version >= thread.to)
  <2>1. On = {}
    BY <1>1, <1>5 DEF Proceed, Ready, Orderly
  <2>2. thread'.pc = "idle"
    BY <1>5 DEF Proceed, IdleThread
  <2>3. ASSUME NEW t \in Token PROVE callbacks'[t].on = callbacks[t].on
    <3>1. CASE notifier.hasRun
      BY <1>1, <3>1, PackagedCallback DEF Proceed
    <3>2. CASE ~notifier.hasRun
      BY <3>2 DEF Proceed
    <3> QED BY <3>1, <3>2
  <2>4. On' = {}
    BY <2>1, <2>3, OnStays
  <2>5. Orderly' /\ WriterUpToDate'
    BY <1>1, <1>3, <2>1, <2>2, <2>4 DEF Orderly, WriterUpToDate, InCallback
  <2>6. ASSUME NEW t \in Token PROVE Unused(t)'
    BY <1>1, <2>1, <2>4 DEF DeliveryInv, Unused
  <2> QED BY <2>4, <2>5, <2>6 DEF DeliveryInv
<1> QED BY <1>4, <1>5

LEMMA CallNextDelivers ==
    ASSUME DeliveryInv, NEW t \in Token, CallNext(t), NTInv'
    PROVE  DeliveryInv'
<1>1. /\ UNCHANGED <<latest, shown, writing, asked, thread, count, next, have, notifier, worker, skip>>
      /\ NTInv /\ Orderly /\ WriterUpToDate /\ thread.pc = "round" /\ writing # "inner"
      /\ t \in Due /\ (\A u \in Due : t <= u) /\ at' = t
  BY DEF CallNext, workerVars, DeliveryInv
<1>2. /\ t \in On /\ t > at /\ OnTrack(t) /\ Apart(t) /\ Unused(t) /\ Counted(t)
  BY <1>1 DEF Due, DeliveryInv, NTInv, Counted, Place, PlaceIn
<1>3. /\ callbacks'[t] = [callbacks[t] EXCEPT !.initial = TRUE, !.toDeliver = {}]
      /\ told'[t] = IF callbacks[t].initial THEN told[t] \cup callbacks[t].toDeliver ELSE 1 .. thread.to
      /\ spared'[t] = IF callbacks[t].initial THEN spared[t] ELSE spared[t] \ 1 .. thread.to
      /\ \A u \in Token \ {t} : callbacks'[u] = callbacks[u] /\ told'[u] = told[u] /\ spared'[u] = spared[u]
  BY <1>1 DEF CallNext, NTInv, TypeOK
<1>4. /\ callbacks'[t].accumulated = callbacks[t].accumulated /\ callbacks'[t].toDeliver = {}
      /\ callbacks'[t].initial = TRUE /\ callbacks'[t].on = callbacks[t].on
      /\ callbacks'[t].skipNext = callbacks[t].skipNext
  BY <1>1, <1>3 DEF NTInv, TypeOK, Callback
<1>5. On' = On
  BY <1>3, <1>4, OnStays
<1>6. \A u \in Token : Counted(u)' <=> Counted(u)
  BY <1>1, <1>5, CountedStays
<1>7. /\ notifier.version \in Int /\ latest \in Int /\ thread.to \in Int /\ at \in Int /\ next \in Int
      /\ \A u \in Token : u \in Int
      /\ notifier.version <= latest /\ thread.to <= notifier.version
  BY <1>1, <1>2, Numbers DEF Apart
<1>8. t < next
  BY <1>2, <1>7 DEF Unused
<1>9. Orderly'
  <2>1. writing' # "inner"
    BY <1>1
  <2> QED BY <1>1, <1>5, <1>8, <2>1 DEF Orderly
<1>10. WriterUpToDate'
  BY <1>1, <1>3, <1>4, <1>5 DEF WriterUpToDate, On
<1>11. ASSUME NEW u \in Token PROVE Unused(u)'
  <2>1. CASE u = t
    BY <1>1, <1>2, <1>4, <1>5, <1>7, <1>8, <2>1 DEF Unused, Orderly
  <2>2. CASE u # t
    BY <1>1, <1>3, <1>5, <2>2, UnusedStays DEF DeliveryInv
  <2> QED BY <2>1, <2>2
<1>12. OnTrack(t)'
  <2>1. Spared(t)'
    <3>1. spared'[t] \subseteq 1 .. latest
      BY <1>2, <1>3 DEF OnTrack, Spared
    <3>2. spared'[t] \cap (told'[t] \cup callbacks'[t].accumulated \cup callbacks'[t].toDeliver) = {}
      BY <1>2, <1>3, <1>4 DEF OnTrack, Spared
    <3>3. ASSUME NEW v \in spared'[t], v > notifier.version
          PROVE  v = notifier.version + 1 /\ SkipsNext(t)'
      <4>1. v \in spared[t] /\ v = notifier.version + 1 /\ SkipsNext(t)
        BY <1>2, <1>3, <3>3 DEF OnTrack, Spared
      <4> QED BY <1>1, <1>4, <3>3, <4>1 DEF SkipsNext
    <3>4. ASSUME callbacks'[t].skipNext, t \notin asked PROVE SkipsNext(t)'
      <4>1. SkipsNext(t)
        BY <1>2, <1>4, <3>4 DEF OnTrack, Spared
      <4>2. notifier.version + 1 \in spared[t] /\ notifier.version + 1 \notin 1 .. thread.to
        BY <1>7, <4>1 DEF SkipsNext
      <4> QED BY <1>1, <1>3, <1>4, <4>1, <4>2 DEF SkipsNext
    <3> QED BY <1>1, <1>2, <1>4, <3>1, <3>2, <3>3, <3>4 DEF OnTrack, Spared
  <2>2. Complete(t)'
    <3>1. CASE callbacks[t].initial
      BY <1>1, <1>2, <1>3, <1>4, <3>1 DEF OnTrack, Complete
    <3>2. CASE ~callbacks[t].initial
      <4>1. 1 .. notifier.version \subseteq (1 .. thread.to) \cup (thread.to + 1 .. notifier.version)
        BY <1>7
      <4>2. thread.to + 1 .. notifier.version \subseteq callbacks[t].accumulated \cup spared[t]
        BY <1>1, <1>2 DEF OnTrack, InRound
      <4> QED BY <1>1, <1>3, <1>4, <3>2, <4>1, <4>2 DEF Complete
    <3> QED BY <3>1, <3>2
  <2>3. Delivered(t)'
    BY <1>1, <1>2, <1>4 DEF OnTrack, Delivered
  <2>4. InRound(t)'
    <3>1. thread.to + 1 .. notifier.version \subseteq callbacks[t].accumulated \cup spared'[t]
      <4>1. (thread.to + 1 .. notifier.version) \cap (1 .. thread.to) = {}
        BY <1>7
      <4>2. thread.to + 1 .. notifier.version \subseteq callbacks[t].accumulated \cup spared[t]
        BY <1>1, <1>2 DEF OnTrack, InRound
      <4> QED BY <1>3, <4>1, <4>2
    <3>2. told'[t] \subseteq 1 .. thread.to
      BY <1>1, <1>2, <1>3 DEF OnTrack, InRound
    <3> QED BY <1>1, <1>2, <1>4, <1>6, <3>1, <3>2 DEF InRound
  <2> QED BY <2>1, <2>2, <2>3, <2>4 DEF OnTrack
<1>13. ASSUME NEW u \in On \ {t} PROVE OnTrack(u)'
  <2>1. u \in Token /\ OnTrack(u) /\ InRound(u)
    BY <1>1 DEF On, DeliveryInv, OnTrack
  <2>2. Spared(u)' /\ Complete(u)' /\ Delivered(u)'
    BY <1>1, <1>3, <1>6, <2>1 DEF OnTrack, Spared, Complete, Delivered, SkipsNext
  <2>3. u <= t => Counted(u)
    <3>1. u < t => PlaceIn(On, u) < PlaceIn(On, t)
      BY PlaceFacts, <1>2, <2>1 DEF On
    <3>2. PlaceIn(On, u) \in Nat /\ PlaceIn(On, t) \in Nat /\ count \in Int
      BY PlaceFacts, <1>1, <2>1, Numbers DEF On
    <3> QED BY <1>2, <1>7, <2>1, <3>1, <3>2 DEF Counted
  <2>4. u <= t => callbacks[u].initial /\ callbacks[u].toDeliver = {}
    <3>1. CASE u <= at
      BY <2>1, <3>1 DEF InRound
    <3>2. CASE u > at /\ u <= t
      <4>1. u \notin Due
        BY <1>1, <1>7, <2>1, <3>2
      <4> QED BY <2>1, <2>3, <3>2, <4>1 DEF Due, Counted, Place, PlaceIn
    <3> QED BY <1>7, <2>1, <3>1, <3>2
  <2>5. InRound(u)'
    BY <1>1, <1>3, <1>6, <2>1, <2>3, <2>4 DEF InRound
  <2> QED BY <2>2, <2>5 DEF OnTrack
<1> QED BY <1>5, <1>9, <1>10, <1>11, <1>12, <1>13 DEF DeliveryInv

LEMMA FinishRoundDelivers ==
    ASSUME DeliveryInv, FinishRound, NTInv'
    PROVE  DeliveryInv'
<1>1. /\ UNCHANGED <<latest, shown, writing, asked, count, next, have, callbacks, notifier, worker,
                     skip, told, spared>>
      /\ NTInv /\ Orderly /\ WriterUpToDate /\ thread.pc = "round" /\ writing # "inner"
      /\ Due = {} /\ thread'.pc = "idle" /\ at' = 0
  BY DEF FinishRound, workerVars, history, DeliveryInv, IdleThread
<1>2. On' = On
  BY <1>1, OnStays
<1>3. next \in Int /\ 1 <= next /\ at \in Int /\ \A u \in Token : u \in Int
  BY <1>1, Numbers
<1>4. Orderly' /\ WriterUpToDate' /\ \A t \in Token : Unused(t)'
  BY <1>1, <1>2, <1>3 DEF DeliveryInv, Orderly, WriterUpToDate, Unused
<1>5. ASSUME NEW t \in On PROVE OnTrack(t)'
  <2>1. t \in Token /\ OnTrack(t) /\ InRound(t)
    BY <1>1 DEF On, DeliveryInv, OnTrack
  <2>2. callbacks[t].toDeliver = {}
    <3>1. CASE ~Counted(t) \/ t <= at
      BY <2>1, <3>1 DEF InRound
    <3>2. CASE Counted(t) /\ t > at
      BY <1>1, <3>2 DEF Due, Counted, Place, PlaceIn
    <3> QED BY <1>3, <2>1, <3>1, <3>2
  <2> QED BY <1>1, <2>1, <2>2 DEF OnTrack, Spared, Complete, Delivered, SkipsNext
<1> QED BY <1>2, <1>4, <1>5 DEF DeliveryInv

-----------------------------------------------------------------------------

LEMMA BeginInCallbackDelivers ==
    ASSUME DeliveryInv, Allowed = {}, BeginInCallback, NTInv'
    PROVE  DeliveryInv'
<1>1. /\ UNCHANGED <<latest, asked, thread, at, count, next, have, callbacks, notifier, worker, skip,
                     told, spared>>
      /\ NTInv /\ Orderly /\ InCallback /\ writing = "no" /\ writing' = "inner"
      /\ shown = latest /\ shown' = latest /\ notifier.version = latest /\ thread.to = latest
  BY DEF BeginInCallback, workerVars, history, DeliveryInv
<1>2. On' = On /\ UNCHANGED shown
  BY <1>1, OnStays
<1>3. asked = {}
  BY <1>1 DEF Orderly
<1>4. Orderly' /\ \A t \in Token : Unused(t)'
  BY <1>1, <1>2, <1>3 DEF DeliveryInv, Orderly, Unused, InCallback
<1>5. WriterUpToDate'
  <2>1. ASSUME NEW t \in On PROVE callbacks[t].accumulated = {}
    <3>1. Apart(t)
      BY <1>1 DEF On, NTInv
    <3> QED BY <1>1, <3>1 DEF Apart, InCallback
  <2> QED BY <1>1, <1>2, <2>1 DEF WriterUpToDate, Orderly, InCallback
<1>6. ASSUME NEW t \in On PROVE OnTrack(t)'
  <2>1. t \in Token /\ OnTrack(t)
    BY DEF On, DeliveryInv
  <2>2. Counted(t)' <=> Counted(t)
    BY <1>1, <1>2, <2>1, CountedStays
  <2> QED BY <1>1, <1>2, <2>1, <2>2, Numbers, OnTrackStays DEF SkipsNext
<1> QED BY <1>2, <1>4, <1>5, <1>6 DEF DeliveryInv

LEMMA CancelDelivers ==
    ASSUME DeliveryInv, Cancel, NTInv'
    PROVE  DeliveryInv'
<1>1. /\ UNCHANGED <<latest, shown, asked, thread, at, count, next, have, callbacks, notifier, worker,
                     skip, told, spared>>
      /\ NTInv /\ Orderly /\ asked = {} /\ writing' = "no"
  BY DEF Cancel, workerVars, history, DeliveryInv
<1>2. On' = On
  BY <1>1, OnStays
<1>3. Orderly' /\ WriterUpToDate' /\ \A t \in Token : Unused(t)'
  BY <1>1, <1>2 DEF DeliveryInv, Orderly, WriterUpToDate, Unused, InCallback
<1>4. ASSUME NEW t \in On PROVE OnTrack(t)'
  <2>1. t \in Token /\ OnTrack(t)
    BY DEF On, DeliveryInv
  <2>2. Counted(t)' <=> Counted(t)
    BY <1>1, <1>2, <2>1, CountedStays
  <2> QED BY <1>1, <1>2, <2>1, <2>2, Numbers, OnTrackStays DEF SkipsNext
<1> QED BY <1>2, <1>3, <1>4 DEF DeliveryInv

LEMMA SuppressDelivers ==
    ASSUME DeliveryInv, Allowed = {}, NEW S \in SUBSET Token, Suppress(S), NTInv'
    PROVE  DeliveryInv'
<1>1. /\ UNCHANGED <<latest, shown, writing, thread, at, count, next, have, notifier, worker, skip,
                     told, spared>>
      /\ NTInv /\ Orderly /\ WriterUpToDate /\ writing # "no" /\ worker.pc = "idle"
      /\ asked = {} /\ asked' = S /\ S # {} /\ S \subseteq On
  BY DEF Suppress, Writing, workerVars, history, DeliveryInv
<1>2. ASSUME NEW t \in Token
      PROVE  /\ callbacks'[t].accumulated = callbacks[t].accumulated
             /\ callbacks'[t].toDeliver = callbacks[t].toDeliver
             /\ callbacks'[t].initial = callbacks[t].initial
             /\ callbacks'[t].on = callbacks[t].on
             /\ t \in S => callbacks'[t].skipNext
             /\ t \notin S => callbacks'[t].skipNext = callbacks[t].skipNext
  <2>1. callbacks[t] \in Callback
    BY <1>1 DEF NTInv, TypeOK
  <2>2. callbacks'[t] = IF t \in S THEN [callbacks[t] EXCEPT !.skipNext = TRUE] ELSE callbacks[t]
    BY DEF Suppress
  <2> QED BY <2>1, <2>2 DEF Callback
<1>3. On' = On
  BY <1>2, OnStays
<1>4. Orderly' /\ WriterUpToDate' /\ \A t \in Token : Unused(t)'
  BY <1>1, <1>2, <1>3 DEF DeliveryInv, Orderly, WriterUpToDate, Unused, InCallback, On
<1>5. notifier.version = latest /\ latest \in Int
  BY <1>1, Numbers DEF WriterUpToDate
<1>6. ASSUME NEW t \in On PROVE OnTrack(t)'
  <2>1. t \in Token /\ OnTrack(t)
    BY DEF On, DeliveryInv
  <2>2. Counted(t)' <=> Counted(t)
    BY <1>1, <1>3, <2>1, CountedStays
  <2>3. Spared(t)'
    <3>1. \A v \in spared[t] : ~(v > notifier.version)
      BY <1>5, <2>1 DEF OnTrack, Spared
    <3>2. ~SkipsNext(t)
      <4>1. notifier.version + 1 > notifier.version
        BY <1>5
      <4> QED BY <3>1, <4>1 DEF SkipsNext
    <3>3. t \notin S => ~callbacks'[t].skipNext
      BY <1>1, <1>2, <2>1, <3>2 DEF OnTrack, Spared
    <3> QED BY <1>1, <1>2, <2>1, <3>1, <3>3 DEF OnTrack, Spared
  <2>4. Complete(t)' /\ Delivered(t)'
    BY <1>1, <1>2, <2>1, <2>2 DEF OnTrack, Complete, Delivered
  <2>5. (thread.pc = "round" => InRound(t))'
    BY <1>1, <1>2, <2>1, <2>2 DEF OnTrack, InRound
  <2> QED BY <2>3, <2>4, <2>5 DEF OnTrack
<1> QED BY <1>3, <1>4, <1>6 DEF DeliveryInv

LEMMA CommitDelivers ==
    ASSUME DeliveryInv, Allowed = {}, Commit, NTInv'
    PROVE  DeliveryInv'
<1>1. /\ UNCHANGED <<thread, at, count, next, have, callbacks, notifier, worker, told>>
      /\ NTInv /\ Orderly /\ WriterUpToDate /\ writing # "no" /\ thread.pc # "wait"
      /\ latest' = latest + 1 /\ shown' = latest + 1 /\ writing' = "no" /\ asked' = {}
      /\ notifier.registered => skip' = latest + 1
  BY DEF Commit, Writing, InCallback, SkipVersion, workerVars, DeliveryInv
<1>2. On' = On
  BY <1>1, OnStays
<1>3. ASSUME NEW t \in Token
      PROVE  spared'[t] = IF t \in asked THEN spared[t] \cup {latest + 1} ELSE spared[t]
  BY DEF Commit
<1>4. Orderly' /\ WriterUpToDate'
  BY <1>1, <1>2 DEF Orderly, WriterUpToDate, InCallback
<1>5. notifier.version \in Int /\ latest \in Int
  BY <1>1, Numbers
<1>6. ASSUME NEW t \in Token PROVE Unused(t)'
  BY <1>1, <1>2, <1>3 DEF DeliveryInv, Unused, Orderly
<1>7. ASSUME NEW t \in On PROVE OnTrack(t)'
  <2>1. t \in Token /\ OnTrack(t) /\ Unused(t) /\ Apart(t)
    BY <1>1 DEF On, DeliveryInv, NTInv
  <2>2. /\ notifier.version = latest /\ notifier.hasRun /\ callbacks[t].accumulated = {}
        /\ notifier.registered
    BY <1>1 DEF WriterUpToDate, Orderly
  <2>3. Counted(t)' <=> Counted(t)
    BY <1>1, <1>2, <2>1, CountedStays
  <2>4. \A v \in spared[t] : v \in Int /\ v <= latest
    BY <2>1 DEF OnTrack, Spared
  <2>5. ~SkipsNext(t)
    <3>1. ~(notifier.version + 1 <= latest)
      BY <1>5, <2>2
    <3> QED BY <2>4, <3>1 DEF SkipsNext
  <2>6. Spared(t)'
    <3>1. spared'[t] \subseteq 1 .. latest + 1
      <4>1. 1 .. latest \subseteq 1 .. latest + 1 /\ latest + 1 \in 1 .. latest + 1
        BY <1>1, <1>5, Numbers
      <4>2. spared[t] \subseteq 1 .. latest
        BY <2>1 DEF OnTrack, Spared
      <4> QED BY <1>3, <2>1, <4>1, <4>2
    <3>2. spared'[t] \cap (told[t] \cup callbacks[t].accumulated \cup callbacks[t].toDeliver) = {}
      <4>1. told[t] \subseteq 1 .. latest
        BY <2>1, <2>2 DEF Unused, Apart
      <4>2. callbacks[t].toDeliver \subseteq 1 .. latest
        BY <2>1, <2>2 DEF Apart
      <4>3. latest + 1 \notin 1 .. latest
        BY <1>5
      <4> QED BY <1>3, <2>1, <2>2, <4>1, <4>2, <4>3 DEF OnTrack, Spared
    <3>3. t \in asked => SkipsNext(t)'
      <4> SUFFICES ASSUME t \in asked PROVE SkipsNext(t)'
        OBVIOUS
      <4>1. callbacks[t].skipNext /\ worker.pc = "idle"
        BY <1>1, <2>1 DEF OnTrack, Spared, Orderly
      <4> QED BY <1>1, <1>3, <2>1, <2>2, <4>1 DEF SkipsNext
    <3>4. callbacks[t].skipNext => t \in asked
      BY <2>1, <2>5 DEF OnTrack, Spared
    <3>5. ASSUME NEW v \in spared'[t], v > latest PROVE v = latest + 1 /\ t \in asked
      <4>1. v \notin spared[t]
        BY <1>5, <2>4, <3>5
      <4> QED BY <1>3, <2>1, <3>5, <4>1
    <3> QED BY <1>1, <2>2, <3>1, <3>2, <3>3, <3>4, <3>5 DEF Spared
  <2>7. Complete(t)' /\ Delivered(t)'
    BY <1>1, <1>3, <2>1, <2>2, <2>3 DEF OnTrack, Complete, Delivered
  <2>8. (thread.pc = "round" => InRound(t))'
    BY <1>1, <1>3, <2>1, <2>3 DEF OnTrack, InRound
  <2> QED BY <2>6, <2>7, <2>8 DEF OnTrack
<1> QED BY <1>2, <1>4, <1>6, <1>7 DEF DeliveryInv

LEMMA OtherCommitDelivers ==
    ASSUME DeliveryInv, Allowed = {}, OtherCommit, NTInv'
    PROVE  DeliveryInv'
<1>1. /\ UNCHANGED <<shown, writing, asked, thread, at, count, next, have, callbacks, notifier, worker,
                     told, spared>>
      /\ NTInv /\ Orderly /\ writing = "no" /\ ~(thread.pc = "wait" /\ thread.op = "begin")
      /\ latest' = latest + 1
      /\ skip = 0 \/ skip' = skip \/ \A t \in On \ asked : ~callbacks[t].skipNext
  BY DEF OtherCommit, SkipVersion, threadVars, workerVars, history, DeliveryInv
<1>2. On' = On
  BY <1>1, OnStays
<1>3. Orderly' /\ WriterUpToDate' /\ \A t \in Token : Unused(t)'
  BY <1>1, <1>2 DEF DeliveryInv, Orderly, WriterUpToDate, Unused, InCallback
<1>4. ASSUME NEW t \in On PROVE OnTrack(t)'
  <2>1. t \in Token /\ OnTrack(t)
    BY DEF On, DeliveryInv
  <2>2. Counted(t)' <=> Counted(t)
    BY <1>1, <1>2, <2>1, CountedStays
  <2>3. notifier.version \in Int /\ 1 <= notifier.version /\ latest \in Int
    BY <1>1, Numbers
  <2>4. SkipsNext(t) => SkipsNext(t)'
    BY <1>1, <2>1, <2>3 DEF SkipsNext
  <2>5. latest' \in Int /\ latest <= latest'
    BY <1>1, <2>3
  <2> QED BY <1>1, <1>2, <2>1, <2>2, <2>4, <2>5, OnTrackStays
<1> QED BY <1>2, <1>3, <1>4 DEF DeliveryInv

-----------------------------------------------------------------------------

LEMMA CollectDelivers ==
    ASSUME DeliveryInv, Allowed = {}, Collect, NTInv'
    PROVE  DeliveryInv'
<1>1. /\ UNCHANGED <<latest, shown, writing, asked, thread, at, count, next, have, callbacks, told, spared>>
      /\ NTInv /\ Orderly /\ WriterUpToDate /\ worker.pc = "idle" /\ asked = {}
      /\ worker' = [pc |-> IF skip = 0 \/ ~notifier.registered THEN "run" ELSE "skip",
                    skip |-> skip, version |-> latest]
  BY DEF Collect, threadVars, history, DeliveryInv
<1>2. /\ notifier'.version = notifier.version /\ notifier'.hasRun = notifier.hasRun
      /\ notifier'.registered
  BY DEF Collect, NTInv, TypeOK, Notifier, DeliveryInv
<1>3. On' = On
  BY <1>1, OnStays
<1>4. Orderly' /\ WriterUpToDate' /\ \A t \in Token : Unused(t)'
  BY <1>1, <1>2, <1>3 DEF DeliveryInv, Orderly, WriterUpToDate, Unused, InCallback
<1>5. ASSUME NEW t \in On PROVE OnTrack(t)'
  <2>1. t \in Token /\ OnTrack(t)
    BY DEF On, DeliveryInv
  <2>2. Counted(t)' <=> Counted(t)
    BY <1>1, <1>3, <2>1, CountedStays
  <2>3. notifier.version \in Int /\ 1 <= notifier.version /\ latest \in Int
    BY <1>1, Numbers
  <2>4. SkipsNext(t) => SkipsNext(t)'
    BY <1>1, <1>2, <2>1, <2>3 DEF SkipsNext
  <2> QED BY <1>1, <1>2, <1>3, <2>1, <2>2, <2>3, <2>4, OnTrackStays
<1> QED BY <1>3, <1>4, <1>5 DEF DeliveryInv

\* The worker goes on to a version: a callback that skips the changes was to skip them, and
\* no version that a callback is to skip lies beyond.
LEMMA RanDelivers ==
    ASSUME DeliveryInv, NEW v \in Version, notifier.version <= v, v <= latest, RunTo(v),
           worker.pc # "idle",
           \A t \in On : callbacks[t].skipNext => v = notifier.version + 1,
           UNCHANGED <<latest, shown, writing, asked, thread, at, count, next, have, skip, told, spared>>
    PROVE  /\ Orderly' /\ WriterUpToDate' /\ \A t \in Token : Unused(t)'
           /\ \A t \in On' : OnTrack(t)'
<1>1. NTInv /\ Orderly /\ WriterUpToDate /\ asked = {}
  BY DEF DeliveryInv, Orderly
<1>2. /\ notifier'.version = v /\ notifier'.hasRun /\ notifier'.registered = notifier.registered
  BY <1>1 DEF RunTo, NTInv, TypeOK, Notifier
<1> DEFINE changes == IF notifier.hasRun THEN notifier.version + 1 .. v ELSE {}
<1>3. ASSUME NEW t \in Token
      PROVE  /\ callbacks'[t].toDeliver = callbacks[t].toDeliver
             /\ callbacks'[t].initial = callbacks[t].initial
             /\ callbacks'[t].on = callbacks[t].on
             /\ ~callbacks'[t].skipNext
             /\ callbacks'[t].accumulated =
                    IF ~callbacks[t].skipNext /\ callbacks[t].on
                    THEN callbacks[t].accumulated \cup changes ELSE callbacks[t].accumulated
  <2>1. callbacks[t] \in Callback
    BY <1>1 DEF NTInv, TypeOK
  <2>2. callbacks'[t] =
            IF callbacks[t].skipNext THEN [callbacks[t] EXCEPT !.skipNext = FALSE]
            ELSE IF callbacks[t].on
                 THEN [callbacks[t] EXCEPT !.accumulated = callbacks[t].accumulated \cup changes]
                 ELSE callbacks[t]
    BY DEF RunTo
  <2> QED BY <2>1, <2>2 DEF Callback
<1>4. On' = On
  BY <1>3, OnStays
<1>5. notifier.version \in Int /\ v \in Int /\ latest \in Int /\ shown \in Int /\ thread.to \in Int
  BY <1>1, Numbers DEF Version
<1>6. notifier.hasRun =>
          /\ 1 .. v \subseteq (1 .. notifier.version) \cup changes
          /\ notifier.version + 1 .. v \subseteq changes
  BY <1>5
<1>7. \A c \in changes : c \in Int /\ c > notifier.version /\ c <= v
  BY <1>5
<1>8. v = notifier.version => changes = {}
  BY <1>5
<1> HIDE DEF changes
<1>9. Orderly'
  BY <1>1, <1>2, <1>4 DEF Orderly, InCallback
<1>10. WriterUpToDate'
  <2> SUFFICES ASSUME writing # "no", On # {}
               PROVE  v = latest /\ shown = latest /\ \A t \in On : callbacks'[t].accumulated = {}
    BY <1>2, <1>4 DEF WriterUpToDate
  <2>1. notifier.version = latest /\ v = latest /\ shown = latest
    BY <1>1, <1>5 DEF WriterUpToDate
  <2> QED BY <1>1, <1>3, <1>8, <2>1 DEF WriterUpToDate, On
<1>11. ASSUME NEW t \in Token PROVE Unused(t)'
  BY <1>2, <1>3, <1>4 DEF DeliveryInv, Unused
<1>12. ASSUME NEW t \in On PROVE OnTrack(t)'
  <2>1. t \in Token /\ OnTrack(t) /\ Unused(t) /\ Apart(t) /\ callbacks[t].on
    BY <1>1 DEF On, DeliveryInv, NTInv
  <2>2. Counted(t)' <=> Counted(t)
    BY <1>4, <2>1, CountedStays
  <2>3. callbacks[t].skipNext => v \in spared[t] /\ v = notifier.version + 1
    BY <1>1, <2>1 DEF OnTrack, Spared, SkipsNext
  <2>4. ASSUME NEW s \in spared[t], s > notifier.version
        PROVE  s = v /\ callbacks[t].skipNext
    <3>1. s = notifier.version + 1 /\ SkipsNext(t)
      BY <2>1, <2>4 DEF OnTrack, Spared
    <3> QED BY <2>3, <3>1 DEF SkipsNext
  <2>5. Spared(t)'
    <3>1. spared[t] \cap (told[t] \cup callbacks'[t].accumulated \cup callbacks'[t].toDeliver) = {}
      <4>1. ~callbacks[t].skipNext => spared[t] \cap changes = {}
        BY <1>7, <2>4
      <4> QED BY <1>3, <2>1, <4>1 DEF OnTrack, Spared
    <3>2. \A s \in spared[t] : ~(s > v)
      <4>1. \A s \in spared[t] : s \in Int
        BY <2>1 DEF OnTrack, Spared
      <4> QED BY <1>5, <2>4, <4>1
    <3> QED BY <1>1, <1>2, <1>3, <2>1, <3>1, <3>2 DEF OnTrack, Spared
  <2>6. notifier.hasRun =>
            1 .. v \subseteq (1 .. notifier.version) \cup callbacks'[t].accumulated \cup spared[t]
    <3>1. CASE ~callbacks[t].skipNext
      BY <1>3, <1>6, <2>1, <3>1
    <3>2. CASE callbacks[t].skipNext
      BY <1>5, <2>3, <3>2
    <3> QED BY <3>1, <3>2
  <2>7. callbacks[t].accumulated \subseteq callbacks'[t].accumulated
    BY <1>3, <2>1
  <2>8. Complete(t)'
    <3> SUFFICES ASSUME callbacks[t].initial
                 PROVE  1 .. v \subseteq told[t] \cup spared[t] \cup callbacks'[t].accumulated
                                         \cup callbacks[t].toDeliver
      BY <1>2, <1>3, <2>1 DEF Complete
    <3>1. 1 .. notifier.version \subseteq told[t] \cup spared[t] \cup callbacks[t].accumulated
                                                  \cup callbacks[t].toDeliver
      BY <2>1 DEF OnTrack, Complete
    <3>2. notifier.hasRun
      BY <2>1 DEF Unused
    <3> QED BY <2>6, <2>7, <3>1, <3>2
  <2>9. Delivered(t)'
    <3>1. (callbacks[t].initial \/ (thread.pc = "round" /\ Counted(t))) /\ v < shown
              => shown = v + 1 /\ callbacks'[t].accumulated = {}
      <4> SUFFICES ASSUME callbacks[t].initial \/ (thread.pc = "round" /\ Counted(t)), v < shown
                   PROVE  shown = v + 1 /\ callbacks'[t].accumulated = {}
        OBVIOUS
      <4>1. notifier.version < shown
        BY <1>5
      <4>2. shown = notifier.version + 1 /\ callbacks[t].accumulated = {}
        BY <2>1, <4>1 DEF OnTrack, Delivered
      <4>3. v = notifier.version
        BY <1>5, <4>2
      <4> QED BY <1>3, <1>8, <2>1, <4>2, <4>3
    <3> QED BY <1>2, <1>3, <2>1, <2>2, <3>1 DEF OnTrack, Delivered
  <2>10. (thread.pc = "round" => InRound(t))'
    <3> SUFFICES ASSUME thread.pc = "round" PROVE InRound(t)'
      OBVIOUS
    <3>1. InRound(t) /\ notifier.hasRun /\ thread.to <= notifier.version
      BY <1>1, <2>1 DEF OnTrack, Orderly, Apart
    <3>2. thread.to + 1 .. v \subseteq (thread.to + 1 .. notifier.version) \cup (notifier.version + 1 .. v)
      BY <1>5, <3>1
    <3>3. notifier.version + 1 .. v \subseteq callbacks'[t].accumulated \cup spared[t]
      <4>1. (notifier.version + 1 .. v) \cap (1 .. notifier.version) = {}
            /\ notifier.version + 1 .. v \subseteq 1 .. v
        BY <1>1, <1>5, Numbers
      <4> QED BY <2>6, <3>1, <4>1
    <3>4. Counted(t) => thread.to + 1 .. v \subseteq callbacks'[t].accumulated \cup spared[t]
      BY <2>7, <3>1, <3>2, <3>3 DEF InRound
    <3> QED BY <1>2, <1>3, <2>1, <2>2, <3>1, <3>4 DEF InRound
  <2> QED BY <2>5, <2>8, <2>9, <2>10 DEF OnTrack
<1> QED BY <1>4, <1>9, <1>10, <1>11, <1>12

LEMMA WorkerRunDelivers ==
    ASSUME DeliveryInv, RunToSkipped \/ RunToCollected, NTInv'
    PROVE  DeliveryInv'
<1>1. /\ NTInv /\ Orderly /\ Forward
      /\ UNCHANGED <<latest, shown, writing, asked, thread, at, count, next, have, skip, told, spared>>
  BY DEF RunToSkipped, RunToCollected, threadVars, history, DeliveryInv, NTInv
<1>2. \A t \in On : callbacks[t].skipNext => SkipsNext(t) \/ t \in asked
  BY DEF DeliveryInv, OnTrack, Spared
<1>3. CASE RunToSkipped
  <2>1. /\ worker.pc = "skip" /\ worker.skip \in Version /\ worker.version \in Version
        /\ notifier.version <= worker.skip
        /\ worker.skip <= worker.version /\ worker.version <= latest
        /\ RunTo(worker.skip)
    BY <1>1, <1>3 DEF RunToSkipped, Forward
  <2>2. worker.skip <= latest
    BY <1>1, <2>1, Numbers DEF Version
  <2>3. \A t \in On : callbacks[t].skipNext => worker.skip = notifier.version + 1
    BY <1>1, <1>2, <2>1 DEF SkipsNext, Orderly
  <2>4. /\ Orderly' /\ WriterUpToDate' /\ \A t \in Token : Unused(t)'
        /\ \A t \in On' : OnTrack(t)'
    BY <1>1, <2>1, <2>2, <2>3, RanDelivers
  <2> QED BY <2>4 DEF DeliveryInv
<1>4. CASE RunToCollected
  <2>1. /\ worker.pc = "run" /\ worker.version \in Version /\ notifier.version <= worker.version
        /\ worker.version <= latest /\ RunTo(worker.version)
    BY <1>1, <1>4 DEF RunToCollected, Forward
  <2>2. \A t \in On : ~callbacks[t].skipNext
    BY <1>1, <1>2, <2>1 DEF SkipsNext, Orderly
  <2>3. /\ Orderly' /\ WriterUpToDate' /\ \A t \in Token : Unused(t)'
        /\ \A t \in On' : OnTrack(t)'
    BY <1>1, <2>1, <2>2, RanDelivers
  <2> QED BY <2>3 DEF DeliveryInv
<1> QED BY <1>3, <1>4

-----------------------------------------------------------------------------

LEMMA DeliveryStep == Allowed = {} /\ DeliveryInv /\ [Next]_vars => DeliveryInv'
<1> SUFFICES ASSUME Allowed = {}, DeliveryInv, [Next]_vars PROVE DeliveryInv'
  OBVIOUS
<1>0. NTInv'
  BY NTInvStep DEF DeliveryInv
<1>1. CASE UNCHANGED vars
  <2>1. /\ UNCHANGED <<latest, shown, writing, asked, thread, at, count, next, have, callbacks>>
        /\ UNCHANGED <<notifier, worker, skip, told, spared>>
    BY <1>1 DEF vars, threadVars, workerVars, history
  <2>2. On' = On
    BY <2>1, OnStays
  <2>3. Orderly' /\ WriterUpToDate' /\ \A t \in Token : Unused(t)'
    BY <2>1, <2>2 DEF DeliveryInv, Orderly, WriterUpToDate, Unused, InCallback
  <2>4. ASSUME NEW t \in On PROVE OnTrack(t)'
    <3>1. t \in Token /\ OnTrack(t) /\ NTInv
      BY DEF On, DeliveryInv
    <3>2. Counted(t)' <=> Counted(t)
      BY <2>1, <2>2, <3>1, CountedStays
    <3>3. latest \in Int /\ latest <= latest
      BY <3>1, Numbers
    <3>4. SkipsNext(t) => SkipsNext(t)'
      BY <2>1 DEF SkipsNext
    <3> QED BY <2>1, <3>1, <3>2, <3>3, <3>4, OnTrackStays
  <2> QED BY <1>0, <2>2, <2>3, <2>4 DEF DeliveryInv
<1>2. ASSUME NEW t \in Token, AddCallback(t) \/ RemoveCallback(t) \/ CallNext(t)
      PROVE  DeliveryInv'
  BY <1>0, <1>2, AddCallbackDelivers, RemoveCallbackDelivers, CallNextDelivers
<1>3. ASSUME NEW S \in SUBSET Token, Suppress(S) PROVE DeliveryInv'
  BY <1>0, <1>3, SuppressDelivers
<1>4. ASSUME Refresh \/ BeginTransaction PROVE DeliveryInv'
  BY <1>0, <1>4, WaitDelivers DEF Refresh, BeginTransaction
<1>5. ASSUME BeginInCallback \/ Commit \/ Cancel \/ OtherCommit PROVE DeliveryInv'
  BY <1>0, <1>5, BeginInCallbackDelivers, CommitDelivers, CancelDelivers, OtherCommitDelivers
<1>6. ASSUME Notify \/ Proceed \/ FinishRound PROVE DeliveryInv'
  BY <1>0, <1>6, NotifyDelivers, ProceedDelivers, FinishRoundDelivers
<1>7. ASSUME WorkerStep PROVE DeliveryInv'
  BY <1>0, <1>7, CollectDelivers, WorkerRunDelivers DEF WorkerStep
<1> QED BY <1>1, <1>2, <1>3, <1>4, <1>5, <1>6, <1>7 DEF Next, Calls

LEMMA DeliveryAlways == Allowed = {} => (Spec => []DeliveryInv)
<1> SUFFICES ASSUME Allowed = {} PROVE Spec => []DeliveryInv
  OBVIOUS
<1>1. DeliveryInv /\ [Next]_vars => DeliveryInv'
  BY DeliveryStep
<1> QED BY <1>1, DeliveryInit, PTL DEF Spec

\* If nothing is Allowed, no change is lost between the file and a callback, however commits,
\* tokens, rounds of calls and the worker's runs interleave.
THEOREM ChangesArrive == Allowed = {} => (Spec => []NothingLost)
<1> SUFFICES ASSUME Allowed = {} PROVE Spec => []NothingLost
  OBVIOUS
<1>1. DeliveryInv => NothingLost
  <2> SUFFICES ASSUME DeliveryInv, NEW t \in On, callbacks[t].initial
               PROVE  1 .. latest \subseteq told[t] \cup spared[t] \cup OnTheWay(t)
    BY DEF NothingLost
  <2>1. /\ notifier.version \in Int /\ latest \in Int
        /\ 1 .. notifier.version
               \subseteq told[t] \cup spared[t] \cup callbacks[t].accumulated \cup callbacks[t].toDeliver
    BY Numbers DEF DeliveryInv, OnTrack, Complete
  <2>2. 1 .. latest \subseteq (1 .. notifier.version) \cup (notifier.version + 1 .. latest)
    BY <2>1
  <2> QED BY <2>1, <2>2 DEF OnTheWay
<1>2. Spec => []DeliveryInv
  BY DeliveryAlways
<1> QED BY <1>1, <1>2, PTL

\* If nothing is Allowed, a callback that is called has seen the changes up to the version
\* that the Realm has moved to, and none beyond it.
THEOREM CalledInStep == Allowed = {} => (Spec => []InStep)
<1> SUFFICES ASSUME Allowed = {} PROVE Spec => []InStep
  OBVIOUS
<1>1. DeliveryInv => InStep
  <2> SUFFICES ASSUME DeliveryInv, InCallback, shown = thread.to, at \in On
               PROVE  /\ told[at] \subseteq 1 .. shown
                      /\ 1 .. shown \subseteq told[at] \cup spared[at]
    BY DEF InStep
  <2>1. /\ NTInv /\ thread.pc = "round" /\ at \in Token
        /\ Complete(at) /\ InRound(at) /\ Apart(at)
    BY DEF DeliveryInv, OnTrack, InCallback, NTInv, On
  <2>2. /\ thread.to \in Int /\ notifier.version \in Int /\ at <= at
        /\ thread.to <= notifier.version
    BY <2>1, Numbers DEF Apart
  <2>3. /\ callbacks[at].initial /\ callbacks[at].toDeliver = {}
        /\ told[at] \subseteq 1 .. thread.to
    BY <2>1, <2>2 DEF InRound
  <2>4. 1 .. thread.to \subseteq 1 .. notifier.version
    BY <2>2
  <2>5. callbacks[at].accumulated \cap 1 .. thread.to = {}
    BY <2>1 DEF Apart
  <2> QED BY <2>1, <2>3, <2>4, <2>5 DEF Complete
<1>2. Spec => []DeliveryInv
  BY DeliveryAlways
<1> QED BY <1>1, <1>2, PTL

\* If nothing is Allowed, a callback is not told of the changes of a commit that its token
\* was given to.
THEOREM TokensSpare == Allowed = {} => (Spec => []SparedNotTold)
<1> SUFFICES ASSUME Allowed = {} PROVE Spec => []SparedNotTold
  OBVIOUS
<1>1. DeliveryInv => SparedNotTold
  <2> SUFFICES ASSUME DeliveryInv, NEW t \in On PROVE told[t] \cap spared[t] = {}
    BY DEF SparedNotTold
  <2> QED BY DEF DeliveryInv, OnTrack, Spared
<1>2. Spec => []DeliveryInv
  BY DeliveryAlways
<1> QED BY <1>1, <1>2, PTL

=================================================================================
