--------------------------- MODULE CollectionNotifier ---------------------------
(***************************************************************************)
(* Change notifications in the Realm object store: one Realm on its        *)
(* thread, one collection of it with its CollectionNotifier and callbacks, *)
(* and the background worker of the RealmCoordinator, which finds out what *)
(* has changed and hands it over.  Other Realms, of this process and of    *)
(* others, commit to the same file.                                        *)
(*                                                                         *)
(* Versions are numbers.  Every commit changes the collection, and a       *)
(* change set is the set of the versions whose changes it holds.  Steps    *)
(* are the sections under m_notifier_mutex and m_callback_mutex.           *)
(***************************************************************************)
EXTENDS Integers, FiniteSets

CONSTANTS
    MaxVersion,  \* bound: the last version that is committed
    MaxToken,    \* bound: the number of callbacks added in a behaviour
    Allowed      \* cases that each break a promise of the code, and are left out unless here:
                 \*   "removeNew": a callback added in a callback is removed in that round
                 \*   "writeAhead": a callback writes when the notifier is behind, or has found
                 \*     changes since the round began, such as those of its last write
                 \*   "overwriteSkip": a commit when one with tokens is still to be skipped
                 \*   "lateSkip": the worker runs between the tokens and the commit

ASSUME ConstantsOK ==
    /\ MaxVersion \in Nat \ {0} /\ MaxToken \in Nat
    /\ Allowed \subseteq {"removeNew", "writeAhead", "overwriteSkip", "lateSkip"}

Version == 1 .. MaxVersion
Token   == 1 .. MaxToken

VARIABLES
    latest,    \* the newest version of the file
    shown,     \* the version that the Realm is at
    writing,   \* its write transaction: "no", "outer", or "inner", begun in a callback
    asked,     \* the tokens given to the commit that the thread is about to make
    thread,    \* what the Realm's thread is in
    at,        \* the callback that is being called, 0 before the first and outside
    count,     \* m_callback_count
    next,      \* m_next_token
    have,      \* m_have_callbacks
    callbacks, \* m_callbacks, by token; a vector in the order of the tokens
    notifier,  \* the fields of the notifier that the worker keeps
    skip,      \* m_notifier_skip_version, 0 for none
    worker,    \* what the worker is at
    wake,      \* there is something in the pipe that the worker listens to
    signal,    \* the run loop of the Realm's thread is to call Realm::notify
    told,      \* history: the versions whose changes each callback has seen
    spared     \* history: the versions each callback was not to be notified of

threadVars == <<shown, writing, asked, thread, at, count, next, have>>
workerVars == <<notifier, worker>>
history    == <<told, spared>>
vars == <<latest, threadVars, callbacks, workerVars, skip, wake, signal, history>>

Callback == [on : BOOLEAN, accumulated : SUBSET Version, toDeliver : SUBSET Version,
             initial : BOOLEAN, skipNext : BOOLEAN]

\* refresh and begin wait for the worker; then a round of calls is made, of the changes
\* up to the version "to".
Thread == [pc : {"idle", "wait", "round"}, op : {"none", "refresh", "begin"}, to : 0 .. MaxVersion]

\* version is m_sg_version, registered says that it has left m_new_notifiers.
Notifier == [version : Version, hasRun : BOOLEAN, registered : BOOLEAN]

Worker == [pc : {"idle", "skip", "run"}, skip : 0 .. MaxVersion, version : 0 .. MaxVersion]

NoCallback == [on |-> FALSE, accumulated |-> {}, toDeliver |-> {},
               initial |-> FALSE, skipNext |-> FALSE]
IdleThread == [pc |-> "idle", op |-> "none", to |-> 0]
IdleWorker == [pc |-> "idle", skip |-> 0, version |-> 0]

Init ==
    /\ latest = 1 /\ shown = 1
    /\ writing = "no" /\ asked = {}
    /\ thread = IdleThread
    /\ at = 0 /\ count = -1 /\ next = 1 /\ have = FALSE
    /\ callbacks = [t \in Token |-> NoCallback]
    /\ notifier = [version |-> 1, hasRun |-> FALSE, registered |-> FALSE]
    /\ skip = 0
    /\ worker = IdleWorker
    /\ wake = FALSE /\ signal = FALSE
    /\ told = [t \in Token |-> {}] /\ spared = [t \in Token |-> {}]

-----------------------------------------------------------------------------

On == {t \in Token : callbacks[t].on}

\* The place of a callback in the vector.
Place(t) == Cardinality({u \in On : u < t})

\* m_callback_index # npos: remove_callback keeps it at the last place not after at.
Sending == \E t \in On : t <= at

InCallback == thread.pc = "round" /\ at # 0

\* The program runs on the Realm's thread, outside a write transaction or inside.
Reading == writing = "no" /\ (thread.pc = "idle" \/ InCallback)
Writing ==
    \/ writing = "outer" /\ thread.pc = "idle"
    \/ writing = "inner" /\ InCallback

-----------------------------------------------------------------------------
(* Callbacks come and go.                                                  *)

AddCallback(t) ==
    /\ Reading /\ t = next
    /\ next' = next + 1
    /\ callbacks' = [callbacks EXCEPT ![t] = [NoCallback EXCEPT !.on = TRUE]]
    /\ IF Sending THEN UNCHANGED <<have, wake>> ELSE have' = TRUE /\ wake' = TRUE
    /\ UNCHANGED <<latest, shown, writing, asked, thread, at, count, workerVars, skip, signal, history>>

\* From any thread.
RemoveCallback(t) ==
    /\ t \in On \ asked
    /\ "removeNew" \in Allowed \/ thread.pc # "round" \/ Place(t) < count
    /\ callbacks' = [callbacks EXCEPT ![t] = NoCallback]
    /\ count' = count - 1
    /\ have' = (On # {t})
    /\ UNCHANGED <<latest, shown, writing, asked, thread, at, next, workerVars, skip, wake, signal, history>>

\* package_for_delivery.
Package ==
    /\ callbacks' = [t \in Token |->
                        [callbacks[t] EXCEPT !.toDeliver = callbacks[t].accumulated,
                                             !.accumulated = {}]]
    /\ count' = Cardinality(On)

-----------------------------------------------------------------------------
(* The Realm moves to another version, and a round of calls follows.       *)

Round(v) == thread' = [thread EXCEPT !.pc = "round", !.to = v]

\* Mutant: as if the version of the notifier were not compared with the Realm's.
DeliverAnyway ==
    /\ UNCHANGED shown
    /\ IF notifier.hasRun THEN Package /\ Round(shown)
       ELSE UNCHANGED <<callbacks, count, thread>>

\* process_available_async.
DeliverAvailable ==
    /\ UNCHANGED shown
    /\ IF notifier.hasRun /\ notifier.version = shown
       THEN Package /\ Round(shown)
       ELSE UNCHANGED <<callbacks, count, thread>>

\* advance_to_ready: notifications of an older version are discarded.
AdvanceToReady ==
    IF notifier.hasRun
    THEN /\ Package
         /\ IF notifier.version < shown
            THEN UNCHANGED <<shown, thread>>
            ELSE shown' = notifier.version /\ Round(notifier.version)
    ELSE shown' = latest /\ UNCHANGED <<callbacks, count, thread>>

\* Realm::notify, with autorefresh.
Notify ==
    /\ thread.pc = "idle" /\ signal
    /\ signal' = FALSE
    /\ IF writing # "no" THEN UNCHANGED <<shown, thread, count, callbacks>>
       ELSE IF shown = latest THEN DeliverAvailable
       ELSE AdvanceToReady
    /\ UNCHANGED <<latest, writing, asked, at, next, have, workerVars, skip, wake, history>>

\* Mutant: as if the wait were for a version after the one asked for.
ReadyBeyond(v) == ~have \/ (notifier.hasRun /\ notifier.version > v)

\* What package_and_wait waits for.
Ready(v) == ~have \/ (notifier.hasRun /\ notifier.version >= v)

Wait(op) ==
    /\ writing = "no" /\ thread.pc = "idle"
    /\ thread' = [pc |-> "wait", op |-> op, to |-> latest]
    /\ wake' = (wake \/ ~Ready(latest))
    /\ UNCHANGED <<latest, shown, writing, asked, at, count, next, have, callbacks, workerVars,
                   skip, signal, history>>

Refresh == Wait("refresh")

\* begin_transaction has the write lock when it waits.
BeginTransaction == Wait("begin")

\* The rest of advance_to_latest and of promote_to_write.
Proceed ==
    /\ thread.pc = "wait" /\ Ready(thread.to)
    /\ IF notifier.hasRun THEN Package ELSE UNCHANGED <<callbacks, count>>
    /\ IF notifier.hasRun /\ notifier.version >= thread.to
       THEN /\ shown' = notifier.version
            /\ Round(notifier.version)
       ELSE /\ shown' = latest
            /\ thread' = IdleThread
    /\ writing' = IF thread.op = "begin" THEN "outer" ELSE "no"
    /\ UNCHANGED <<latest, asked, at, next, have, workerVars, skip, wake, signal, history>>

\* The callbacks that the loop of for_each_callback still comes to and that after_advance
\* calls.
Due == {t \in On : /\ t > at /\ Place(t) < count
                   /\ ~callbacks[t].initial \/ callbacks[t].toDeliver # {}}

\* Mutant: as if the changes were copied out of the callback and not moved.
CallNextCopying(t) ==
    /\ thread.pc = "round" /\ writing # "inner"
    /\ t \in Due /\ \A u \in Due : t <= u
    /\ at' = t
    /\ callbacks' = [callbacks EXCEPT ![t].initial = TRUE]
    /\ told' = [told EXCEPT ![t] = IF callbacks[t].initial THEN @ \cup callbacks[t].toDeliver
                                   ELSE 1 .. thread.to]
    /\ spared' = [spared EXCEPT ![t] = IF callbacks[t].initial THEN @ ELSE @ \ 1 .. thread.to]
    /\ UNCHANGED <<latest, shown, writing, asked, thread, count, next, have, workerVars, skip,
                   wake, signal>>

\* The callback at the loop's place returns, and the next one is called: the first time
\* with the collection as it is, then with the changes.
CallNext(t) ==
    /\ thread.pc = "round" /\ writing # "inner"
    /\ t \in Due /\ \A u \in Due : t <= u
    /\ at' = t
    /\ callbacks' = [callbacks EXCEPT ![t].initial = TRUE, ![t].toDeliver = {}]
    /\ told' = [told EXCEPT ![t] = IF callbacks[t].initial THEN @ \cup callbacks[t].toDeliver
                                   ELSE 1 .. thread.to]
    /\ spared' = [spared EXCEPT ![t] = IF callbacks[t].initial THEN @ ELSE @ \ 1 .. thread.to]
    /\ UNCHANGED <<latest, shown, writing, asked, thread, count, next, have, workerVars, skip,
                   wake, signal>>

FinishRound ==
    /\ thread.pc = "round" /\ writing # "inner"
    /\ Due = {}
    /\ thread' = IdleThread
    /\ at' = 0
    /\ UNCHANGED <<latest, shown, writing, asked, count, next, have, callbacks, workerVars, skip,
                   wake, signal, history>>

-----------------------------------------------------------------------------
(* Write transactions.                                                     *)

\* begin_transaction while notifications are sent: nobody is told.
BeginInCallback ==
    /\ InCallback /\ writing = "no"
    /\ "writeAhead" \in Allowed
       \/ (shown = latest /\ notifier.version = latest /\ thread.to = latest)
    /\ writing' = "inner"
    /\ shown' = latest
    /\ UNCHANGED <<latest, asked, thread, at, count, next, have, callbacks, workerVars, skip, wake,
                   signal, history>>

\* commitWriteTransactionWithoutNotifying: the tokens first, then the commit.
Suppress(S) ==
    /\ Writing /\ asked = {} /\ latest < MaxVersion
    /\ S # {} /\ S \subseteq On
    /\ "lateSkip" \in Allowed \/ worker.pc = "idle"
    /\ asked' = S
    /\ callbacks' = [t \in Token |-> IF t \in S THEN [callbacks[t] EXCEPT !.skipNext = TRUE]
                                     ELSE callbacks[t]]
    /\ UNCHANGED <<latest, shown, writing, thread, at, count, next, have, workerVars, skip, wake,
                   signal, history>>

\* Mutant: as if the version after the commit's were the one to stop at.
SkipBeyond(mine) ==
    /\ "overwriteSkip" \in Allowed \/ skip = 0 \/ \A t \in On \ asked : ~callbacks[t].skipNext
    /\ skip' = IF mine /\ ~notifier.registered THEN skip ELSE latest + 2

\* commit_write of the Realm (mine) or of another one in this process that has a notifier
\* on the file, which makes the worker stop at its version.
SkipVersion(mine) ==
    /\ "overwriteSkip" \in Allowed \/ skip = 0 \/ \A t \in On \ asked : ~callbacks[t].skipNext
    /\ skip' = IF mine /\ ~notifier.registered THEN skip ELSE latest + 1

Commit ==
    /\ Writing /\ latest < MaxVersion
    /\ latest' = latest + 1
    /\ shown' = latest + 1
    /\ writing' = "no"
    /\ SkipVersion(TRUE)
    /\ asked' = {}
    /\ spared' = [t \in Token |-> IF t \in asked THEN spared[t] \cup {latest + 1} ELSE spared[t]]
    /\ wake' = TRUE
    /\ UNCHANGED <<thread, at, count, next, have, callbacks, workerVars, signal, told>>

Cancel ==
    /\ Writing /\ asked = {}
    /\ writing' = "no"
    /\ UNCHANGED <<latest, shown, asked, thread, at, count, next, have, callbacks, workerVars, skip,
                   wake, signal, history>>

\* A write transaction of another Realm, of this process or of another.
OtherCommit ==
    /\ writing = "no" /\ ~(thread.pc = "wait" /\ thread.op = "begin")
    /\ latest < MaxVersion
    /\ latest' = latest + 1
    /\ SkipVersion(FALSE) \/ UNCHANGED skip
    /\ wake' = TRUE
    /\ UNCHANGED <<threadVars, callbacks, workerVars, signal, history>>

-----------------------------------------------------------------------------
(* The worker: RealmCoordinator::run_async_notifiers.                      *)

\* The notifiers that have left m_new_notifiers run to the version to be skipped first.
Collect ==
    /\ worker.pc = "idle" /\ wake
    /\ "lateSkip" \in Allowed \/ asked = {}
    /\ wake' = FALSE
    /\ worker' = [pc |-> IF skip = 0 \/ ~notifier.registered THEN "run" ELSE "skip",
                  skip |-> skip, version |-> latest]
    /\ skip' = 0
    /\ notifier' = [notifier EXCEPT !.registered = TRUE]
    /\ UNCHANGED <<latest, threadVars, callbacks, signal, history>>

\* Mutant: as if the flag of a callback were not cleared.
RunToSkippingAll(v) ==
    /\ notifier' = [notifier EXCEPT !.version = v, !.hasRun = TRUE]
    /\ LET changes == IF notifier.hasRun THEN notifier.version + 1 .. v ELSE {}
       IN  callbacks' = [t \in Token |->
               IF callbacks[t].on /\ ~callbacks[t].skipNext
               THEN [callbacks[t] EXCEPT !.accumulated = @ \cup changes]
               ELSE callbacks[t]]

\* Mutant: as if a callback that skips got the changes nevertheless.
RunToSkippingNone(v) ==
    /\ notifier' = [notifier EXCEPT !.version = v, !.hasRun = TRUE]
    /\ LET changes == IF notifier.hasRun THEN notifier.version + 1 .. v ELSE {}
       IN  callbacks' = [t \in Token |->
               IF callbacks[t].on
               THEN [callbacks[t] EXCEPT !.skipNext = FALSE, !.accumulated = @ \cup changes]
               ELSE callbacks[t]]

\* run and prepare_handover, with add_changes: a callback that is to skip the next
\* changes skips these.
RunTo(v) ==
    /\ notifier' = [notifier EXCEPT !.version = v, !.hasRun = TRUE]
    /\ LET changes == IF notifier.hasRun THEN notifier.version + 1 .. v ELSE {}
       IN  callbacks' = [t \in Token |->
               IF callbacks[t].skipNext THEN [callbacks[t] EXCEPT !.skipNext = FALSE]
               ELSE IF callbacks[t].on THEN [callbacks[t] EXCEPT !.accumulated = @ \cup changes]
               ELSE callbacks[t]]

RunToSkipped ==
    /\ worker.pc = "skip"
    /\ RunTo(worker.skip)
    /\ worker' = [worker EXCEPT !.pc = "run"]
    /\ UNCHANGED <<latest, threadVars, skip, wake, signal, history>>

\* Mutant: as if nobody were notified of what the worker has found.
RunSilently ==
    /\ worker.pc = "run"
    /\ RunTo(worker.version)
    /\ worker' = IdleWorker
    /\ UNCHANGED <<latest, threadVars, skip, wake, signal, history>>

\* The last run, after which on_change has the Realms notified.
RunToCollected ==
    /\ worker.pc = "run"
    /\ RunTo(worker.version)
    /\ worker' = IdleWorker
    /\ signal' = TRUE
    /\ UNCHANGED <<latest, threadVars, skip, wake, history>>

-----------------------------------------------------------------------------

WorkerStep == Collect \/ RunToSkipped \/ RunToCollected

\* for_each_callback goes on.
Calls == FinishRound \/ \E t \in Token : CallNext(t)

Next ==
    \/ \E t \in Token : AddCallback(t) \/ RemoveCallback(t)
    \/ Refresh \/ BeginTransaction \/ BeginInCallback
    \/ \E S \in SUBSET Token : Suppress(S)
    \/ Commit \/ Cancel
    \/ OtherCommit
    \/ Notify \/ Proceed \/ Calls
    \/ WorkerStep

Spec == Init /\ [][Next]_vars

\* The worker runs when it is woken, a wait is seen to have ended, a write transaction
\* is committed or cancelled, and, however often the program writes or refreshes,
\* callbacks return and the run loop comes to its signals.
FairSpec ==
    /\ Spec
    /\ WF_vars(WorkerStep) /\ WF_vars(Proceed) /\ WF_vars(Commit \/ Cancel)
    /\ SF_vars(Calls) /\ SF_vars(Notify)

-----------------------------------------------------------------------------

TypeOK ==
    /\ latest \in Version /\ shown \in Version
    /\ writing \in {"no", "outer", "inner"} /\ asked \subseteq Token
    /\ thread \in Thread
    /\ at \in 0 .. MaxToken /\ count \in Int /\ next \in 1 .. MaxToken + 1
    /\ have \in BOOLEAN
    /\ callbacks \in [Token -> Callback]
    /\ notifier \in Notifier /\ worker \in Worker
    /\ skip \in 0 .. MaxVersion
    /\ wake \in BOOLEAN /\ signal \in BOOLEAN
    /\ told \in [Token -> SUBSET Version] /\ spared \in [Token -> SUBSET Version]

\* The versions whose changes are on their way to a callback.
OnTheWay(t) ==
    callbacks[t].accumulated \cup callbacks[t].toDeliver \cup (notifier.version + 1 .. latest)

\* No change is lost between the file and a callback: of each version, a callback that
\* has had its initial call has seen the changes, or they are on their way to it, or its
\* token was given to that version's commit.
NothingLost ==
    \A t \in On : callbacks[t].initial => 1 .. latest \subseteq told[t] \cup spared[t] \cup OnTheWay(t)

\* No change is told twice.
NothingTwice ==
    \A t \in On : callbacks[t].initial => told[t] \cap OnTheWay(t) = {}

\* A callback that is called has seen exactly the changes up to what the Realm shows,
\* but for writes in callbacks.
InStep ==
    InCallback /\ writing = "no" /\ shown = thread.to /\ at \in On =>
        told[at] \subseteq 1 .. shown /\ 1 .. shown \subseteq told[at] \cup spared[at]

\* A change that a commit was asked not to tell a callback of is not told.
SparedNotTold ==
    \A t \in On : told[t] \cap spared[t] = {}

\* Every change reaches every callback that stays: again and again, and at last for good
\* because commits stop at the bound, there is none on its way.  (Of callbacks that have had
\* their initial call: one that is added in another callback does not wake the worker.)
EventuallyTold ==
    []<>(\A t \in On : callbacks[t].initial => 1 .. latest \subseteq told[t] \cup spared[t])

\* refresh and begin_transaction come back.
WaitsEnd == thread.pc = "wait" ~> thread.pc # "wait"
=================================================================================
