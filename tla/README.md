# QBRepository in TLA+

QBRepository gives a Swift program one interface, `Repository`, to three places where objects
can be stored: files, a Realm, and Core Data. This directory holds models of the three
repositories, of the interface itself and its Rx wrapper, of the predicates they are queried with,
and of how Realm tells a program what has changed in a collection; the TLC runs that check the
models on small instances; and TLAPS proofs of what matters most for every instance.

Paths are relative to the repository root; `Sources/...` stands for `src/Sources/...`, and
`ObjectStore/...` for `src/Example/Pods/Realm/Realm/ObjectStore/src/...`.

Contents: [the system](#the-system) · [the modules](#the-modules) · [the runs](#the-runs) ·
[findings](#findings) · [fairness](#fairness) · [the proofs](#the-proofs) ·
[what is not modelled](#what-is-not-modelled) · [plan](#plan)

## The system

| Component | State it keeps | Operations | What must be right |
|---|---|---|---|
| `FileSystemRepository` (`Sources/FileSystem`) | one directory per model type, one JSON file per object, named by the hash value of the id; no lock, no cache | `getAll`, `getElement`, `getElements`, `create` (one, array), `update`, `delete` (one, array), `deleteAll`, `performTranscation` | no object is lost by operations that interleave, fail or are killed half way; ids lead to their own object; results tell the truth |
| `RealmRepository` (`Sources/Realm/RealmRepository.swift`) | a Realm: rows in a file, a version per thread, one write lock | the same; each write is one `realm.write` | commits are based on the newest version and hold only the operation's own changes; the lock comes free |
| `Realm+Cascade` (`Sources/Realm`) | the set `toBeDeleted` of a running cascade | `delete(_:cascade:)`, `add(_:cascade:update:)`, `deleteAll` | exactly what is reachable goes; the loop ends; it is known when it throws; what is added is there |
| `CoreDataRepository` (`Sources/CoreData`) | one `NSManagedObjectContext`, with changes that are pending until a save | the same, and `makeEntity` | what was saved stays; a failed transaction leaves nothing behind; deletes stay deleted |
| `Predicate`, `Operator`, `Property` | none: immutable values | operators on key paths; each predicate has an `evaluate` and an `NSPredicate` | both meanings agree, however they are nested |
| `Query` | a mutable list of predicates | `add`, `evaluate`, `createPredicate` | its conjunction is the same in both worlds |
| `Repository`, `AnyRepository`, `RepositoryEditResult` | none | the protocol, a type eraser, the result type | an operation takes effect as a whole and says whether it did |
| `RxRepository` | none of its own; a `Single` per operation, subscriptions in RxSwift | wraps each operation into a `Single` | an operation takes effect once however often it is retried; what is told is true |
| Realm change notifications (`ObjectStore/impl/collection_notifier.cpp`, `realm_coordinator.cpp`) | callbacks with accumulated and deliverable change sets, a version to be skipped, the worker's version | add and remove callbacks, refresh, begin and commit, autorefresh; the worker's run | each callback hears of each change once, in step with what the Realm shows |
| Change sets (`index_set.cpp`, `impl/collection_change_builder.cpp`, `impl/transact_log_handler.cpp`) | deletions, insertions, modifications and moves as sets of indexes in chunks | one per instruction of the transaction log; merge, complete, calculate, finalize | the change set leads from the rows that were told to those that are |
| rest of Realm, RealmSwift, RxSwift (vendored); tests; sample app | - | - | - |

How they interact. A program holds a repository and calls it from any thread; the repository
has no thread, timer or callback of its own. `FileSystemRepository` calls `FileManager`, one
call after the other, and two threads interleave between those calls. `CoreDataRepository`
serialises most operations on its context's queue (`performAndWait`), but all callers share
the context and what is pending in it; `delete(_: [Object])` is a loop outside the queue.
`RealmRepository` has a Realm for each thread and takes Realm's write lock; what it adds or
deletes goes through `Realm+Cascade`. A `Query` is evaluated object by object in
`FileSystemRepository` and handed to the store as an `NSPredicate` by the other two.
`RxRepository` calls a repository from a scheduler's queue, once per subscription and attempt.
What a `RealmRepository` commits on one thread reaches the callbacks of another through a
background worker: it reads the transaction log, builds change sets, and hands them over to be
delivered when the Realm of the callbacks moves to their version.

What is hard to test. The window between `removeItem` and `createFile`; two operations that
interleave between `FileManager` calls; a kill at any step; calls of an array of which some
fail; `Set.removeFirst`, whose choice no test controls, over graphs with shared objects and
cycles; a context shared by transactions and callers outside them; a commit that fails with
the lock in hand; an object that changes between the guard of `update` and its write; one
query with two implementations; a retry of what has taken effect; callbacks that come and go while
the worker and the round of calls run; sequences of moves, deletions and insertions that are
merged over several transactions. `hazards` in `PROJECT.json` names each one at its line.

## The modules

| Module | Models | Runs | Proofs |
|---|---|---|---|
| `FileSystemRepository` | every operation but `getElements`, split at the calls of `FileManager` | `FS_*` | `FileSystemRepositoryProofs` |
| `RealmCascade` | `Realm+Cascade.swift`, with the adds and deletes of `RealmRepository` over it | `RC_*` | `RealmCascadeProofs` |
| `Repository` | what the protocol promises, abstractly | refined in `RR_threads`, used in `RX_retry` | |
| `RealmRepository` | `realm.write` and the operations around it, on several threads; implements `Repository` | `RR_threads` | `RealmRepositoryProofs` |
| `RxRepository` | the `Single`s, over `Repository` | `RX_retry` | `RxRepositoryProofs` |
| `CoreDataRepository` | every operation that changes the context or the store | `CD_shared` | `CoreDataRepositoryProofs` |
| `Predicates` | predicates, operators, queries | `PQ_build` | `PredicatesProofs` |
| `CollectionNotifier` | callbacks, rounds of calls and the worker of one collection | `NT_changes` | `CollectionNotifierProofs` |
| `Indexes` | sets of indexes: the abstract meaning of `IndexSet` | refined in `IX_chunks` | `ChangeSetsProofs` |
| `IndexSet` | `IndexSet` as a vector of chunks of ranges | `IX_chunks` | |
| `CollectionChangeBuilder` | the operations on change sets, over `Indexes` | through the next | |
| `TransactLogObserver` | the instructions of the log, the lists that are observed, `ListNotifier` and `ResultsNotifier` | `CB_*` | `ChangeSetsProofs` |
| `MC...` | values for the constants of the above | | |

`RxRepository` EXTENDS `Repository`; `RealmRepository` instantiates it with a refinement mapping;
`IndexSet` compares itself with an instance of `Indexes`; `TransactLogObserver` EXTENDS
`CollectionChangeBuilder`, which EXTENDS `Indexes`. `CollectionNotifier` and the change sets meet in
one abstraction: a change set there is the set of versions whose changes it holds, here it is what
those changes are. Operators whose comment begins with "Mutant" are variants that the project's
mutation runs put in the place of the code's, to see that a property notices.

**FileSystemRepository.** `file` maps a file name to a decoded model, to garbage, or to no file;
`dir` says whether the directory exists; `hash` is the `hashValue` the process finds, one of
`Hashes`; `call[t]` is the operation a thread is in. One action per call of `FileManager`:
`CreateDirectory` (and encoding, which fails for `Unencodable` values and comes after the
directory, lines 87-89), `CheckExists`, `RemoveOld`, `CreateFile`, `FindFile`, `RemoveFile`,
`ListDirectory`, `SweepOne`, `ReadOne`. An array is worked through element by element, as `map`
does (`ItemReturns`), and the results are put together as lines 104-118 and 140 do. A listing is
read in any order. The calls of the threads in `Failing` may fail; with `Crashes` the process
is killed and started again between any two steps (`Restart`). History variables: `owed`, the
models written last for their id, under which name, and not deleted since; `steady[t]`, the names whose file was there since the
call of `t` began.

**RealmCascade.** Objects are unmanaged, rows (`managed`) or deleted (`invalid`), and link to each
other; `link` is arbitrary at the start. `toBeDeleted` is the `Set` of the loop; `Resolve(x)` is one
turn of it with any `x` as `removeFirst`'s result: insert what `x` links to, delete the row, which
takes the links of other rows to it along. `hasPK`, which each behaviour
has one way or the other, decides what `hash` does with an object:
with a primary key it reads a property, which throws for a deleted row. `Cyclic` admits cycles of
unmanaged objects. A Swift trap or an Objective-C exception ends the process (`Crash`).

**RealmRepository.** `file` is the newest version, `view[t]` the version the Realm of thread `t` shows,
`writer` the holder of the write lock. `Write` begins the transaction (the view moves to the
newest version, then the block of the operation is applied), `Commit` ends it and may fail, which
leaves the lock taken, since `Realm.write` does not cancel when the commit throws.
`PerformTransaction` runs a closure in `realm.write`; a call of the repository in it ends the
process (`WriteNested`). `gone[t]` are the keys whose object in `view[t]` another thread has deleted since: the
accessor of such an object is detached as soon as `realm.write` has moved to the newest version, even if the
key is in use again, and a delete of it ends the process in its hash (`Lost`, `WriteLost`), be it deleted before
the call or while the call waits for the lock. Objects are keys here: which linked objects go along is `RealmCascade`'s,
and so is a delete whose own cascade throws.
`Abstract` maps the state to `Repository`: `objects` is `file`, an operation is pending until its
commit or error, and its outcome is decided where the code decides it.

**Repository.** `objects` maps ids to objects, `pending[c]` is the operation of a client, `result[c]` how
its last one ended. An operation takes effect as a whole when it returns a success, and not at all
when it returns an error.

**RxRepository.** A subscription is scheduled on its queue, starts, runs the operation, and tells the
subscriber or moves on to the next attempt. `within` says on which side of `subscribeOn` the `retry`
is: inside, the attempts run in one block of the queue; outside, each is scheduled anew. Another
thread may dispose of a subscription at any step.

**CollectionNotifier.** Versions are numbers and every commit changes the collection. Steps are the
sections under `m_notifier_mutex` and `m_callback_mutex`: the worker's `Collect`, `RunToSkipped`,
`RunToCollected` (`RealmCoordinator::run_async_notifiers`); the thread's `Refresh`, `BeginTransaction`,
`Proceed` (the wait for the worker and `package_for_delivery`), `CallNext` (one turn of
`for_each_callback`), `Commit`, `Suppress` (the tokens of `commitWriteTransactionWithoutNotifying`), `Notify`
(the run loop). A callback whose token the commit spares is not
removed before that commit. Four cases in which the code breaks a promise are guarded by `Allowed`, so that the rest can
be checked beside them: see the findings.

**Indexes, IndexSet.** `Indexes` says what `shift`, `unshift`, `insert_at`, `erase_at`, `add_shifted` and
their likes do to a set. `IndexSet` is `m_data` itself, a sequence of chunks of ranges with `begin`, `end` and
`count`, and operators on it that split, empty and join chunks as the code does; an action is an
operation of the class.

**CollectionChangeBuilder, TransactLogObserver.** A change set is a record with the fields of
`CollectionChangeBuilder`, `m_move_mapping` included. A behaviour is a sequence of instructions on one list or
one table, cut into transactions by `add_changes` (a list) and `advance_incremental` (a table), which
merge. Rows have identities, so that the property can say which row a change is about. `start` and
`told` are the rows when the transaction began and when the callback was told last. `kind` selects what is
observed: a list, a table in its order, sorted Results, a table of which only modifications are needed, or
a table with observed lists in its rows. Column numbers, types and contents are not in the model.

**CoreDataRepository.** `store` is what is saved and `ctx` what the context shows, both by object;
`owner` and `depth` are the queue and the `performTranscation`s on it. An object made by
`makeEntity` is `Blank` until its required attributes are set, and no save passes while one is.
`held` are the objects the program has a reference to.

**Predicates.** A predicate is what it selects: `evaluate`, the objects on which its `evaluate` is
true, and `yes` and `no`, those on which the store finds its `NSPredicate` true and false. With
`sql` a comparison with null is neither; without, it is false. Objects have a number `n` and an
optional number `o`. Expressions are evaluated on a stack, one operator per action, then
moved into a `Query`. `meant` is what the expression says in Swift as it is written.

## The runs

| Run | Checks | Instance |
|---|---|---|
| `FS_concurrent` | `TypeOK`, `NoLoss`, `LookupById`, `GetAllComplete`, `DeleteTakesEffect`, `DeleteAllTakesEffect` | 2 threads, 2 ids, an array of 2, restarts into launches that hash one id differently (in one of them both ids alike), failing calls of one thread, a value that cannot be encoded, a file that does not decode |
| `RC_graph` | `TypeOK`, `DeleteExact`, `KeyedDeleteThrows`, `CreateStoresGraph`, `TerminatesUnlessCyclic` | every graph of 3 objects, with primary keys and without, 1 or 2 arguments |
| `CD_shared` | `TypeOK`, `AckedSurvives`, `FailedTransactionLeavesNoTrace`, `DeleteAllClears` | 2 callers, 2 objects, transactions 2 deep, failures, crashes |
| `RR_threads` | `TypeOK`, `ImplementsRepository`, `DeletesWhatIsStored`, `LockReleased` | 2 threads, 2 keys, failing commits, process deaths |
| `RX_retry` | `RxTypeOK`, `ToldTruth`, `OneLateCall`, `EveryoneTold` | 2 subscribers, 1 id, 3 attempts |
| `PQ_build` | `TypeOK`, `EvaluatesAsWritten`, `StoresAgree`, `QueriesAgree` | numbers 1 and 2, up to 3 comparisons in the expressions and the query together |
| `NT_changes` | `TypeOK`, `NothingLost`, `NothingTwice`, `InStep`, `SparedNotTold`, `EventuallyTold`, `WaitsEnd` | 4 versions, 2 callbacks added |
| `IX_chunks` | `Normal`, `ImplementsSets` | indexes below 8, chunks of 2 ranges, sets as arguments below 4 |
| `CB_changes` | `ListFaithful`, `TableFaithful`, `ResultsFaithful`, `ListsFollow` | 3 rows at the start, 4 instructions and ends of transactions, all five kinds |
| `FS_batch_error`, `RC_children`, `CB_deleted` | one property each, violated: see the findings | as small as shows it |

What they show, in short: files are lost in one window only, the one between `removeItem` and
`createFile` of the same file, or to another id that is given the same hash value in this or another
launch (`NoLoss`). A lookup by id goes wrong in just the ways hash values make it: another id's object
where two meet, an old version or none where launches hash the id differently (`LookupById`). A delete that reports success deleted; a listing returns what was there throughout. A cascade
deletes exactly what was reachable when it began, whatever `removeFirst` picks; with primary keys it
ends the process if an earlier argument leads to a later one, and not otherwise, rows that link to
themselves aside (`KeyedDeleteThrows`). A transaction of
Core Data that fails and saved nothing leaves nothing, though all callers share the context. The
`RealmRepository`s of all threads together behave as one atomic `Repository`, failing commits included
(`ImplementsRepository`, a refinement), and a `delete` that reports success has found its objects there, however
far behind its Realm was (`DeletesWhatIsStored`). Through `RxRepository` an operation takes effect once at most
for each subscription, however often it is retried, and a subscriber is never told otherwise (`ToldTruth`). A
predicate selects the same objects in all three repositories where no property is missing and no
pattern is asked for. A callback hears of every change once, never of a version that the Realm
does not show, and, if it stays, of all of them in the end. A change set, of one transaction or of several merged ones,
leads from the old rows to the new ones; the vector of chunks behind it is the set it stands for.

Why the bounds are enough to be interesting. Two threads and two ids give every pair of operations
on the same and on different files; the window properties need one thread inside an
operation and another to run past it. Three objects give chains, shared children, self-links and
cycles, and an argument that an earlier one has deleted. Depth 2 gives a transaction inside another. Two numbers
and a missing one give each of less, equal, greater and absent on either side of a comparison; three comparisons
give a nested negation and a query of compound predicates. Three attempts give a first, a
middle and a last one. Four versions give a worker that is a version behind a Realm that is one
behind the file, and a callback that writes twice before somebody else commits; two callbacks give one that removes the other. Chunks of 2 ranges (the code has 256, and 4 in debug builds) are
split by the third, and 8 indexes hold 4 ranges, thus up to 4 chunks. Three rows give a first, a last and
one between; four steps give an instruction on either side of a merge and two in a row, such as a move,
the end of the transaction, a move back and a delete. The proofs cover all other sizes,
except where the next sections say so.

Larger instances than those that are listed were explored once and hold as well: `NT_changes`, safety only, with
3 versions and 3 callbacks (739 677 states) and with 5 versions and 1 (94 215); `CB_changes` of a table with 4 rows and 5 steps
(1 108 560 states), sorted with 4 and 4 (1 602 599), and long random behaviours of each kind.

`CHECK_DEADLOCK FALSE` is in the `RC_*` runs, where the process may end with an uncaught exception, in
`RX_retry`, where all subscriptions come to an end, and in `CB_*`, whose behaviours end at `MaxSteps`.
Symmetry is used in `CD_shared` only, of callers and objects: it checks no liveness property.

`GetAllComplete` is about listings whose calls of `FileManager` succeed and whose files decode,
`DeleteTakesEffect` claims nothing of an error that a failing call of `FileManager` made; that
`fileExists` answers no when it fails is not modelled. `hashValue` is seeded at every launch since Swift
4.2, and the podspec has 4.0: `FS_concurrent` has one launch in which the two ids have names of their own and one
in which `i1` has that of `i2`, and the theorems have any set of hash functions. `NoLoss` and `LookupById` excuse
what clashes and seeds do (`Shared`, and the last part of `LookupById`) in those terms only, so that everything
else is still claimed beside them: in the run the first launch's file of `i1` is never shared, and `i2` keeps
its name in all launches.

Three properties are defined and proved but not run, because those that are run imply or cover them:
`BystandersSurvive` (`DeleteExact`), `OnlyOwnChangesCommitted` and `DeleteAllClears` of `RealmRepository`
(`ImplementsRepository`).

## Findings

Each is a run whose one property TLC finds violated.

| Run | What the code does | Where |
|---|---|---|
| `FS_batch_error` | `create` of an array picks as `firstError` the first *success*, and reports success though a model was not stored | `FileSystemRepository.swift:104` |
| `RC_children` | `create` of a model with a child that is already stored deletes the child, and the add then throws | `Realm+Cascade.swift:45` |
| `CB_deleted` | a list that is changed and deleted in one transaction is reported with insertions, moves and modifications that are in no list | `ObjectStore/impl/list_notifier.cpp:79` |

Seen while modelling, without a run:

- The guard of `update` is inverted: a stored object is refused with `noOriginalObject`, and one that is not
  stored is inserted (`RealmRepository.swift:79`). The model has the guard as it is.
- `create` or `delete` of a model whose unmanaged objects link to each other in a cycle never ends
  (`Realm+Cascade.swift:84`); `TerminatesUnlessCyclic` leaves that case out.
- With a primary key, a delete of several models throws at one that an earlier one leads to
  (`Realm+Cascade.swift:59`): `deleteAll` of linked models does. `KeyedDeleteThrows` says exactly when.
- So does a delete of an object that another thread has deleted and this Realm still shows
  (`RealmRepository.swift:96`).
- A delete outside a transaction is only pending, and is undone by the rollback of somebody's later
  transaction (`CoreDataRepository.swift:173`).
- `create` in `FileSystemRepository` drops the `Bool` of `createFile` and reports success for a write that
  failed, after the old file is gone (`FileSystemRepository.swift:94`).
- `getElements` of `FileSystemRepository` groups into a `Dictionary` after it has sorted, which loses the order
  (`FileSystemRepository.swift:75`).
- `create` of `CoreDataRepository` ignores its argument and saves the context: of an object that is no longer
  in it it reports success (`CoreDataRepository.swift:94`).
- `OrPredicate.compoundPredicate` ends in the empty predicate and is true for every object
  (`Predicate.swift:193`); nothing calls it.
- A callback that is added inside another callback does not wake the worker, and has no initial call
  until something else does (`ObjectStore/impl/collection_notifier.cpp:190`).
- The four cases of `CollectionNotifier!Allowed`. `removeNew`: a callback that is added in a callback and removed in the
  same round counts down `m_callback_count`, and the last of the others is left out of the round
  (`ObjectStore/impl/collection_notifier.cpp:214`; breaks `NothingLost` with three callbacks). `writeAhead`: a callback that writes while
  the notifier is behind, or twice in one round, moves the Realm past what has been found, which is then
  discarded (`ObjectStore/impl/realm_coordinator.cpp:787`; breaks `NothingLost`; the code's comment knows it).
  `overwriteSkip`: a second commit replaces the version to be skipped of one that was given tokens before the worker
  comes to it, and the changes of both are skipped (`ObjectStore/impl/realm_coordinator.cpp:404`; breaks
  `NothingLost` and `InStep`). `lateSkip`: the worker runs between the tokens and the commit and uses
  them up (`ObjectStore/impl/collection_notifier.cpp:410`; breaks `SparedNotTold`).
- The cases of `TransactLogObserver!Allowed`. `deletedAfterChange` is the run above. `lastListMoves`: when a row with
  an observed list is erased, the loop puts the last list in its place and does not look at it, so it keeps a
  stale row if its row is the one that moves (`ObjectStore/impl/transact_log_handler.cpp:576`; breaks
  `ListsFollow`). `clearMerged`: `clear_table` deletes the indexes below 2^64 - 1, and merged with another version
  `add_shifted_by` goes through them one by one (`ObjectStore/index_set.cpp:396`). `untrackedMerged`: versions of a
  table without move information are merged as if it had some, and modifications are left on
  other rows (`ObjectStore/impl/realm_coordinator.cpp:594`; breaks `TableFaithful`). `swapMerged`: when a swap is merged with an
  earlier version the moves are cleaned up by places that it no longer has
  (`ObjectStore/impl/collection_change_builder.cpp:130`; breaks `ResultsFaithful` with four rows and five steps).
- Moves that merge puts together are not sorted, and `ResultsNotifier` searches them by bisection: a row that
  moved may be told as deleted and inserted (`ObjectStore/impl/results_notifier.cpp:138`). That is still a faithful
  change set, and the properties allow it for merged ones.
- `ChunkedRangeVectorBuilder::push_back` gives a chunk beyond those it was made with the count 1
  (`ObjectStore/index_set.cpp:244`); `IndexSet::count` is wrong if it starts within a chunk and
  the next ends before the end (`ObjectStore/index_set.cpp:291-302`), which only ever decides
  between two matches of a length. `IX_chunks` leaves both out.

## Fairness

Safety runs assume none. `RealmCascade!FairSpec` has weak fairness on `Step`, the running
operation's next step: the loops run on the caller's thread, and nothing stops it. Which object
`removeFirst` takes is not constrained: `TerminatesUnlessCyclic` holds for any choice.
`RealmRepository!FairSpec` has weak fairness of each thread's `Step`: a thread in `realm.write` runs
on, and the closure of a `performTranscation` returns. The write lock is not assumed to be granted
fairly, no operation is assumed to be called, and a commit may fail any number of times.

`RxRepository!FairRxSpec` has weak fairness of each subscription's own steps: a queue runs its blocks, and the
repository returns. That somebody subscribes or disposes is not assumed.
`CollectionNotifier!FairSpec` has weak fairness of the worker, which waits for its pipe in a loop; of `Proceed`, a
thread that waits on the condition variable and is woken; and of the end of a write transaction that
the thread has begun. It has strong fairness of `Calls` and of `Notify`: a round of calls goes on between whatever the
callbacks do, and the run loop comes to its signals again and again although the program's own
writes and refreshes may make them void for a while. Weak fairness would allow a program that always
has a transaction open when the run loop looks.

## The proofs

All theorems hold for any values of the constants that meet the `ConstantsOK` of their module,
which the runs evaluate on their instances.

- **FileSystemRepository.** `TypeCorrect`, `NothingLost`, `LookupByIdWorks`, `GetAllsComplete`,
  `DeletesTakeEffect`, `DeleteAllsTakeEffect`. `NoLoss` and `LookupById` hold for any set of
  hash functions, with clashes and a new one at each launch. They need three more invariants (`FilesInv`): every model is in a file that some launch hashes its id
  to (`Placed`); every owed model is where it was written, or about to be, or its file is another id's as well (`Kept`); and
  what a file holds is owed, but for ids that launches hash apart (`Current`). The delete properties rest on `EffectInv`, which says what each
  step of a call has seen of `steady`.
- **RealmCascade.** `TypeCorrect`, `DeletesExact`, `BystandersSafe`, `KeyedDeletesThrow`, for any finite
  or cyclic graph, with and without primary keys; `CreatesStoreGraph`. The invariant is
  `CascadeInv`: *Sound*, everything deleted or in the set was reachable at the start; *Complete*, everything
  reachable that is left is still reached from the set or the rest of the arguments. Neither is
  enough alone, since deleting a row cuts the links of others to it. `KeyedDeletesThrow` sets each argument against those
  before it (`KeysInv`): what they led to is gone when its turn comes (`LeadIsGone`, by `Complete`), and nothing else is; and while
  no row links to itself the set holds rows only, so that no hash in the loop throws.
- **CoreDataRepository.** `TypeCorrect`, `StoredObjectsSurvive`,
  `FailedTransactionsLeaveNoTrace` (invariant `StoreKept`: a transaction that has saved nothing finds the
  store as it began), `DeleteAllsClear` (invariant `Listed`: while `deleteAll` runs, what the context
  shows is on its list).
- **RealmRepository.** `TypeCorrect`, `CommitsAreOwn` (invariant `Isolated`: the writer's view
  differs from the file in the keys it has touched only), `DeleteAllsClear` (invariant `Cleared`),
  `DeletesFindTheirObjects` (invariants `Seen`: what a Realm shows and is not in `gone` is in the file; and `Found`: from its block to its
  commit, the file holds what a delete is deleting), and `Implements`: every step is a step of `Repository` or a stutter (`Simulates`), which needs `Decided`, that
  what an operation is about to commit is what the abstract one would.
- **RxRepository.** `RxTypeCorrect`, `ToldIsTrue`, `LateOnce`, for any number of subscribers,
  requests and attempts. `RxInv` ties the state of a subscription to its effects: none before the
  repository has returned a success, one after, and no attempt begins after one.
- **CollectionNotifier.** `NTTypeCorrect`, `ToldOnce`, for any number of versions and callbacks and for every
  `Allowed`. `NTInv` says where the versions are: what a callback has been told, what it has accumulated, what
  is to be delivered and what the worker has still to read do not overlap. `ChangesArrive`, `CalledInStep` and
  `TokensSpare`, if nothing is `Allowed`. That together these places also hold everything needs `DeliveryInv`, of which each
  part is there for one way to lose a change: `SkipsNext`, the worker's next run is of exactly the version that a callback is to skip,
  or others would be skipped along with it; `Delivered`, nothing waits to be delivered when the next round overwrites it, and
  there is nothing to discard when the Realm is ahead of the notifier; `WriterUpToDate`, which makes that so when the
  Realm commits; `InRound`, those behind the loop's place have been called and those ahead will be,
  however callbacks come and go, since the number of callbacks before one and `m_callback_count` change together. The attempt
  showed that `writeAhead` has a second form, which the instance of three versions was too small for.
- **Change sets.** `ShiftWorks`, `ShiftUndoesUnshift`, `EraseUndoesInsert` are facts about any finite sets of
  indexes, on which merge, finalize and the Results rely; `Shift` is a CHOOSE, and the first shows that there is
  something to choose. `ListsAlwaysFollow`: lists follow their rows through any instructions, for any number of
  rows and lists, if `lastListMoves` is left out. `FollowInv` adds to `ListsFollow` that rows are distinct, also from those that
  are still to come, that no two lists are of one row, and that only rows of the old table have lists.
  `ListsAreToldFaithfully`: for any number of rows, instructions and versions, if `deletedAfterChange` is left out, what a list's
  observer is told leads from the rows it was told before to the rows there are now. `ListInv` says it of both halves: the change
  set of the transaction *leads* from its first version to the current one, and the one that has accumulated leads from what was told
  to that first version. To lead (`Leads`) is: the rows that are neither deleted nor inserted are the same, in the same order
  (`Matches`); a move goes from a deleted place to an inserted one and carries one row; every row that is in both versions and is
  deleted and inserted has a move. It is the last of these that makes the rest inductive, because an erase after a move
  has to find the move. Each instruction keeps it (`LeadsInserted`, `LeadsErased`, `LeadsMoved`, ...), and so does the end
  of a version, by `MergeLeads`: if one change set leads from A to B and another from B to C, what `merge` makes of them
  leads from A to C, provided that a row of A that is in C is in B, which rows that never come back ensure. Modifications are
  a part of their own, `ModsAre`: exactly the current places of the modified rows. `merge` goes through the moves one by one; the
  definitions for it are functions on `0 .. Len`, for which the proof has an invariant of the loop (`Followed`) and a
  smallest counterexample in the place of an induction theorem.
  `TablesAreToldFaithfully`: the same for the observer of a table, with and without move information, if `clearMerged` and
  `untrackedMerged` are left out. A table's change set does not lead step by step, because the last row takes the place of
  one that is deleted and moves are only made when the log has been read. What every instruction keeps is `Fixed`: an index that is
  neither deleted nor inserted holds the same row in both versions (`Shape`), and `mapping` names, for every other row that is
  in both, the place it came from (`CameFrom`). So `CameFrom` is exactly "the same row", and that is inductive: `move_over`,
  `swap` and `subsume_identity` change the rows and the mapping alike (`MovedOverGives`, `SwappedGives`,
  `SubsumedGives`, each followed by `Shape...` and `...KeepsTable`). `TableInv` adds that `deletions` stay below the size of the
  table, or are all of `clear_table`'s and nothing has accumulated, and says the modified rows by `ModsAre`. `parse_complete` turns the
  mapping into moves in the order of their origin (`CompletedTells`), which the bisection in the notifier finds (`LowerBoundGives`); merged
  with what has accumulated they lead (`TellsLeads`), and `MergeLeads` does the rest, as for lists.
- **Predicates.** `TypeCorrect`, `EvaluatesRight`, `StoresAlwaysAgree`, `QueriesAlwaysAgree`. `Good` is what
  is claimed of one predicate; each operator is shown to preserve it, and the stack and the query
  hold only what operators made.

Model-checked only: the liveness properties `TerminatesUnlessCyclic`, `LockReleased`, `EveryoneTold`,
`EventuallyTold` and `WaitsEnd`, which the prover has no backend for; `ResultsFaithful`, where the change set is computed from two lists
by a longest-common-subsequence search, which no invariant of the log's instructions describes; all of `IndexSet`, whose operators are recursive; and the three violations,
which are facts about single behaviours.

## What is not modelled

- `getElements` of each repository: filter, sort and distinct. It changes no state; see the plan.
  With it the key paths for sorting and distinct.
- `AnyRepository`, which forwards each call; the `Single`s of `RxRepository` that read.
- `AndPredicate.compoundPredicate` and `OrPredicate.compoundPredicate`, which nothing calls; NaN, strings
  and patterns beyond "the two sides may select different objects"; widths of integers, as nothing
  is computed with them.
- Overwriting a stored row by primary key in the cascade module (`RealmRepository` has the overwrite, without the graph).
- A program that uses one Core Data object from two threads without the queue, and access to Realm objects
  from a foreign thread: both are errors of the caller that the frameworks trap.
- Of notifications: errors, KVO and *before* callbacks, `invalidate`, notifiers that die, several collections
  and several Realms with callbacks in one model.
- Of change sets: the sets of single columns, columns and tables that are inserted or moved, sub-tables, the search along links
  for modified objects (`DeepChangeChecker`), a list that holds an object twice, two notifiers of one
  list, notifiers of single objects.
- The rest of `Example/Pods`: Realm's storage engine, its query engine and its sync client are headers or binaries of
  third parties, by far the most lines of the repository, and none of its own. What the repositories
  rely on of them was read there and is part of the modules that use it, and what tells a program about changes has modules
  of its own; `NSManagedObjectContext`, `FileManager` and `NSPredicate` are external, modelled by how they
  are called.

## Plan

Done, in this order, the most important behaviour first: the file repository, the cascade,
Core Data, Realm's transactions, predicates and queries; the abstract `Repository` and the
refinement, `RxRepository` over it; change notifications and change sets.

1. `Elements`: `getElements` as a function of a list of objects (filter, then distinct by hash
   value, then sort, in the order of each repository), against a definition of what it should return, by TLC
   over bounded lists; both `compoundPredicate`s with it, and a query with two holders.
2. More refinements of `Repository`: `CoreDataRepository` with `ctx` as the map while nothing fails;
   `FileSystemRepository` for one thread without crashes, and with a weaker
   abstraction (an update may be seen as a delete and a create) for several.
3. `CollectionNotifier` composed with `TransactLogObserver`: change sets in the place of sets of versions, with several collections.
4. `RealmCascade` composed with primary keys that are overwritten, and the cascade inside `RealmRepository`'s `Effect`.
5. A proof of what `calculate` finds for a query: that `find_longest_matches` returns blocks that are equal in both lists and in
   order, for lists of any length, whatever the blocks are; and that rows which are in no block are told as deleted,
   inserted or moved. `find_longest_matches` is a recursive function of four bounds, so the smallest counterexample would be one in the
   difference of two of them.
