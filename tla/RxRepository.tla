------------------------------ MODULE RxRepository ------------------------------
(***************************************************************************)
(* RxRepository: each operation of a repository as a Single, which runs    *)
(* the operation anew for every subscription and every attempt of a retry. *)
(* The repository below it is any that does what Repository says.          *)
(*                                                                         *)
(* A Client is a subscription, whose Single has subscribeOn with a queue   *)
(* of its own and a retry: within it, subscribeOn(q) of retry(n), or       *)
(* around it, retry(n) of subscribeOn(q).  Another thread may dispose of   *)
(* the subscription at any time.                                           *)
(***************************************************************************)
EXTENDS Repository

CONSTANTS
    Requests,  \* the operations, with their arguments, that the Singles run
    Attempts   \* the n of retry(n)

RxOps == {"create", "update", "delete", "deleteAll"}

ASSUME RequestsOK ==
    /\ Requests \subseteq [op : RxOps, change : Change] /\ Requests # {}
    /\ Attempts \in Nat \ {0}
    /\ Nothing \notin [op : RxOps, change : Change]

VARIABLES
    sub,      \* the subscriptions
    effects,  \* history: how often the operation of each has taken effect
    late      \* history: how often it was called after the subscription was disposed of

rxVars == <<sub, effects, late>>
allVars == <<vars, rxVars>>

(***************************************************************************)
(* scheduled: on the queue; started: its block there has begun; running:   *)
(* in the repository; ended: the operation has returned; telling: the      *)
(* subscriber is being called; moving: retry subscribes once more.         *)
(***************************************************************************)
Subscription ==
    [pc : {"idle", "scheduled", "started", "running", "ended", "telling", "moving", "done"},
     request : Requests,
     within : BOOLEAN,        \* the retry is below subscribeOn
     left : 0 .. Attempts,    \* the attempts left
     disposed : BOOLEAN,
     told : {"none", "success", "error"}]

Fresh(pc, r, within) ==
    [pc |-> pc, request |-> r, within |-> within, left |-> Attempts, disposed |-> FALSE,
     told |-> "none"]

RxInit ==
    /\ Init
    /\ sub = [c \in Client |-> Fresh("idle", CHOOSE r \in Requests : TRUE, FALSE)]
    /\ effects = [c \in Client |-> 0]
    /\ late = [c \in Client |-> 0]

At(c, pc) == sub[c].pc = pc
Goto(c, pc) == sub' = [sub EXCEPT ![c].pc = pc]

-----------------------------------------------------------------------------

\* subscribe returns when the block is on the queue.
Subscribe(c, r, within) ==
    /\ At(c, "idle")
    /\ sub' = [sub EXCEPT ![c] = Fresh("scheduled", r, within)]
    /\ UNCHANGED <<vars, effects, late>>

Dispose(c) ==
    /\ sub[c].pc \notin {"idle", "done"} /\ ~sub[c].disposed
    /\ sub' = [sub EXCEPT ![c].disposed = TRUE]
    /\ UNCHANGED <<vars, effects, late>>

\* A block that is disposed of while it is on the queue does not begin.
Start(c) ==
    /\ At(c, "scheduled")
    /\ Goto(c, IF sub[c].disposed THEN "done" ELSE "started")
    /\ UNCHANGED <<vars, effects, late>>

\* The closure of Single.create.
CallBase(c) ==
    /\ At(c, "started")
    /\ LET r == sub[c].request
       IN  \/ /\ Call(c, IF r.op = "update" THEN "create" ELSE r.op, r.change)
              /\ sub' = [sub EXCEPT ![c].pc = "running", ![c].left = @ - 1]
           \/ /\ r.op = "update" /\ Refuse(c)
              /\ sub' = [sub EXCEPT ![c].pc = "ended", ![c].left = @ - 1]
    /\ late' = IF sub[c].disposed THEN [late EXCEPT ![c] = @ + 1] ELSE late
    /\ UNCHANGED effects

BaseReturns(c) ==
    /\ At(c, "running")
    /\ \/ Succeed(c) /\ effects' = [effects EXCEPT ![c] = @ + 1]
       \/ Fail(c) /\ UNCHANGED effects
    /\ Goto(c, "ended")
    /\ UNCHANGED late

\* Mutant: the generator has no end.
RetryForever(c) == result[c] # "success"

Retry(c) == result[c] # "success" /\ sub[c].left > 0

\* Mutant: done() reports no error.
DeliverSuccess(c) ==
    /\ At(c, "ended") /\ ~Retry(c)
    /\ Goto(c, IF sub[c].disposed \/ result[c] # "success" THEN "done" ELSE "telling")
    /\ UNCHANGED <<vars, effects, late>>

\* The event goes to the subscriber, unless the sink of subscribeOn is disposed.
Deliver(c) ==
    /\ At(c, "ended") /\ ~Retry(c)
    /\ Goto(c, IF sub[c].disposed THEN "done" ELSE "telling")
    /\ UNCHANGED <<vars, effects, late>>

\* Mutant: update tells of success if the repository has refused.
TellRefusal(c) ==
    /\ At(c, "telling")
    /\ sub' = [sub EXCEPT ![c].pc = "done",
                          ![c].told = IF result[c] = "error" THEN "error" ELSE "success"]
    /\ UNCHANGED <<vars, effects, late>>

\* The subscriber's closure is called; it may have been disposed of by now.
Tell(c) ==
    /\ At(c, "telling")
    /\ sub' = [sub EXCEPT ![c].pc = "done",
                          ![c].told = IF result[c] = "success" THEN "success" ELSE "error"]
    /\ UNCHANGED <<vars, effects, late>>

\* Mutant: retry goes on though it is disposed of.
MoveNextAnyway(c) ==
    /\ At(c, "ended") /\ Retry(c)
    /\ Goto(c, IF sub[c].within THEN "started" ELSE "moving")
    /\ UNCHANGED <<vars, effects, late>>

\* moveNextCommand.  A retry within subscribeOn runs to its end in the one block, which
\* nobody can dispose of; one around it is told of the error only if not disposed of.
MoveNext(c) ==
    /\ At(c, "ended") /\ Retry(c)
    /\ Goto(c, IF sub[c].within THEN "started" ELSE IF sub[c].disposed THEN "done" ELSE "moving")
    /\ UNCHANGED <<vars, effects, late>>

\* The next block goes to the queue, and may have begun before it is known to those who
\* would dispose of it.
Resubscribe(c) ==
    /\ At(c, "moving")
    /\ \/ Goto(c, IF sub[c].disposed THEN "done" ELSE "scheduled")
       \/ Goto(c, "started")
    /\ UNCHANGED <<vars, effects, late>>

RunOn(c) ==
    Start(c) \/ CallBase(c) \/ BaseReturns(c) \/ Deliver(c) \/ Tell(c) \/ MoveNext(c) \/ Resubscribe(c)

RxNext ==
    \E c \in Client :
        \/ \E r \in Requests, within \in BOOLEAN : Subscribe(c, r, within)
        \/ Dispose(c)
        \/ RunOn(c)

RxSpec == RxInit /\ [][RxNext]_allVars

\* Blocks on a queue run, and operations return.
FairRxSpec == RxSpec /\ \A c \in Client : WF_allVars(RunOn(c))

-----------------------------------------------------------------------------

\* The variables have their types, and the repository runs an operation for those
\* subscriptions that are in it and no other.
RxTypeOK ==
    /\ objects \in Contents
    /\ pending \in [Client -> {Nothing} \cup [op : RxOps, change : Change]]
    /\ \A c \in Client : (pending[c] # Nothing) = At(c, "running")
    /\ result \in [Client -> Results]
    /\ sub \in [Client -> Subscription]
    /\ effects \in [Client -> Nat] /\ late \in [Client -> Nat]

\* However often an operation is retried, and also when the subscription is disposed of
\* in between, it takes effect once at most; a subscriber is told of a success after it
\* has, and of an error only if no attempt has.
ToldTruth ==
    \A c \in Client :
        /\ effects[c] <= 1
        /\ sub[c].told = "success" => effects[c] = 1
        /\ sub[c].told = "error"   => effects[c] = 0

\* A subscription that is disposed of calls the repository once more at most, if the
\* retry is around subscribeOn.
OneLateCall == \A c \in Client : ~sub[c].within => late[c] <= 1

\* Every subscriber is told how it ended, or is disposed of.
EveryoneTold ==
    \A c \in Client : ~At(c, "idle") ~> (sub[c].told # "none" \/ sub[c].disposed)
=================================================================================
