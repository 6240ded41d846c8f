------------------------------- MODULE Repository -------------------------------
(***************************************************************************)
(* What the protocol Repository promises, for a store that keeps its       *)
(* promises: a map from ids to objects on which every operation takes      *)
(* effect as a whole, at one moment between its call and its return, if it *)
(* returns a success, and not at all if it returns an error.  A crash ends *)
(* the operations that are running, and none of them is half done.         *)
(*                                                                         *)
(* RealmRepository is shown to implement it; RxRepository is built on it.  *)
(***************************************************************************)
EXTENDS Naturals

CONSTANTS
    Client,   \* callers: threads, subscribers
    Key,      \* ids
    Val,      \* what an object holds beside its id
    None,     \* no object with this id
    Nothing   \* no operation is running

VARIABLES
    objects,  \* the object stored under each id
    pending,  \* the operation that each client is in
    result    \* how the last one ended

vars == <<objects, pending, result>>

Contents == [Key -> Val \cup {None}]

\* What an operation puts under some of the ids; None deletes.
Change == UNION {[D -> Val \cup {None}] : D \in SUBSET Key}

Empty == [k \in Key |-> None]

Results == {"none", "success", "error", "noOriginalObject"}

Init ==
    /\ objects \in Contents
    /\ pending = [c \in Client |-> Nothing]
    /\ result = [c \in Client |-> "none"]

\* create and update put, delete deletes the objects it is given; the transaction of
\* performTranscation may do anything.
Outcomes(p) ==
    CASE p.op = "deleteAll" -> {Empty}
      [] p.op = "perform"   -> Contents
      [] OTHER -> {[k \in Key |-> IF k \in DOMAIN p.change THEN p.change[k] ELSE objects[k]]}

Call(c, op, change) ==
    /\ pending[c] = Nothing
    /\ pending' = [pending EXCEPT ![c] = [op |-> op, change |-> change]]
    /\ UNCHANGED <<objects, result>>

Returns(c, r) ==
    /\ pending' = [pending EXCEPT ![c] = Nothing]
    /\ result' = [result EXCEPT ![c] = r]

Succeed(c) ==
    /\ pending[c] # Nothing
    /\ objects' \in Outcomes(pending[c])
    /\ Returns(c, "success")

Fail(c) ==
    /\ pending[c] # Nothing
    /\ Returns(c, "error")
    /\ UNCHANGED objects

\* update finds out about its original object before it does anything.
Refuse(c) ==
    /\ pending[c] = Nothing
    /\ result' = [result EXCEPT ![c] = "noOriginalObject"]
    /\ UNCHANGED <<objects, pending>>

Crash ==
    /\ pending' = [c \in Client |-> Nothing]
    /\ result' = [c \in Client |-> "none"]
    /\ UNCHANGED objects

Next ==
    \/ \E c \in Client :
         \/ \E op \in {"create", "delete", "deleteAll", "perform"}, change \in Change :
                Call(c, op, change)
         \/ Succeed(c) \/ Fail(c) \/ Refuse(c)
    \/ Crash

Spec == Init /\ [][Next]_vars
=================================================================================
