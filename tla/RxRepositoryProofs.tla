--------------------------- MODULE RxRepositoryProofs ---------------------------
(***************************************************************************)
(* For any number of subscriptions, any requests and any number of         *)
(* attempts, what the run RX_retry checks of RxRepository, but for the     *)
(* liveness.  The strengthening ties effects to the last result and to the *)
(* place in the chain.                                                     *)
(***************************************************************************)
EXTENDS RxRepository, TLAPS

\* An operation has taken effect if and only if its last attempt has ended in success,
\* and then nothing but its event is still to come.
Settled(c) ==
    /\ effects[c] = IF result[c] = "success" THEN 1 ELSE 0
    /\ result[c] = "success" => sub[c].pc \in {"ended", "telling", "done"}
    /\ sub[c].told = "success" => result[c] = "success"
    /\ sub[c].told = "error" => result[c] # "success"
    /\ sub[c].told # "none" => sub[c].pc = "done"

\* A late call is the last one, if the retry is around subscribeOn.
LastCall(c) ==
    /\ sub[c].pc = "idle" => late[c] = 0
    /\ late[c] # 0 /\ ~sub[c].within =>
          /\ late[c] = 1 /\ sub[c].disposed
          /\ sub[c].pc \in {"running", "ended", "telling", "done"}

\* A subscription that is about to call the repository has an attempt left.
MayCall(c) == sub[c].pc \in {"scheduled", "started", "moving"} => sub[c].left > 0

RxInv ==
    /\ RxTypeOK
    /\ \A c \in Client : Settled(c) /\ LastCall(c) /\ MayCall(c)

-----------------------------------------------------------------------------

LEMMA FreshOK ==
    ASSUME NEW r \in Requests, NEW w \in BOOLEAN, NEW pc \in {"idle", "scheduled"}
    PROVE  Fresh(pc, r, w) \in Subscription
BY RequestsOK DEF Fresh, Subscription

\* What an operation of the repository below leaves is a map from ids to objects.
LEMMA OutcomesOK ==
    ASSUME objects \in Contents, NEW p \in [op : RxOps, change : Change], NEW o \in Outcomes(p)
    PROVE  o \in Contents
<1>1. CASE p.op \in {"deleteAll", "perform"}
  BY <1>1 DEF Outcomes, Contents, Empty
<1>2. CASE p.op \notin {"deleteAll", "perform"}
  <2>1. PICK D \in SUBSET Key : p.change \in [D -> Val \cup {None}]
    BY DEF Change
  <2>2. o = [k \in Key |-> IF k \in DOMAIN p.change THEN p.change[k] ELSE objects[k]]
    BY <1>2 DEF Outcomes
  <2> QED BY <2>1, <2>2 DEF Contents
<1> QED BY <1>1, <1>2

LEMMA RxInvInit == RxInit => RxInv
<1> SUFFICES ASSUME RxInit PROVE RxInv
  OBVIOUS
<1> DEFINE r == CHOOSE r \in Requests : TRUE
<1>1. r \in Requests
  BY RequestsOK
<1>2. \A c \in Client : sub[c] = Fresh("idle", r, FALSE)
  BY DEF RxInit
<1>3. sub \in [Client -> Subscription]
  BY <1>1, FreshOK DEF RxInit
<1>4. RxTypeOK
  BY <1>2, <1>3 DEF RxTypeOK, RxInit, Init, Results, At, Fresh
<1>5. ASSUME NEW c \in Client PROVE Settled(c) /\ LastCall(c) /\ MayCall(c)
  BY <1>2, RequestsOK DEF RxInit, Init, Settled, LastCall, MayCall, Fresh
<1> QED BY <1>4, <1>5 DEF RxInv

-----------------------------------------------------------------------------

\* A step of one subscription that leaves the repository below alone.
LEMMA OwnStep ==
    ASSUME RxInv, NEW c \in Client, NEW s \in Subscription,
           sub' = [sub EXCEPT ![c] = s], UNCHANGED <<vars, effects, late>>,
           sub[c].pc # "running", s.pc # "running",
           Settled(c)', LastCall(c)', MayCall(c)'
    PROVE  RxInv'
<1>1. sub' \in [Client -> Subscription]
  BY DEF RxInv, RxTypeOK
<1>2. ASSUME NEW d \in Client PROVE Settled(d)' /\ LastCall(d)' /\ MayCall(d)'
  <2>1. CASE d = c
    BY <2>1
  <2>2. CASE d # c
    BY <2>2 DEF RxInv, RxTypeOK, Settled, LastCall, MayCall, vars
  <2> QED BY <2>1, <2>2
<1>3. ASSUME NEW d \in Client PROVE (pending'[d] # Nothing) = At(d, "running")'
  BY DEF RxInv, RxTypeOK, At, vars
<1> QED BY <1>1, <1>2, <1>3 DEF RxInv, RxTypeOK, vars

\* Only the place in the chain changes.
LEMMA Moves ==
    ASSUME RxInv, NEW c \in Client, NEW pc, Goto(c, pc), UNCHANGED <<vars, effects, late>>,
           pc \in {"started", "telling", "moving", "scheduled", "done"},
           sub[c].pc \notin {"running", "done"}, sub[c].told = "none",
           result[c] = "success" => pc \in {"telling", "done"},
           late[c] = 0 \/ sub[c].within \/ pc \in {"telling", "done"},
           pc \in {"started", "scheduled", "moving"} => sub[c].left > 0
    PROVE  RxInv'
<1> DEFINE s == [sub[c] EXCEPT !.pc = pc]
<1>1. sub[c] \in Subscription
  BY DEF RxInv, RxTypeOK
<1>2. s \in Subscription /\ s.pc = pc
  BY <1>1 DEF Subscription
<1>3. sub' = [sub EXCEPT ![c] = s] /\ sub'[c] = s
  BY DEF Goto, RxInv, RxTypeOK
<1>4. s.told = "none" /\ s.left = sub[c].left /\ s.within = sub[c].within /\ s.disposed = sub[c].disposed
  BY <1>1 DEF Subscription
<1>5. Settled(c)'
  BY <1>2, <1>3, <1>4 DEF RxInv, Settled, vars
<1>6. LastCall(c)'
  BY <1>2, <1>3, <1>4 DEF RxInv, LastCall, vars
<1>7. MayCall(c)'
  BY <1>2, <1>3, <1>4 DEF MayCall
<1> HIDE DEF s
<1> QED BY <1>2, <1>3, <1>5, <1>6, <1>7, OwnStep

LEMMA NotTold ==
    ASSUME RxInv, NEW c \in Client, sub[c].pc # "done"
    PROVE  sub[c].told = "none"
BY DEF RxInv, Settled, RxTypeOK, Subscription

LEMMA SubscribeInv ==
    ASSUME RxInv, NEW c \in Client, NEW r \in Requests, NEW w \in BOOLEAN, Subscribe(c, r, w)
    PROVE  RxInv'
<1>1. sub[c].told = "none" /\ result[c] # "success"
  BY NotTold DEF Subscribe, At, RxInv, Settled
<1>2. sub'[c] = Fresh("scheduled", r, w)
  BY DEF Subscribe, RxInv, RxTypeOK
<1>3. late[c] = 0
  BY DEF Subscribe, At, RxInv, LastCall
<1>4. Fresh("scheduled", r, w) \in Subscription
  BY FreshOK
<1>5. Settled(c)' /\ LastCall(c)' /\ MayCall(c)'
  BY <1>1, <1>2, <1>3, RequestsOK
     DEF Subscribe, RxInv, Settled, LastCall, MayCall, Fresh, vars
<1>6. sub[c].pc # "running" /\ Fresh("scheduled", r, w).pc # "running"
  BY DEF Subscribe, At, Fresh
<1> QED BY <1>4, <1>5, <1>6, OwnStep DEF Subscribe

LEMMA DisposeInv ==
    ASSUME RxInv, NEW c \in Client, Dispose(c)
    PROVE  RxInv'
<1> DEFINE s == [sub[c] EXCEPT !.disposed = TRUE]
<1>1. sub[c] \in Subscription
  BY DEF RxInv, RxTypeOK
<1>2. s \in Subscription
  BY <1>1 DEF Subscription
<1>3. /\ s.pc = sub[c].pc /\ s.told = sub[c].told /\ s.left = sub[c].left
      /\ s.within = sub[c].within /\ s.disposed
  BY <1>1 DEF Subscription
<1>4. sub' = [sub EXCEPT ![c] = s] /\ sub'[c] = s
  BY DEF Dispose, RxInv, RxTypeOK
<1> HIDE DEF s
<1>5. sub' \in [Client -> Subscription]
  BY <1>2, <1>4 DEF RxInv, RxTypeOK
<1>6. ASSUME NEW d \in Client PROVE Settled(d)' /\ LastCall(d)' /\ MayCall(d)'
  <2>1. CASE d = c
    BY <1>3, <1>4, <2>1 DEF Dispose, RxInv, Settled, LastCall, MayCall, vars
  <2>2. CASE d # c
    BY <1>4, <2>2 DEF Dispose, RxInv, RxTypeOK, Settled, LastCall, MayCall, vars
  <2> QED BY <2>1, <2>2
<1>7. ASSUME NEW d \in Client PROVE (pending'[d] # Nothing) = At(d, "running")'
  BY <1>3, <1>4 DEF Dispose, RxInv, RxTypeOK, At, vars
<1> QED BY <1>5, <1>6, <1>7 DEF Dispose, RxInv, RxTypeOK, vars

LEMMA StartInv ==
    ASSUME RxInv, NEW c \in Client, Start(c)
    PROVE  RxInv'
<1>1. /\ sub[c].told = "none" /\ result[c] # "success" /\ sub[c].left > 0
      /\ late[c] = 0 \/ sub[c].within
  BY NotTold DEF Start, At, RxInv, Settled, LastCall, MayCall
<1> QED BY <1>1, Moves DEF Start, At

LEMMA DeliverInv ==
    ASSUME RxInv, NEW c \in Client, Deliver(c)
    PROVE  RxInv'
<1>1. sub[c].told = "none"
  BY NotTold DEF Deliver, At
<1> QED BY <1>1, Moves DEF Deliver, At

LEMMA MoveNextInv ==
    ASSUME RxInv, NEW c \in Client, MoveNext(c)
    PROVE  RxInv'
<1>1. /\ sub[c].told = "none" /\ result[c] # "success" /\ sub[c].left > 0
      /\ late[c] = 0 \/ sub[c].within \/ sub[c].disposed
  BY NotTold DEF MoveNext, At, Retry, RxInv, LastCall
<1> QED BY <1>1, Moves DEF MoveNext, At

LEMMA ResubscribeInv ==
    ASSUME RxInv, NEW c \in Client, Resubscribe(c)
    PROVE  RxInv'
<1>1. /\ sub[c].told = "none" /\ result[c] # "success" /\ sub[c].left > 0
      /\ late[c] = 0 \/ sub[c].within
  BY NotTold DEF Resubscribe, At, RxInv, Settled, LastCall, MayCall
<1> QED BY <1>1, Moves DEF Resubscribe, At

LEMMA TellInv ==
    ASSUME RxInv, NEW c \in Client, Tell(c)
    PROVE  RxInv'
<1> DEFINE t == IF result[c] = "success" THEN "success" ELSE "error"
           s == [sub[c] EXCEPT !.pc = "done", !.told = t]
<1>1. sub[c] \in Subscription
  BY DEF RxInv, RxTypeOK
<1>2. s \in Subscription
  BY <1>1 DEF Subscription
<1>3. s.pc = "done" /\ s.told = t /\ s.within = sub[c].within /\ s.disposed = sub[c].disposed
  BY <1>1 DEF Subscription
<1>4. sub' = [sub EXCEPT ![c] = s] /\ sub'[c] = s
  BY DEF Tell, RxInv, RxTypeOK
<1> HIDE DEF s
<1>5. Settled(c)' /\ LastCall(c)' /\ MayCall(c)'
  BY <1>3, <1>4 DEF Tell, At, RxInv, Settled, LastCall, MayCall, vars
<1> QED BY <1>2, <1>3, <1>4, <1>5, OwnStep DEF Tell, At

-----------------------------------------------------------------------------

\* What a subscription's own call into the repository leaves of the others.
LEMMA OthersStay ==
    ASSUME RxInv, NEW c \in Client, NEW d \in Client, d # c,
           NEW s, sub' = [sub EXCEPT ![c] = s],
           NEW r, result' = [result EXCEPT ![c] = r],
           NEW e, effects' = [effects EXCEPT ![c] = e],
           NEW l, late' = [late EXCEPT ![c] = l]
    PROVE  Settled(d)' /\ LastCall(d)' /\ MayCall(d)'
BY DEF RxInv, RxTypeOK, Settled, LastCall, MayCall

LEMMA CallBaseInv ==
    ASSUME RxInv, NEW c \in Client, CallBase(c)
    PROVE  RxInv'
<1> DEFINE q == sub[c].request
           called == Call(c, IF q.op = "update" THEN "create" ELSE q.op, q.change)
           pc == IF called THEN "running" ELSE "ended"
           l == IF sub[c].disposed THEN late[c] + 1 ELSE late[c]
<1>1. /\ sub[c] \in Subscription /\ q \in [op : RxOps, change : Change]
      /\ late[c] \in Nat /\ effects[c] \in Nat
  BY RequestsOK DEF RxInv, RxTypeOK, Subscription
<1>2. sub[c].told = "none" /\ result[c] # "success" /\ sub[c].left > 0
  BY NotTold DEF CallBase, At, RxInv, Settled, MayCall
<1>3. late[c] = 0 \/ sub[c].within
  BY DEF CallBase, At, RxInv, LastCall
<1>4. late' = [late EXCEPT ![c] = l]
  BY DEF CallBase, RxInv, RxTypeOK
<1>5. effects' = [effects EXCEPT ![c] = effects[c]]
  BY DEF CallBase, RxInv, RxTypeOK
<1>6. l \in Nat /\ (~sub[c].within /\ l # 0 => l = 1 /\ sub[c].disposed)
  BY <1>1, <1>3
<1>7. ASSUME NEW p \in {"running", "ended"}, NEW r \in Results \ {"success"},
             sub' = [sub EXCEPT ![c].pc = p, ![c].left = @ - 1],
             result' = [result EXCEPT ![c] = r],
             pending' = [pending EXCEPT ![c] = pending'[c]],
             pending'[c] \in {Nothing} \cup [op : RxOps, change : Change],
             (pending'[c] # Nothing) = (p = "running"),
             objects' = objects
      PROVE  RxInv'
  <2> DEFINE s == [sub[c] EXCEPT !.pc = p, !.left = @ - 1]
  <2>0. sub[c].left - 1 \in 0 .. Attempts
    BY <1>1, <1>2, RequestsOK DEF Subscription
  <2>1. s \in Subscription
    BY <1>1, <2>0 DEF Subscription
  <2>2. s.pc = p /\ s.told = "none" /\ s.within = sub[c].within /\ s.disposed = sub[c].disposed
    BY <1>1, <1>2 DEF Subscription
  <2>3. sub' = [sub EXCEPT ![c] = s] /\ sub'[c] = s
    BY <1>7 DEF RxInv, RxTypeOK
  <2> HIDE DEF s
  <2>4. result'[c] = r /\ late'[c] = l /\ effects'[c] = effects[c]
    BY <1>4, <1>5, <1>7 DEF RxInv, RxTypeOK
  <2>5. effects[c] = 0
    BY <1>2 DEF RxInv, Settled
  <2>6. Settled(c)' /\ LastCall(c)' /\ MayCall(c)'
    BY <1>6, <2>2, <2>3, <2>4, <2>5 DEF Settled, LastCall, MayCall
  <2>7. ASSUME NEW d \in Client PROVE Settled(d)' /\ LastCall(d)' /\ MayCall(d)'
    BY <1>4, <1>5, <1>7, <2>3, <2>6, OthersStay
  <2>8. ASSUME NEW d \in Client PROVE (pending'[d] # Nothing) = At(d, "running")'
    BY <1>7, <2>2, <2>3 DEF RxInv, RxTypeOK, At
  <2>9. /\ sub' \in [Client -> Subscription] /\ result' \in [Client -> Results]
        /\ late' \in [Client -> Nat] /\ effects' \in [Client -> Nat]
        /\ pending' \in [Client -> {Nothing} \cup [op : RxOps, change : Change]]
    BY <1>1, <1>4, <1>5, <1>6, <1>7, <2>1, <2>3 DEF RxInv, RxTypeOK
  <2> QED BY <1>7, <2>7, <2>8, <2>9 DEF RxInv, RxTypeOK
<1>8. CASE /\ called
           /\ sub' = [sub EXCEPT ![c].pc = "running", ![c].left = @ - 1]
  <2> DEFINE p == [op |-> IF q.op = "update" THEN "create" ELSE q.op, change |-> q.change]
  <2>1. p \in [op : RxOps, change : Change]
    BY <1>1 DEF RxOps
  <2>2. pending' = [pending EXCEPT ![c] = p] /\ pending'[c] = p
    BY <1>8 DEF Call, RxInv, RxTypeOK
  <2>3. result' = [result EXCEPT ![c] = result[c]] /\ objects' = objects
    BY <1>8 DEF Call, RxInv, RxTypeOK
  <2>4. result[c] \in Results \ {"success"}
    BY <1>2 DEF RxInv, RxTypeOK
  <2>5. p # Nothing
    BY <2>1, RequestsOK
  <2> QED BY <1>7, <1>8, <2>1, <2>2, <2>3, <2>4, <2>5
<1>9. CASE /\ Refuse(c)
           /\ sub' = [sub EXCEPT ![c].pc = "ended", ![c].left = @ - 1]
  <2>1. pending' = [pending EXCEPT ![c] = pending'[c]] /\ pending'[c] = Nothing
    BY <1>9 DEF Refuse, RxInv, RxTypeOK
  <2>2. result' = [result EXCEPT ![c] = "noOriginalObject"] /\ objects' = objects
    BY <1>9 DEF Refuse
  <2> QED BY <1>7, <1>9, <2>1, <2>2 DEF Results
<1> QED BY <1>8, <1>9 DEF CallBase

LEMMA BaseReturnsInv ==
    ASSUME RxInv, NEW c \in Client, BaseReturns(c)
    PROVE  RxInv'
<1> DEFINE s == [sub[c] EXCEPT !.pc = "ended"]
<1>1. sub[c] \in Subscription /\ effects[c] \in Nat /\ late[c] \in Nat
  BY DEF RxInv, RxTypeOK
<1>2. s \in Subscription /\ s.pc = "ended"
  BY <1>1 DEF Subscription
<1>3. s.told = sub[c].told /\ s.within = sub[c].within /\ s.disposed = sub[c].disposed
  BY <1>1 DEF Subscription
<1>4. sub' = [sub EXCEPT ![c] = s] /\ sub'[c] = s
  BY DEF BaseReturns, Goto, RxInv, RxTypeOK
<1> HIDE DEF s
<1>5. sub[c].told = "none" /\ result[c] # "success" /\ effects[c] = 0
  BY NotTold DEF BaseReturns, At, RxInv, Settled
<1>6. late' = [late EXCEPT ![c] = late[c]]
  BY DEF BaseReturns, RxInv, RxTypeOK
<1>7. ASSUME NEW r \in {"success", "error"}, Returns(c, r), objects' \in Contents,
             effects' = [effects EXCEPT ![c] = IF r = "success" THEN 1 ELSE 0]
      PROVE  RxInv'
  <2>1. /\ result' = [result EXCEPT ![c] = r] /\ result'[c] = r
        /\ effects'[c] = IF r = "success" THEN 1 ELSE 0
        /\ late'[c] = late[c]
    BY <1>6, <1>7 DEF Returns, RxInv, RxTypeOK
  <2>2. Settled(c)' /\ LastCall(c)' /\ MayCall(c)'
    BY <1>2, <1>3, <1>4, <1>5, <2>1 DEF BaseReturns, At, RxInv, Settled, LastCall, MayCall
  <2>3. ASSUME NEW d \in Client PROVE Settled(d)' /\ LastCall(d)' /\ MayCall(d)'
    BY <1>4, <1>6, <1>7, <2>1, <2>2, OthersStay
  <2>4. ASSUME NEW d \in Client PROVE (pending'[d] # Nothing) = At(d, "running")'
    BY <1>2, <1>4, <1>7 DEF Returns, RxInv, RxTypeOK, At
  <2>5. /\ sub' \in [Client -> Subscription] /\ result' \in [Client -> Results]
        /\ late' \in [Client -> Nat] /\ effects' \in [Client -> Nat]
        /\ pending' \in [Client -> {Nothing} \cup [op : RxOps, change : Change]]
    BY <1>1, <1>2, <1>4, <1>6, <1>7, <2>1 DEF Returns, RxInv, RxTypeOK, Results
  <2> QED BY <1>7, <2>3, <2>4, <2>5 DEF RxInv, RxTypeOK
<1>8. CASE Succeed(c) /\ effects' = [effects EXCEPT ![c] = @ + 1]
  <2>1. pending[c] \in [op : RxOps, change : Change]
    BY <1>8 DEF Succeed, RxInv, RxTypeOK
  <2>2. objects' \in Contents
    BY <1>8, <2>1, OutcomesOK DEF Succeed, RxInv, RxTypeOK
  <2>3. effects' = [effects EXCEPT ![c] = 1]
    BY <1>5, <1>8
  <2> QED BY <1>7, <1>8, <2>2, <2>3 DEF Succeed
<1>9. CASE Fail(c) /\ UNCHANGED effects
  <2>1. effects' = [effects EXCEPT ![c] = 0]
    BY <1>5, <1>9 DEF RxInv, RxTypeOK
  <2>2. objects' \in Contents
    BY <1>9 DEF Fail, RxInv, RxTypeOK
  <2> QED BY <1>7, <1>9, <2>1, <2>2 DEF Fail
<1> QED BY <1>8, <1>9 DEF BaseReturns

-----------------------------------------------------------------------------

LEMMA RxInvStep == RxInv /\ [RxNext]_allVars => RxInv'
<1> SUFFICES ASSUME RxInv, [RxNext]_allVars PROVE RxInv'
  OBVIOUS
<1>1. CASE UNCHANGED allVars
  BY <1>1 DEF allVars, rxVars, vars, RxInv, RxTypeOK, Settled, LastCall, MayCall, At
<1>2. ASSUME NEW c \in Client, NEW r \in Requests, NEW w \in BOOLEAN, Subscribe(c, r, w)
      PROVE  RxInv'
  BY <1>2, SubscribeInv
<1>3. ASSUME NEW c \in Client, Dispose(c) PROVE RxInv'
  BY <1>3, DisposeInv
<1>4. ASSUME NEW c \in Client, RunOn(c) PROVE RxInv'
  BY <1>4, StartInv, CallBaseInv, BaseReturnsInv, DeliverInv, TellInv, MoveNextInv,
     ResubscribeInv DEF RunOn
<1> QED BY <1>1, <1>2, <1>3, <1>4 DEF RxNext

\* The variables have their types, and the repository runs an operation for exactly
\* those subscriptions that are in it.
THEOREM RxTypeCorrect == RxSpec => []RxTypeOK
<1>1. RxInv => RxTypeOK
  BY DEF RxInv
<1> QED BY <1>1, RxInvInit, RxInvStep, PTL DEF RxSpec

\* However often it is retried and whenever it is disposed of, an operation takes effect
\* at most once for a subscription, and what a subscriber is told is what has happened.
THEOREM ToldIsTrue == RxSpec => []ToldTruth
<1>1. ASSUME RxInv, NEW c \in Client PROVE effects[c] <= 1
  <2>1. effects[c] = 0 \/ effects[c] = 1
    BY <1>1 DEF RxInv, Settled
  <2> QED BY <2>1
<1>2. RxInv => ToldTruth
  BY <1>1 DEF RxInv, ToldTruth, Settled
<1> QED BY <1>2, RxInvInit, RxInvStep, PTL DEF RxSpec

\* With the retry around subscribeOn, a subscription that is disposed of makes one more
\* call at most.
THEOREM LateOnce == RxSpec => []OneLateCall
<1>1. RxInv => OneLateCall
  BY DEF RxInv, OneLateCall, LastCall
<1> QED BY <1>1, RxInvInit, RxInvStep, PTL DEF RxSpec
=================================================================================
