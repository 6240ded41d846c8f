---- MODULE MCRxRepository ----
EXTENDS RxRepository, TLC

CONSTANTS c1, c2, k1, v1

\* A create, an update and a deleteAll.
Singles ==
    {[op |-> "create", change |-> k1 :> v1], [op |-> "update", change |-> k1 :> v1],
     [op |-> "deleteAll", change |-> k1 :> None]}
====
